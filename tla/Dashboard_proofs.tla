-------------------------- MODULE Dashboard_proofs --------------------------
(***************************************************************************)
(* What lies between GitHub and a page of the web app, for every value of  *)
(* the constants: PATCHes sent one after the other, the list of runs, the  *)
(* selection of the onboarding wizard, the token a page keeps, its live    *)
(* stream, what it shows, the settings pages, a re-sync, and the types of  *)
(* all of it together.  Of what settles, that a state of rest is right.    *)
(***************************************************************************)
EXTENDS MCDashboard, FiniteSetTheorems, TLAPS

-----------------------------------------------------------------------------
(* PATCHes of a repository's settings (PollingLifecycle).                   *)

\* The sets of intervals the operators return.
LEMMA IntervalSets ==
  ASSUME NEW r \in Rows, NEW s \in Rows
  PROVE  /\ Effective(r) \in SUBSET Intervals
         /\ Wanted(r) \subseteq Effective(r)
         /\ Wanted(r) \in SUBSET Intervals
         /\ Known(r, s) \in SUBSET Intervals
BY PollingAssumption DEF Effective, Wanted, Known, Rows

LEMMA AppliedIsRow ==
  ASSUME NEW p \in Patches, NEW r \in Rows
  PROVE  /\ Applied(p, r) \in Rows
         /\ Applied(p, r).state = r.state
BY DEF Applied, Patches, Rows

\* Every variable keeps its type.
THEOREM PollingTypesKept == Spec => []TypeOK
<1>1. Init => TypeOK
  <2>1. /\ NoRow \in Rows /\ NoPatch \in Patches
    BY DEF NoRow, NoPatch, Rows, Patches
  <2> SUFFICES ASSUME Init PROVE TypeOK
    OBVIOUS
  <2>2. /\ row \in Rows
        /\ patch \in [Requests -> Patches]
        /\ before \in [Requests -> Rows]
        /\ after \in [Requests -> Rows]
    BY <2>1 DEF Init
  <2>3. /\ sched \in SUBSET Intervals
        /\ pc \in [Requests -> {"idle", "update", "remove", "add"}]
        /\ todo \in [Requests -> SUBSET Intervals]
    BY DEF Init
  <2>4. /\ rejected \in [Requests -> BOOLEAN]
        /\ settled \in BOOLEAN /\ faults \in Nat
    BY DEF Init
  <2> QED BY <2>2, <2>3, <2>4 DEF TypeOK
<1>2. TypeOK /\ [Next]_vars => TypeOK'
  <2> SUFFICES ASSUME TypeOK, [Next]_vars PROVE TypeOK'
    OBVIOUS
  <2>0. /\ NoRow \in Rows /\ NoPatch \in Patches
    BY DEF NoRow, NoPatch, Rows, Patches
  <2> USE <2>0 DEF TypeOK
  <2>1. CASE Discover
    BY <2>1 DEF Discover, Rows, reqVars
  <2>2. CASE Delete
    BY <2>2 DEF Delete, Rows, reqVars
  <2>3. ASSUME NEW q \in Requests, StartPatch(q) PROVE TypeOK'
    BY <2>3 DEF StartPatch, Goto
  <2>4. ASSUME NEW q \in Requests, RefuseToEnable(q) PROVE TypeOK'
    BY <2>4 DEF RefuseToEnable, End, Goto
  <2>5. ASSUME NEW q \in Requests, WriteRow(q) PROVE TypeOK'
    <3>1. CASE row.state = "present"
      <4>1. /\ row' = Applied(patch[q], row)
            /\ after' = [after EXCEPT ![q] = row']
            /\ todo' = [todo EXCEPT ![q] = Known(before[q], row')]
            /\ settled' = FALSE
            /\ pc' = [pc EXCEPT ![q] = "remove"]
            /\ UNCHANGED <<patch, before, rejected, sched, faults>>
        BY <2>5, <3>1 DEF WriteRow, Goto
      <4>2. row' \in Rows
        BY <4>1, AppliedIsRow
      <4>3. Known(before[q], row') \in SUBSET Intervals
        BY <4>2, IntervalSets
      <4>4. /\ row' \in Rows
            /\ patch' \in [Requests -> Patches]
            /\ before' \in [Requests -> Rows]
            /\ after' \in [Requests -> Rows]
        BY <4>1, <4>2
      <4>5. /\ sched' \in SUBSET Intervals
            /\ pc' \in [Requests -> {"idle", "update", "remove", "add"}]
            /\ todo' \in [Requests -> SUBSET Intervals]
        BY <4>1, <4>3
      <4>6. /\ rejected' \in [Requests -> BOOLEAN]
            /\ settled' \in BOOLEAN /\ faults' \in Nat
        BY <4>1
      <4> QED BY <4>4, <4>5, <4>6
    <3>2. CASE row.state # "present"
      <4>1. /\ End(q)
            /\ UNCHANGED <<row, sched, settled, faults>>
        BY <2>5, <3>2 DEF WriteRow
      <4> QED BY <4>1 DEF End, Goto
    <3> QED BY <3>1, <3>2
  <2>6. ASSUME NEW q \in Requests, AfterRemovals(q) PROVE TypeOK'
    <3>1. CASE End(q)
      <4>1. UNCHANGED <<row, sched, settled, faults>>
        BY <2>6 DEF AfterRemovals
      <4> QED BY <3>1, <4>1 DEF End, Goto
    <3>2. CASE ~End(q)
      <4>1. /\ pc' = [pc EXCEPT ![q] = "add"]
            /\ UNCHANGED <<row, sched, settled, faults, reqVars>>
        BY <2>6, <3>2 DEF AfterRemovals, Goto
      <4> QED BY <4>1 DEF reqVars
    <3> QED BY <3>1, <3>2
  <2>7. ASSUME NEW q \in Requests, AddRepeatable(q) PROVE TypeOK'
    <3>1. Wanted(after[q]) \in SUBSET Intervals
      BY IntervalSets
    <3> QED BY <2>7, <3>1 DEF AddRepeatable, End, Goto
  <2>8. ASSUME NEW q \in Requests, NEW i \in Intervals, RemoveRepeatable(q, i)
        PROVE  TypeOK'
    BY <2>8 DEF RemoveRepeatable
  <2>9. ASSUME NEW q \in Requests, NEW i \in Intervals, RemovalFails(q, i)
        PROVE  TypeOK'
    BY <2>9 DEF RemovalFails, Fault
  <2>10. ASSUME NEW q \in Requests, AddFails(q) PROVE TypeOK'
    BY <2>10 DEF AddFails, Fault, End, Goto
  <2>11. ASSUME NEW q \in Requests, Crash(q) PROVE TypeOK'
    BY <2>11 DEF Crash, Fault, End, Goto
  <2>12. CASE UNCHANGED vars
    BY <2>12 DEF vars, reqVars
  <2> QED
    BY <2>1, <2>2, <2>3, <2>4, <2>5, <2>6, <2>7, <2>8, <2>9, <2>10, <2>11, <2>12
    DEF Next, Sync
<1> QED BY <1>1, <1>2, PTL DEF Spec

-----------------------------------------------------------------------------

Writing(q) == pc[q] \in {"remove", "add"}

\* At most one request is under way.
Alone == \A p, q \in Requests : pc[p] # "idle" /\ pc[q] # "idle" => p = q

\* Only a Delete comes between the read and the write, and after the write.
Current ==
  row.state = "present" =>
    \A q \in Requests :
      /\ pc[q] = "update" => before[q] = row
      /\ Writing(q) => after[q] = row /\ ~settled

\* Between two syncs the job is what the last one left, and nothing is missing
\* from it whatever failed.
Rest ==
  row.state = "present" /\ (\A q \in Requests : ~Writing(q)) =>
    /\ settled => Wanted(row) \subseteq sched
    /\ faults = 0 => sched = IF settled THEN Wanted(row) ELSE {}

\* While one is under way, what is scheduled is still to be removed.
Clearing ==
  faults = 0 =>
    /\ row.state = "unknown" => sched = {} /\ ~settled
    /\ \A q \in Requests : ~rejected[q]
    /\ row.state = "present" =>
         \A q \in Requests :
           /\ pc[q] = "remove" => sched \subseteq todo[q]
           /\ pc[q] = "add" => sched = {}

\* Nothing runs before the repository is known.
Unknown ==
  row.state = "unknown" => ~settled /\ \A q \in Requests : pc[q] = "idle"

SerialInv == Alone /\ Current /\ Rest /\ Clearing /\ Unknown

LEMMA SerialInit == Init => SerialInv
BY DEF Init, SerialInv, Alone, Current, Rest, Clearing, Unknown, Writing, NoRow

LEMMA SerialNext ==
  ASSUME OneAtATime, TypeOK, TypeOK', SerialInv, [Next]_vars
  PROVE  SerialInv'
<1> USE DEF SerialInv, Alone, Writing
<1>1. CASE Discover
  BY <1>1 DEF Discover, reqVars, Current, Rest, Clearing, Unknown
<1>2. CASE Delete
  BY <1>2 DEF Delete, reqVars, TypeOK, Rows, Current, Rest, Clearing, Unknown
<1>3. ASSUME NEW q \in Requests, StartPatch(q) PROVE SerialInv'
  <2>1. /\ \A p \in Requests : pc[p] = "idle"
        /\ \A p \in Requests \ {q} : pc'[p] = "idle"
        /\ pc'[q] = "update" /\ before'[q] = row
        /\ UNCHANGED <<row, sched, settled, faults, rejected>>
        /\ row.state = "present"
    BY <1>3 DEF StartPatch, Goto, TypeOK
  <2> QED BY <2>1 DEF Current, Rest, Clearing, Unknown
<1>4. ASSUME NEW q \in Requests, pc[q] = "update", End(q),
             UNCHANGED <<row, sched, settled>>, faults' = faults
      PROVE  SerialInv'
  <2>1. /\ \A p \in Requests : pc'[p] = "idle"
        /\ \A p \in Requests : rejected'[p] = (IF p = q THEN FALSE ELSE rejected[p])
    BY <1>4 DEF End, Goto, TypeOK
  <2>2. \A p \in Requests : ~Writing(p)
    BY <1>4
  <2>3. row.state # "unknown"
    BY <1>4 DEF Unknown
  <2> QED BY <1>4, <2>1, <2>2, <2>3 DEF Current, Rest, Clearing, Unknown
<1>5. ASSUME NEW q \in Requests, pc[q] # "idle", End(q), Fault,
             UNCHANGED <<row, sched, settled>>
      PROVE  SerialInv'
  <2>1. \A p \in Requests : pc'[p] = "idle"
    BY <1>5 DEF End, Goto, TypeOK
  <2>2. faults' # 0
    BY <1>5 DEF Fault, TypeOK
  <2>3. row.state # "unknown"
    BY <1>5 DEF Unknown
  <2>4. row.state = "present" /\ settled => \A p \in Requests : ~Writing(p)
    BY DEF Current
  <2> QED BY <1>5, <2>1, <2>2, <2>3, <2>4 DEF Current, Rest, Clearing, Unknown
<1>6. ASSUME NEW q \in Requests, WriteRow(q), row.state = "present"
      PROVE  SerialInv'
  <2>1. /\ pc[q] = "update"
        /\ \A p \in Requests \ {q} : pc'[p] = "idle"
        /\ pc'[q] = "remove"
        /\ row' = Applied(patch[q], row) /\ after'[q] = row'
        /\ todo'[q] = Known(before[q], row')
        /\ ~settled' /\ UNCHANGED <<sched, faults, rejected>>
    BY <1>6 DEF WriteRow, Goto, TypeOK
  <2>2. row'.state = "present"
    BY <1>6, <2>1, AppliedIsRow DEF TypeOK
  <2>3. before[q] = row
    BY <1>6, <2>1 DEF Current
  <2>4. \A p \in Requests : ~Writing(p)
    BY <2>1
  <2>5. faults = 0 => sched \subseteq Effective(row)
    BY <1>6, <2>4, IntervalSets DEF Rest, TypeOK
  <2>6. faults = 0 => sched \subseteq todo'[q]
    BY <2>1, <2>3, <2>5 DEF Known
  <2> QED BY <2>1, <2>2, <2>6 DEF Current, Rest, Clearing, Unknown
<1>7. ASSUME NEW q \in Requests, AfterRemovals(q), ~rejected[q]
      PROVE  SerialInv'
  <2>1. /\ pc[q] = "remove" /\ todo[q] = {}
        /\ \A p \in Requests \ {q} : pc'[p] = "idle"
        /\ pc'[q] = "add"
        /\ UNCHANGED <<row, sched, settled, faults, reqVars>>
    BY <1>7 DEF AfterRemovals, Goto, TypeOK
  <2> QED BY <2>1 DEF reqVars, Current, Rest, Clearing, Unknown
<1>8. ASSUME NEW q \in Requests, AfterRemovals(q), rejected[q]
      PROVE  SerialInv'
  <2>1. /\ pc[q] = "remove" /\ UNCHANGED <<row, sched, settled, faults>>
        /\ \A p \in Requests : pc'[p] = "idle"
    BY <1>8 DEF AfterRemovals, End, Goto, TypeOK
  <2>2. faults # 0
    BY <1>8 DEF Clearing
  <2> QED BY <2>1, <2>2 DEF Current, Rest, Clearing, Unknown
<1>9. ASSUME NEW q \in Requests, NEW i \in Intervals, RemoveRepeatable(q, i)
      PROVE  SerialInv'
  <2>1. /\ pc[q] = "remove" /\ sched' = sched \ {i} /\ todo'[q] = todo[q] \ {i}
        /\ UNCHANGED <<row, pc, after, before, rejected, settled, faults>>
    BY <1>9 DEF RemoveRepeatable, TypeOK
  <2>2. \A p \in Requests \ {q} : pc[p] = "idle"
    BY <2>1
  <2> QED BY <2>1, <2>2 DEF Current, Rest, Clearing, Unknown
<1>10. ASSUME NEW q \in Requests, NEW i \in Intervals, RemovalFails(q, i)
       PROVE  SerialInv'
  <2>1. /\ pc[q] = "remove" /\ faults' # 0
        /\ UNCHANGED <<row, pc, after, before, settled>>
    BY <1>10 DEF RemovalFails, Fault, TypeOK
  <2> QED BY <2>1 DEF Current, Rest, Clearing, Unknown
<1>11. ASSUME NEW q \in Requests, AddRepeatable(q)
       PROVE  SerialInv'
  <2>1. /\ pc[q] = "add" /\ sched' = sched \cup Wanted(after[q]) /\ settled'
        /\ \A p \in Requests : pc'[p] = "idle"
        /\ \A p \in Requests : rejected'[p] = (IF p = q THEN FALSE ELSE rejected[p])
        /\ UNCHANGED <<row, faults>>
    BY <1>11 DEF AddRepeatable, End, Goto, TypeOK
  <2>2. row.state # "unknown"
    BY <2>1 DEF Unknown
  <2>3. row.state = "present" => after[q] = row
    BY <2>1 DEF Current
  <2>4. row.state = "present" /\ faults = 0 => sched = {}
    BY <2>1 DEF Clearing
  <2>5. Wanted(row)' = Wanted(row)
    BY <2>1 DEF Wanted, Effective
  <2> QED BY <2>1, <2>2, <2>3, <2>4, <2>5 DEF Current, Rest, Clearing, Unknown
<1>12. CASE UNCHANGED vars
  BY <1>12 DEF vars, reqVars, Current, Rest, Clearing, Unknown, Wanted, Effective
<1>13. ASSUME NEW q \in Requests, RefuseToEnable(q) PROVE SerialInv'
  BY <1>13, <1>4 DEF RefuseToEnable
<1>14. ASSUME NEW q \in Requests, WriteRow(q) PROVE SerialInv'
  BY <1>14, <1>4, <1>6 DEF WriteRow
<1>15. ASSUME NEW q \in Requests, AddFails(q) PROVE SerialInv'
  BY <1>15, <1>5 DEF AddFails
<1>16. ASSUME NEW q \in Requests, Crash(q) PROVE SerialInv'
  BY <1>16, <1>5 DEF Crash
<1> QED
  BY <1>1, <1>2, <1>3, <1>7, <1>8, <1>9, <1>10, <1>11, <1>12, <1>13, <1>14,
     <1>15, <1>16
  DEF Next, Sync

\* PATCHes one after the other keep SerialInv.
THEOREM SerialSync == ASSUME OneAtATime PROVE Spec => []SerialInv
<1>1. TypeOK /\ TypeOK' /\ SerialInv /\ [Next]_vars => SerialInv'
  BY SerialNext
<1> QED BY <1>1, SerialInit, PollingTypesKept, PTL DEF Spec

\* PATCHes one after the other, none of whose calls failed, leave exactly the
\* wanted job: looking for the intervals of two rows is enough.
THEOREM SerialExact == ASSUME OneAtATime PROVE Spec => []SerialSyncExact
<1>1. SerialInv => SerialSyncExact
  BY DEF SerialInv, Rest, SerialSyncExact, Quiet, Writing
<1> QED BY <1>1, SerialSync, PTL

\* Whatever failed before, a PATCH answered without an error leaves the wanted
\* job in place.
THEOREM SerialRepairs == ASSUME OneAtATime PROVE Spec => []SerialSyncRepairs
<1>1. SerialInv => SerialSyncRepairs
  BY DEF SerialInv, Rest, SerialSyncRepairs, Quiet, Writing
<1> QED BY <1>1, SerialSync, PTL

-----------------------------------------------------------------------------
(* The list of runs (RunPages).                                             *)

USE RunPagesAssumption

RankIn(rows, r) == Cardinality({s \in rows : Precedes(s, r)})

\* What a page of a list is, without ranks: the runs up to its last one, or all of them.
LEMMA PrecedesOrder ==
  ASSUME RunPagesTypeOK
  PROVE  /\ \A r \in RunIds : ~Precedes(r, r)
         /\ \A r, s, t \in RunIds : Precedes(r, s) /\ Precedes(s, t) => Precedes(r, t)
         /\ \A r, s \in RunIds : r # s => Precedes(r, s) \/ Precedes(s, r)
<1> startedAt \in [RunIds -> Nat] /\ RunIds \subseteq Nat
  BY DEF RunPagesTypeOK
<1> QED BY DEF Precedes

LEMMA RankType ==
  ASSUME NEW rows \in SUBSET RunIds, NEW r
  PROVE  /\ IsFiniteSet({s \in rows : Precedes(s, r)})
         /\ RankIn(rows, r) \in Nat
<1>1. {s \in rows : Precedes(s, r)} \in SUBSET RunIds
  OBVIOUS
<1>2. IsFiniteSet({s \in rows : Precedes(s, r)})
  BY <1>1, FS_Subset
<1> QED BY <1>2, FS_CardinalityType DEF RankIn

\* A run has a lower rank than those after it.
LEMMA RankGrows ==
  ASSUME RunPagesTypeOK, NEW rows \in SUBSET RunIds, NEW r \in rows, NEW s \in rows,
         Precedes(r, s)
  PROVE  RankIn(rows, r) < RankIn(rows, s)
<1> DEFINE P == {t \in rows : Precedes(t, r)}
           Q == {t \in rows : Precedes(t, s)}
<1>1. P \subseteq Q /\ r \in Q /\ r \notin P
  BY PrecedesOrder
<1>2. IsFiniteSet(Q) /\ Cardinality(P) \in Nat /\ Cardinality(Q) \in Nat
  BY RankType DEF RankIn
<1> HIDE DEF P, Q
<1>3. Cardinality(P) <= Cardinality(Q) /\ (Cardinality(P) = Cardinality(Q) => P = Q)
  BY <1>1, <1>2, FS_Subset
<1>4. Cardinality(P) < Cardinality(Q)
  BY <1>1, <1>2, <1>3
<1> QED BY <1>4 DEF P, Q, RankIn

\* If a run has the rank n or a higher one, another has the rank n and is a successor of
\* a whole page.
LEMMA FirstBeyond ==
  ASSUME RunPagesTypeOK, NEW rows \in SUBSET RunIds, NEW r \in rows, NEW n \in Nat,
         RankIn(rows, r) >= n
  PROVE  Cardinality({t \in rows : RankIn(rows, t) <= n}) > n
<1> DEFINE Before(t) == {s \in rows : Precedes(s, t)}
           beyond == {t \in rows : RankIn(rows, t) >= n}
           family == {Before(t) : t \in beyond}
           within == {t \in rows : RankIn(rows, t) < n}
           fetched == {t \in rows : RankIn(rows, t) <= n}
<1>1. PICK f \in beyond : \A t \in beyond : ~Precedes(t, f)
  <2>1. family \subseteq FiniteSubsetsOf(RunIds) /\ family # {}
    <3>1. \A t \in beyond : IsFiniteSet(Before(t)) /\ Before(t) \in SUBSET RunIds
      BY RankType
    <3> QED BY <3>1 DEF FiniteSubsetsOf
  <2> HIDE DEF family
  <2>2. PICK x \in family : \A y \in family : <<y, x>> \notin StrictSubsetOrdering(RunIds)
    BY <2>1, FS_StrictSubsetOrderingWellFounded, WFMin
  <2> USE DEF family
  <2>3. PICK f \in beyond : x = Before(f)
    OBVIOUS
  <2>4. \A t \in beyond : ~Precedes(t, f)
    <3> SUFFICES ASSUME NEW t \in beyond, Precedes(t, f) PROVE FALSE
      OBVIOUS
    <3>1. Before(t) \subseteq Before(f) /\ t \in Before(f) /\ t \notin Before(t)
      BY PrecedesOrder
    <3>2. Before(t) \in family /\ Before(t) \in SUBSET RunIds /\ Before(f) \in SUBSET RunIds
      OBVIOUS
    <3> HIDE DEF Before, family
    <3>3. <<Before(t), Before(f)>> \in StrictSubsetOrdering(RunIds)
      BY <3>1, <3>2 DEF StrictSubsetOrdering
    <3> QED BY <2>2, <2>3, <3>2, <3>3
  <2> QED BY <2>4
<1>2. RankIn(rows, f) \in Nat /\ \A t \in rows : RankIn(rows, t) \in Nat
  BY RankType
<1>3. Before(f) \subseteq within
  <2> SUFFICES ASSUME NEW s \in rows, Precedes(s, f) PROVE RankIn(rows, s) < n
    OBVIOUS
  <2>1. ~(RankIn(rows, s) >= n)
    BY <1>1
  <2> QED BY <1>2, <2>1
<1>4. IsFiniteSet(within) /\ Cardinality(within) <= n
  <2> DEFINE g == [t \in within |-> RankIn(rows, t)]
  <2>1. g \in [within -> 0 .. n - 1]
    <3> SUFFICES ASSUME NEW t \in within PROVE RankIn(rows, t) \in 0 .. n - 1
      OBVIOUS
    <3> QED BY <1>2
  <2>2. \A s, t \in within : g[s] = g[t] => s = t
    <3> SUFFICES ASSUME NEW s \in within, NEW t \in within, RankIn(rows, s) = RankIn(rows, t), s # t
                 PROVE  FALSE
      OBVIOUS
    <3>1. RankIn(rows, s) < RankIn(rows, t) \/ RankIn(rows, t) < RankIn(rows, s)
      BY PrecedesOrder, RankGrows
    <3> QED BY <1>2, <3>1
  <2>3. g \in Injection(within, 0 .. n - 1)
    <3> HIDE DEF g
    <3> QED BY <2>1, <2>2 DEF Injection, IsInjective
  <2>4. IsFiniteSet(0 .. n - 1) /\ Cardinality(0 .. n - 1) = n
    <3>1. 0 \in Int /\ n - 1 \in Int
      OBVIOUS
    <3>2. Cardinality(0 .. n - 1) = IF 0 > n - 1 THEN 0 ELSE (n - 1) - 0 + 1
      BY <3>1, FS_Interval, Zenon
    <3> QED BY <3>1, <3>2, FS_Interval
  <2> HIDE DEF g, within
  <2> QED BY <2>3, <2>4, FS_Injection
<1>5. RankIn(rows, f) <= n
  <2> HIDE DEF within
  <2>1. Cardinality(Before(f)) <= Cardinality(within) /\ Cardinality(within) \in Nat
    BY <1>3, <1>4, FS_Subset, FS_CardinalityType
  <2> QED BY <1>2, <1>4, <2>1 DEF RankIn
<1>6. RankIn(rows, f) = n /\ f \in fetched /\ Before(f) \subseteq fetched /\ f \notin Before(f)
  <2>1. RankIn(rows, f) = n /\ f \in fetched
    BY <1>2, <1>5
  <2>2. \A t \in within : t \in fetched
    BY <1>2
  <2>3. f \notin Before(f)
    BY PrecedesOrder
  <2> QED BY <1>3, <2>1, <2>2, <2>3
<1>7. Cardinality(Before(f) \cup {f}) = n + 1 /\ Before(f) \cup {f} \subseteq fetched
  <2>1. IsFiniteSet(Before(f)) /\ Cardinality(Before(f)) = n
    BY <1>6, RankType DEF RankIn
  <2> HIDE DEF Before, fetched
  <2> QED BY <1>6, <2>1, FS_AddElement
<1>8. IsFiniteSet(fetched)
  BY FS_Subset
<1> HIDE DEF Before, fetched
<1>9. Cardinality(Before(f) \cup {f}) <= Cardinality(fetched) /\ Cardinality(fetched) \in Nat
  BY <1>7, <1>8, FS_Subset, FS_CardinalityType
<1> QED BY <1>7, <1>9 DEF fetched

-----------------------------------------------------------------------------

\* The rows of a page, by the cursor after it.
PageIn(rows) == {r \in rows : RankIn(rows, r) < PageSize}

LEMMA WholePage ==
  ASSUME RunPagesTypeOK, NEW rows \in SUBSET RunIds, NEW last \in rows,
         RankIn(rows, last) = PageSize - 1
  PROVE  \A r \in rows : r \in PageIn(rows) <=> ~Precedes(last, r)
<1> SUFFICES ASSUME NEW r \in rows PROVE r \in PageIn(rows) <=> ~Precedes(last, r)
  OBVIOUS
<1>1. RankIn(rows, r) \in Nat /\ RankIn(rows, last) \in Nat
  BY RankType
<1>2. Precedes(last, r) => RankIn(rows, last) < RankIn(rows, r)
  BY RankGrows
<1>3. ~Precedes(last, r) => r = last \/ RankIn(rows, r) < RankIn(rows, last)
  BY PrecedesOrder, RankGrows
<1> QED BY <1>1, <1>2, <1>3 DEF PageIn

LEMMA LastPage ==
  ASSUME RunPagesTypeOK, NEW rows \in SUBSET RunIds,
         ~(Cardinality({r \in rows : RankIn(rows, r) <= PageSize}) > PageSize)
  PROVE  PageIn(rows) = rows
<1>1. \A r \in rows : ~(RankIn(rows, r) >= PageSize) /\ RankIn(rows, r) \in Nat
  BY FirstBeyond, RankType
<1>2. \A r \in rows : RankIn(rows, r) < PageSize
  BY <1>1
<1> QED BY <1>2 DEF PageIn

LEMMA RunPagesInitially == RunPagesInit => RunPagesTypeOK /\ EachRunOnce
<1> SUFFICES ASSUME RunPagesInit PROVE RunPagesTypeOK /\ EachRunOnce
  OBVIOUS
<1>1. RunPagesTypeOK
  BY DEF RunPagesInit, RunPagesTypeOK, Top
<1>2. \A r \in Listed : shown[r] = 0 /\ startedAt[r] < reader.cursor.start /\ reader.state = "first"
  BY DEF RunPagesInit, Listed, Top
<1> QED BY <1>1, <1>2 DEF EachRunOnce, BeforeCursor

LEMMA CursorType ==
  ASSUME RunPagesTypeOK
  PROVE  reader.cursor.start \in Nat /\ reader.cursor.id \in Nat
<1>1. reader.cursor \in [start : 1 .. LastStart + 1, id : RunIds \cup {0}]
  BY DEF RunPagesTypeOK
<1>2. reader.cursor.start \in 1 .. LastStart + 1
  BY <1>1
<1>3. reader.cursor.id \in RunIds \cup {0}
  BY <1>1
<1>4. RunIds \cup {0} \subseteq Nat
  OBVIOUS
<1>5. \A i \in 1 .. LastStart + 1 : i \in Nat
  OBVIOUS
<1> QED BY <1>2, <1>3, <1>4, <1>5, Zenon

\* What a page does to each run.
LEMMA ListPageStep ==
  ASSUME RunPagesTypeOK, EachRunOnce, ListPage
  PROVE  RunPagesTypeOK' /\ EachRunOnce'
<1> DEFINE rows == {r \in Listed : BeforeCursor(r)}
           onePage == PageIn(rows)
           fetched == {r \in rows : RankIn(rows, r) <= PageSize}
<1>1. rows \in SUBSET RunIds /\ onePage \subseteq rows
  BY DEF Listed, PageIn
<1>2. /\ reader.state # "end"
      /\ shown' = [r \in RunIds |-> IF r \in onePage /\ shown[r] < 2 THEN shown[r] + 1 ELSE shown[r]]
      /\ IF Cardinality(fetched) > PageSize
           THEN \E last \in onePage :
                  /\ RankIn(rows, last) = PageSize - 1
                  /\ reader' = [cursor |-> [start |-> startedAt[last], id |-> last], state |-> "more"]
           ELSE reader' = [cursor |-> Top, state |-> "end"]
      /\ UNCHANGED <<startedAt, moved, moves>>
  BY DEF ListPage, PageIn, RankIn
<1> HIDE DEF rows, onePage, fetched
<1>3. shown' \in [RunIds -> 0 .. 2]
  BY <1>2 DEF RunPagesTypeOK
<1>4. CASE Cardinality(fetched) > PageSize
  <2>1. PICK last \in onePage :
          /\ RankIn(rows, last) = PageSize - 1
          /\ reader' = [cursor |-> [start |-> startedAt[last], id |-> last], state |-> "more"]
    BY <1>2, <1>4
  <2>2. last \in Listed /\ BeforeCursor(last) /\ last \in rows
    BY <1>1 DEF rows
  <2>3. RunPagesTypeOK'
    <3>1. startedAt[last] \in 1 .. LastStart + 1 /\ last \in RunIds
      BY <2>2 DEF Listed, RunPagesTypeOK, Absent
    <3> QED BY <1>2, <1>3, <2>1, <3>1 DEF RunPagesTypeOK
  <2>4. \A r \in RunIds : BeforeCursor(r)' <=> Precedes(last, r)
    <3>1. startedAt \in [RunIds -> Nat] /\ RunIds \subseteq Nat /\ last \in RunIds
      BY <2>2 DEF RunPagesTypeOK, Listed
    <3> QED BY <1>2, <2>1, <3>1 DEF BeforeCursor, Precedes
  <2>5. \A r \in RunIds : BeforeCursor(r)' => BeforeCursor(r)
    <3>1. startedAt \in [RunIds -> Nat] /\ RunIds \subseteq Nat /\ last \in RunIds
      BY <2>2 DEF RunPagesTypeOK, Listed
    <3>2. reader.cursor.start \in Nat /\ reader.cursor.id \in Nat
      BY CursorType
    <3> HIDE RunPagesAssumption
    <3> QED BY <2>2, <2>4, <3>1, <3>2 DEF BeforeCursor, Precedes
  <2>6. \A r \in rows : r \in onePage <=> ~BeforeCursor(r)'
    BY <1>1, <2>1, <2>2, <2>4, WholePage DEF onePage
  <2>7. ASSUME NEW r \in Listed \ moved
        PROVE  shown'[r] = IF BeforeCursor(r)' THEN 0 ELSE 1
    <3>1. r \in RunIds /\ shown[r] = IF BeforeCursor(r) THEN 0 ELSE 1
      BY <1>2, <2>7 DEF EachRunOnce, Listed
    <3>2. r \in rows <=> BeforeCursor(r)
      BY <2>7 DEF rows
    <3>3. shown'[r] = IF r \in onePage /\ shown[r] < 2 THEN shown[r] + 1 ELSE shown[r]
      BY <1>2, <3>1
    <3> QED BY <1>1, <2>5, <2>6, <3>1, <3>2, <3>3
  <2>8. Listed' = Listed /\ moved' = moved /\ reader'.state = "more"
    BY <1>2, <2>1 DEF Listed
  <2> QED BY <2>3, <2>7, <2>8 DEF EachRunOnce
<1>5. CASE ~(Cardinality(fetched) > PageSize)
  <2>1. reader' = [cursor |-> Top, state |-> "end"]
    BY <1>2, <1>5
  <2>2. RunPagesTypeOK'
    BY <1>2, <1>3, <2>1 DEF RunPagesTypeOK, Top
  <2>3. onePage = rows
    BY <1>1, <1>5, LastPage DEF onePage, fetched
  <2>4. ASSUME NEW r \in Listed \ moved
        PROVE  shown'[r] = 1
    <3>1. r \in RunIds /\ shown[r] = IF BeforeCursor(r) THEN 0 ELSE 1
      BY <1>2, <2>4 DEF EachRunOnce, Listed
    <3>2. r \in onePage <=> BeforeCursor(r)
      BY <2>3, <2>4 DEF rows
    <3> QED BY <1>2, <3>1, <3>2
  <2>5. Listed' = Listed /\ moved' = moved /\ reader'.state = "end"
    BY <1>2, <2>1 DEF Listed
  <2> QED BY <2>2, <2>4, <2>5 DEF EachRunOnce
<1> QED BY <1>4, <1>5

\* A run that is stored, started again or deleted is one the property no longer speaks of.
LEMMA MoveStep ==
  ASSUME RunPagesTypeOK, EachRunOnce, NEW r \in RunIds, Upsert(r) \/ DeleteRun(r)
  PROVE  RunPagesTypeOK' /\ EachRunOnce'
<1>1. /\ moves' = moves + 1 /\ moves < MaxMoves
      /\ moved' = moved \cup {r}
      /\ \E t \in 0 .. LastStart : startedAt' = [startedAt EXCEPT ![r] = t]
      /\ UNCHANGED <<reader, shown>>
  BY DEF Upsert, DeleteRun, Absent
<1>2. RunPagesTypeOK'
  BY <1>1 DEF RunPagesTypeOK
<1>3. ASSUME NEW s \in (Listed \ moved)'
      PROVE  s \in Listed \ moved /\ startedAt'[s] = startedAt[s]
  BY <1>1, <1>3 DEF Listed, RunPagesTypeOK
<1>4. EachRunOnce'
  <2> SUFFICES ASSUME NEW s \in (Listed \ moved)'
               PROVE  shown'[s] = IF reader'.state # "end" /\ BeforeCursor(s)' THEN 0 ELSE 1
    BY DEF EachRunOnce
  <2>1. BeforeCursor(s)' <=> BeforeCursor(s)
    BY <1>1, <1>3 DEF BeforeCursor
  <2> QED BY <1>1, <1>3, <2>1 DEF EachRunOnce
<1> QED BY <1>2, <1>4

LEMMA RunPagesInvariant == RunPagesSpec => [](RunPagesTypeOK /\ EachRunOnce)
<1>1. RunPagesTypeOK /\ EachRunOnce /\ [RunPagesNext]_runPagesVars => RunPagesTypeOK' /\ EachRunOnce'
  <2> SUFFICES ASSUME RunPagesTypeOK, EachRunOnce, [RunPagesNext]_runPagesVars
               PROVE  RunPagesTypeOK' /\ EachRunOnce'
    OBVIOUS
  <2>1. CASE ListPage
    BY <2>1, ListPageStep
  <2>2. CASE \E r \in RunIds : Upsert(r) \/ DeleteRun(r)
    BY <2>2, MoveStep
  <2>3. CASE UNCHANGED runPagesVars
    BY <2>3 DEF runPagesVars, RunPagesTypeOK, EachRunOnce, Listed, BeforeCursor
  <2> QED BY <2>1, <2>2, <2>3 DEF RunPagesNext
<1> QED BY <1>1, RunPagesInitially, PTL DEF RunPagesSpec

\* However many runs there are, and however long a page is: a run that is not touched while
\* the list is read is on exactly one page.
THEOREM ListedOnce == RunPagesSpec => []EachRunOnce
BY RunPagesInvariant, PTL

HIDE RunPagesAssumption

-----------------------------------------------------------------------------
(* The onboarding wizard (Onboarding).                                      *)

USE OnboardingAssumption

StartRecords == [state : {"none", "sent", "done", "failed", "left"},
                 rows : SUBSET Offered, chosen : SUBSET Offered, alone : BOOLEAN,
                 patch : [Offered -> {"none", "sent", "stored", "failed"}]]
PickerRecords == [rows : SUBSET Offered, chosen : SUBSET Offered, loading : BOOLEAN,
                  failed : BOOLEAN, beside : BOOLEAN, submitting : 0 .. MaxStarts]
PollRecords == [step : {"idle", "asked", "answered"}, rows : SUBSET Offered]

\* The types of the variables the selection goes through.
SelectionTypeOK ==
  /\ tracking \in [Offered -> {"absent", "on", "off"}]
  /\ picker \in PickerRecords
  /\ poll \in [ListLoads -> PollRecords]
  /\ start \in [Starts -> StartRecords]

\* The attempts are made in order, and none is sent before its click.
StartsInOrder ==
  \A a \in Starts :
    /\ start[a].state # "none" => \A b \in 1 .. a - 1 : start[b].state # "none"
    /\ start[a].state = "none" => \A r \in Offered : start[a].patch[r] = "none"

NoneAfter(a) == \A b \in a + 1 .. MaxStarts : start[b].state = "none"

\* An attempt that counts: the last one, when none before it was under way.
Counts(a) == start[a].state \in {"sent", "done"} /\ start[a].alone /\ NoneAfter(a)

\* Nothing is under way before it, and what it has stored is still there.
StoredStays ==
  \A a \in Starts : Counts(a) =>
    /\ \A b \in 1 .. a - 1 : ~UnderWay(b)
    /\ \A r \in start[a].rows : start[a].patch[r] = "stored" =>
         tracking[r] # "absent" /\ (tracking[r] = "on" <=> r \in start[a].chosen)

DoneStored ==
  \A a \in Starts : start[a].state = "done" =>
    \A r \in start[a].rows : start[a].patch[r] = "stored"

SelectionInv == SelectionTypeOK /\ StartsInOrder /\ StoredStays /\ DoneStored

-----------------------------------------------------------------------------

\* What actions put in place of the picker, a load of the list and an attempt.
LEMMA SelectionRecords ==
  NoPicker \in PickerRecords /\ NoPoll \in PollRecords /\ NoStart \in StartRecords
<1>1. NoPicker \in PickerRecords
  BY DEF NoPicker, PickerRecords
<1>2. NoPoll \in PollRecords
  BY DEF NoPoll, PollRecords
<1>3. NoStart \in StartRecords
  BY DEF NoStart, StartRecords
<1> QED BY <1>1, <1>2, <1>3

LEMMA PickerFollowsType ==
  ASSUME SelectionTypeOK, PickerFollows
  PROVE  picker' \in PickerRecords /\ poll' \in [ListLoads -> PollRecords]
<1>1. CASE UNCHANGED pickerVars
  BY <1>1 DEF pickerVars, SelectionTypeOK
<1>2. CASE picker' = NoPicker /\ poll' = [p \in ListLoads |-> NoPoll]
  BY <1>2, SelectionRecords
<1> QED BY <1>1, <1>2 DEF PickerFollows

LEMMA SelectionInit == OnboardingInit => SelectionInv
<1> SUFFICES ASSUME OnboardingInit PROVE SelectionInv
  OBVIOUS
<1>1. SelectionTypeOK
  BY SelectionRecords DEF OnboardingInit, SelectionTypeOK
<1>2. \A a \in Starts : start[a].state = "none" /\ \A r \in Offered : start[a].patch[r] = "none"
  BY DEF OnboardingInit, NoStart
<1> QED BY <1>1, <1>2 DEF SelectionInv, StartsInOrder, StoredStays, DoneStored, Counts

\* What leaves the attempts and the repositories alone leaves the selection as it is.
LEMMA SelectionUntouched ==
  ASSUME SelectionInv, UNCHANGED <<tracking, start>>,
         picker' \in PickerRecords, poll' \in [ListLoads -> PollRecords]
  PROVE  SelectionInv'
<1>1. SelectionTypeOK'
  BY DEF SelectionInv, SelectionTypeOK
<1>2. StartsInOrder' /\ StoredStays' /\ DoneStored'
  BY DEF SelectionInv, StartsInOrder, StoredStays, DoneStored, Counts, NoneAfter, UnderWay
<1> QED BY <1>1, <1>2 DEF SelectionInv

\* A step that changes how attempts stand, but puts none of them in one of the states
\* that count, nor sends or stores anything.
LEMMA AttemptsClosed ==
  ASSUME SelectionInv, UNCHANGED tracking,
         start' \in [Starts -> StartRecords],
         picker' \in PickerRecords, poll' \in [ListLoads -> PollRecords],
         \A a \in Starts :
           /\ start'[a].state \in {"sent", "done"} =>
                start'[a].state = start[a].state \/
                  (start[a].state = "sent" /\ \A r \in start[a].rows : start[a].patch[r] = "stored")
           /\ start'[a].state = "none" <=> start[a].state = "none"
           /\ start'[a].rows = start[a].rows /\ start'[a].chosen = start[a].chosen
           /\ start'[a].alone = start[a].alone /\ start'[a].patch = start[a].patch
  PROVE  SelectionInv'
<1>1. SelectionTypeOK'
  BY DEF SelectionInv, SelectionTypeOK
<1>2. StartsInOrder'
  BY DEF SelectionInv, StartsInOrder, Starts
<1>3. \A a \in Starts : Counts(a)' => Counts(a)
  BY DEF Counts, NoneAfter, Starts
<1>4. \A a \in Starts : UnderWay(a)' <=> UnderWay(a)
  BY DEF UnderWay
<1>5. StoredStays'
  BY <1>3, <1>4 DEF SelectionInv, StoredStays, Starts
<1>6. DoneStored'
  BY DEF SelectionInv, DoneStored
<1> QED BY <1>1, <1>2, <1>5, <1>6 DEF SelectionInv

LEMMA PageLoadKeeps ==
  ASSUME SelectionInv, NEW n, PageLoad(n), UNCHANGED tracking
  PROVE  SelectionInv'
<1>1. picker' \in PickerRecords /\ poll' \in [ListLoads -> PollRecords]
  BY PickerFollowsType DEF PageLoad, SelectionInv
<1>2. \A a \in Starts : start'[a] = IF start[a].state = "sent"
                                   THEN [start[a] EXCEPT !.state = "left"] ELSE start[a]
  BY DEF PageLoad
<1>3. \A a \in Starts : start[a] \in StartRecords
  BY DEF SelectionInv, SelectionTypeOK
<1>4. ASSUME NEW x \in StartRecords
      PROVE  [x EXCEPT !.state = "left"] \in StartRecords
  BY DEF StartRecords
<1>5. \A a \in Starts : start'[a] \in StartRecords
  BY <1>2, <1>3, <1>4
<1>6. start' \in [Starts -> StartRecords]
  BY <1>5 DEF PageLoad
<1>7. \A a \in Starts :
        /\ start'[a].state \in {"sent", "done"} => start'[a].state = start[a].state
        /\ start'[a].state = "none" <=> start[a].state = "none"
        /\ start'[a].rows = start[a].rows /\ start'[a].chosen = start[a].chosen
        /\ start'[a].alone = start[a].alone /\ start'[a].patch = start[a].patch
  BY <1>2, <1>3 DEF StartRecords
<1> QED BY <1>1, <1>6, <1>7, AttemptsClosed

\* One attempt is closed in a state.
LEMMA AttemptEnds ==
  ASSUME SelectionInv, NEW a \in Starts, NEW z \in {"done", "failed"}, UNCHANGED tracking,
         start[a].state = "sent",
         z = "done" => \A r \in start[a].rows : start[a].patch[r] = "stored",
         start' = [start EXCEPT ![a].state = z],
         picker' \in PickerRecords, poll' \in [ListLoads -> PollRecords]
  PROVE  SelectionInv'
<1>1. start \in [Starts -> StartRecords]
  BY DEF SelectionInv, SelectionTypeOK
<1>2. start' \in [Starts -> StartRecords]
  BY <1>1 DEF StartRecords
<1>3. \A b \in Starts :
        /\ start'[b].state = (IF b = a THEN z ELSE start[b].state)
        /\ start'[b].rows = start[b].rows /\ start'[b].chosen = start[b].chosen
        /\ start'[b].alone = start[b].alone /\ start'[b].patch = start[b].patch
  BY <1>1 DEF StartRecords
<1> QED BY <1>2, <1>3, AttemptsClosed

LEMMA FindRepositoryKeeps ==
  ASSUME SelectionInv, NEW r \in Offered, FindRepository(r)
  PROVE  SelectionInv'
<1> USE DEF FindRepository, pickerVars
<1>1. SelectionTypeOK'
  BY DEF SelectionInv, SelectionTypeOK
<1>2. StartsInOrder' /\ DoneStored'
  BY DEF SelectionInv, StartsInOrder, DoneStored
<1>3. \A a \in Starts : (Counts(a)' <=> Counts(a)) /\ (UnderWay(a)' <=> UnderWay(a))
  BY DEF Counts, NoneAfter, UnderWay
<1>4. StoredStays'
  <2> SUFFICES ASSUME NEW a \in Starts, Counts(a)
               PROVE  /\ \A b \in 1 .. a - 1 : ~UnderWay(b)
                      /\ \A q \in start[a].rows : start[a].patch[q] = "stored" =>
                           tracking'[q] # "absent" /\ (tracking'[q] = "on" <=> q \in start[a].chosen)
    BY <1>3 DEF StoredStays, Starts
  <2>1. \A q \in Offered : tracking[q] # "absent" => tracking'[q] = tracking[q]
    BY DEF SelectionInv, SelectionTypeOK
  <2>2. start[a].rows \subseteq Offered
    BY DEF SelectionInv, SelectionTypeOK, StartRecords
  <2> QED BY <2>1, <2>2 DEF SelectionInv, StoredStays
<1> QED BY <1>1, <1>2, <1>4 DEF SelectionInv

LEMMA StartSyncKeeps ==
  ASSUME SelectionInv, NEW a \in Starts, StartSync(a)
  PROVE  SelectionInv'
<1> DEFINE fresh == [state |-> "sent", rows |-> picker.rows, chosen |-> picker.chosen,
                     alone |-> \A b \in 1 .. a - 1 : ~UnderWay(b),
                     patch |-> [r \in Offered |-> IF r \in picker.rows THEN "sent" ELSE "none"]]
<1>1. start \in [Starts -> StartRecords] /\ picker \in PickerRecords
  BY DEF SelectionInv, SelectionTypeOK
<1>2. start' = [start EXCEPT ![a] = fresh] /\ UNCHANGED <<tracking, poll>>
  BY DEF StartSync, serverVars
<1>3. (\A b \in 1 .. a - 1 : ~UnderWay(b)) \in BOOLEAN
  BY Zenon
<1>4. fresh.alone \in BOOLEAN
  BY <1>3, Zenon
<1>5. fresh \in StartRecords
  <2>1. picker.rows \in SUBSET Offered /\ picker.chosen \in SUBSET Offered
    BY <1>1 DEF PickerRecords
  <2> QED BY <1>3, <2>1 DEF StartRecords
<1>6. SelectionTypeOK'
  <2>1. start' \in [Starts -> StartRecords]
    BY <1>1, <1>2, <1>5
  <2>2. picker' \in PickerRecords
    BY <1>1 DEF StartSync, PickerRecords, Starts
  <2> QED BY <1>2, <2>1, <2>2 DEF SelectionInv, SelectionTypeOK
<1>7. start'[a] = fresh /\ \A b \in Starts \ {a} : start'[b] = start[b]
  BY <1>1, <1>2
<1>8. start[a].state = "none" /\ \A b \in 1 .. a - 1 : start[b].state # "none"
  BY DEF StartSync
<1>9. \A r \in Offered : fresh.patch[r] # "stored"
  OBVIOUS
<1>10. (fresh.alone <=> \A b \in 1 .. a - 1 : ~UnderWay(b)) /\ fresh.state = "sent"
       /\ fresh.rows \subseteq Offered
  BY <1>5 DEF StartRecords
<1> HIDE DEF fresh
<1>11. StartsInOrder'
  <2>1. \A b \in Starts : start[b].state # "none" => start'[b].state # "none"
    BY <1>7, <1>10
  <2>2. \A b \in Starts : start'[b].state # "none" => b = a \/ start[b].state # "none"
    BY <1>7
  <2>3. \A b \in Starts : start'[b].state = "none" => b # a
    BY <1>7, <1>10
  <2> QED BY <1>7, <1>8, <2>1, <2>2, <2>3 DEF SelectionInv, StartsInOrder, Starts
<1>12. DoneStored'
  BY <1>7, <1>10 DEF SelectionInv, DoneStored
<1>13. \A b \in 1 .. a - 1 : b \in Starts /\ b # a
  BY DEF Starts
<1>14. \A b \in 1 .. a - 1 : UnderWay(b)' <=> UnderWay(b)
  BY <1>7, <1>13 DEF UnderWay
<1>15. StoredStays'
  <2> SUFFICES ASSUME NEW c \in Starts, Counts(c)'
               PROVE  /\ \A b \in 1 .. c - 1 : ~UnderWay(b)'
                      /\ \A r \in start'[c].rows : start'[c].patch[r] = "stored" =>
                           tracking'[r] # "absent" /\ (tracking'[r] = "on" <=> r \in start'[c].chosen)
    BY DEF StoredStays
  <2>1. CASE c = a
    <3>1. \A b \in 1 .. a - 1 : ~UnderWay(b)
      BY <1>7, <1>10, <2>1 DEF Counts
    <3> QED BY <1>7, <1>9, <1>10, <1>14, <2>1, <3>1
  <2>2. CASE c # a
    <3>1. start'[c].state # "none" /\ start[c].state # "none"
      BY <1>7, <2>2 DEF Counts
    <3>2. ~(a < c)
      BY <1>8, <3>1 DEF SelectionInv, StartsInOrder, Starts
    <3>3. a \in c + 1 .. MaxStarts
      BY <2>2, <3>2 DEF Starts
    <3> QED BY <1>7, <1>10, <3>3 DEF Counts, NoneAfter
  <2> QED BY <2>1, <2>2
<1> QED BY <1>6, <1>11, <1>12, <1>15 DEF SelectionInv

PatchDone(a, r, z) == [start EXCEPT ![a].patch[r] = z]

\* The attempts after the serving, or the failure, of one PATCH.
LEMMA PatchAnswered ==
  ASSUME SelectionTypeOK, NEW a \in Starts, NEW r \in Offered, NEW z \in {"stored", "failed"},
         start' = PatchDone(a, r, z)
  PROVE  /\ start' \in [Starts -> StartRecords]
         /\ \A b \in Starts :
              /\ start'[b].state = start[b].state /\ start'[b].alone = start[b].alone
              /\ start'[b].rows = start[b].rows /\ start'[b].chosen = start[b].chosen
              /\ b # a => start'[b].patch = start[b].patch
         /\ \A q \in Offered : start'[a].patch[q] = IF q = r THEN z ELSE start[a].patch[q]
<1>1. start \in [Starts -> StartRecords]
  BY DEF SelectionTypeOK
<1> DEFINE next == [start[a] EXCEPT !.patch = [start[a].patch EXCEPT ![r] = z]]
<1>2. start[a] \in StartRecords
  BY <1>1
<1>3. start[a].patch \in [Offered -> {"none", "sent", "stored", "failed"}]
  BY <1>2 DEF StartRecords
<1>4. [start[a].patch EXCEPT ![r] = z] \in [Offered -> {"none", "sent", "stored", "failed"}]
  BY <1>3
<1>5. /\ next \in StartRecords
      /\ next.state = start[a].state /\ next.alone = start[a].alone
      /\ next.rows = start[a].rows /\ next.chosen = start[a].chosen
      /\ next.patch = [start[a].patch EXCEPT ![r] = z]
  BY <1>2, <1>4 DEF StartRecords
<1>6. start' = [start EXCEPT ![a] = next]
  BY DEF PatchDone
<1> HIDE DEF next
<1>7. start'[a] = next /\ \A b \in Starts \ {a} : start'[b] = start[b]
  BY <1>1, <1>6
<1>8. start' \in [Starts -> StartRecords]
  BY <1>1, <1>5, <1>6
<1>9. \A q \in Offered : start'[a].patch[q] = IF q = r THEN z ELSE start[a].patch[q]
  BY <1>3, <1>5, <1>7
<1>10. \A b \in Starts :
         /\ start'[b].state = start[b].state /\ start'[b].alone = start[b].alone
         /\ start'[b].rows = start[b].rows /\ start'[b].chosen = start[b].chosen
         /\ b # a => start'[b].patch = start[b].patch
  BY <1>5, <1>7
<1> QED BY <1>8, <1>9, <1>10

\* A PATCH of an attempt is served: what it stores is the selection; it is no attempt
\* before the one that counts, and none after it.
LEMMA ServePatchKeeps ==
  ASSUME SelectionInv, NEW a \in Starts, NEW r \in Offered, ServePatch(a, r)
  PROVE  SelectionInv'
<1>1. SelectionTypeOK /\ start \in [Starts -> StartRecords] /\ tracking \in [Offered -> {"absent", "on", "off"}]
  BY DEF SelectionInv, SelectionTypeOK
<1>2. PICK y \in {"stored", "failed"} :
        /\ start' = PatchDone(a, r, y)
        /\ y = "failed" => tracking' = tracking
        /\ y = "stored" => tracking' = [tracking EXCEPT ![r] = IF r \in start[a].chosen THEN "on" ELSE "off"]
  <2>1. CASE r \in start[a].chosen /\ tracking[r] = "off" /\ Cardinality(Enabled) >= OfferLimit
    BY <2>1, Zenon DEF ServePatch, PatchDone
  <2>2. CASE ~(r \in start[a].chosen /\ tracking[r] = "off" /\ Cardinality(Enabled) >= OfferLimit)
    BY <2>2, Zenon DEF ServePatch, PatchDone
  <2> QED BY <2>1, <2>2
<1>3. start[a].patch[r] = "sent" /\ UNCHANGED <<picker, poll>>
  BY DEF ServePatch, pickerVars
<1>4. /\ start' \in [Starts -> StartRecords]
      /\ \A b \in Starts :
           /\ start'[b].state = start[b].state /\ start'[b].alone = start[b].alone
           /\ start'[b].rows = start[b].rows /\ start'[b].chosen = start[b].chosen
           /\ b # a => start'[b].patch = start[b].patch
      /\ \A q \in Offered : start'[a].patch[q] = IF q = r THEN y ELSE start[a].patch[q]
  <2>1. start' = PatchDone(a, r, y) /\ SelectionTypeOK
    BY <1>1, <1>2
  <2>2. y \in {"stored", "failed"}
    OBVIOUS
  <2> QED BY <2>1, <2>2, PatchAnswered
<1>5. SelectionTypeOK'
  <2>1. tracking' \in [Offered -> {"absent", "on", "off"}]
    BY <1>1, <1>2
  <2> QED BY <1>1, <1>3, <1>4, <2>1 DEF SelectionTypeOK
<1>6. start[a].state # "none"
  BY <1>3 DEF SelectionInv, StartsInOrder
<1>7. StartsInOrder'
  BY <1>4, <1>6 DEF SelectionInv, StartsInOrder, Starts
<1>8. \A c \in Starts : start[c].rows \subseteq Offered
  BY <1>1 DEF StartRecords
<1>9. DoneStored'
  <2> SUFFICES ASSUME NEW c \in Starts, start'[c].state = "done", NEW q \in start'[c].rows
               PROVE  start'[c].patch[q] = "stored"
    BY DEF DoneStored
  <2>1. start[c].patch[q] = "stored" /\ q \in Offered
    BY <1>4, <1>8 DEF SelectionInv, DoneStored
  <2> QED BY <1>3, <1>4, <2>1
<1>10. \A c \in Starts : Counts(c)' <=> Counts(c)
  BY <1>4 DEF Counts, NoneAfter, Starts
<1>11. \A c \in Starts : UnderWay(c)' => UnderWay(c)
  BY <1>2, <1>4 DEF UnderWay
<1>12. StoredStays'
  <2> SUFFICES ASSUME NEW c \in Starts, Counts(c)
               PROVE  /\ \A b \in 1 .. c - 1 : ~UnderWay(b)'
                      /\ \A q \in start'[c].rows : start'[c].patch[q] = "stored" =>
                           tracking'[q] # "absent" /\ (tracking'[q] = "on" <=> q \in start'[c].chosen)
    BY <1>10 DEF StoredStays
  <2>1. /\ \A b \in 1 .. c - 1 : ~UnderWay(b)
        /\ \A q \in start[c].rows : start[c].patch[q] = "stored" =>
             tracking[q] # "absent" /\ (tracking[q] = "on" <=> q \in start[c].chosen)
    BY DEF SelectionInv, StoredStays
  <2>2. \A b \in 1 .. c - 1 : ~UnderWay(b)'
    BY <1>11, <2>1 DEF Starts
  <2>3. UnderWay(a)
    BY <1>3 DEF UnderWay
  <2>4. ~(a < c)
    BY <2>1, <2>3 DEF Starts
  <2>5. ~(c < a)
    BY <1>6 DEF Counts, NoneAfter, Starts
  <2>6. a = c
    BY <2>4, <2>5 DEF Starts
  <2>7. ASSUME NEW q \in start'[c].rows, start'[c].patch[q] = "stored"
        PROVE  tracking'[q] # "absent" /\ (tracking'[q] = "on" <=> q \in start'[c].chosen)
    <3>1. q \in Offered /\ q \in start[c].rows /\ start'[c].chosen = start[c].chosen
      BY <1>4, <1>8, <2>7
    <3>2. CASE q = r
      <4>1. y = "stored"
        BY <1>4, <2>6, <2>7, <3>2
      <4> QED BY <1>1, <1>2, <2>6, <3>1, <3>2, <4>1
    <3>3. CASE q # r
      <4>1. start[c].patch[q] = "stored"
        BY <1>4, <2>6, <2>7, <3>1, <3>3
      <4>2. tracking'[q] = tracking[q]
        BY <1>1, <1>2, <3>1, <3>3
      <4> QED BY <2>1, <3>1, <4>1, <4>2
    <3> QED BY <3>2, <3>3
  <2> QED BY <2>2, <2>7
<1> QED BY <1>5, <1>7, <1>9, <1>12 DEF SelectionInv

LEMMA PatchFailsKeeps ==
  ASSUME SelectionInv, NEW a \in Starts, NEW r \in Offered, PatchFails(a, r)
  PROVE  SelectionInv'
<1>1. SelectionTypeOK
  BY DEF SelectionInv
<1>2. /\ start' = PatchDone(a, r, "failed") /\ start[a].state = "sent"
      /\ UNCHANGED <<tracking, picker, poll>>
  BY DEF PatchDone, PatchFails, serverVars, pickerVars
<1>3. /\ start' \in [Starts -> StartRecords]
      /\ \A b \in Starts :
           /\ start'[b].state = start[b].state /\ start'[b].alone = start[b].alone
           /\ start'[b].rows = start[b].rows /\ start'[b].chosen = start[b].chosen
           /\ b # a => start'[b].patch = start[b].patch
      /\ \A q \in Offered : start'[a].patch[q] = IF q = r THEN "failed" ELSE start[a].patch[q]
  BY <1>1, <1>2, PatchAnswered
<1>4. SelectionTypeOK'
  BY <1>1, <1>2, <1>3 DEF SelectionTypeOK
<1>5. StartsInOrder' /\ DoneStored'
  BY <1>2, <1>3 DEF SelectionInv, StartsInOrder, DoneStored, Starts
<1>6. \A c \in Starts : Counts(c)' => Counts(c)
  BY <1>3 DEF Counts, NoneAfter, Starts
<1>7. \A c \in Starts : \A q \in Offered :
        (start'[c].patch[q] = "stored" => start[c].patch[q] = "stored")
        /\ (start'[c].patch[q] = "sent" => start[c].patch[q] = "sent")
  BY <1>3
<1>8. \A c \in Starts : UnderWay(c)' => UnderWay(c)
  BY <1>7 DEF UnderWay
<1>9. \A c \in Starts : start[c].rows \subseteq Offered
  BY <1>1 DEF SelectionTypeOK, StartRecords
<1>10. StoredStays'
  <2> SUFFICES ASSUME NEW c \in Starts, Counts(c)'
               PROVE  /\ \A b \in 1 .. c - 1 : ~UnderWay(b)'
                      /\ \A q \in start'[c].rows : start'[c].patch[q] = "stored" =>
                           tracking'[q] # "absent" /\ (tracking'[q] = "on" <=> q \in start'[c].chosen)
    BY DEF StoredStays
  <2>1. /\ \A b \in 1 .. c - 1 : ~UnderWay(b)
        /\ \A q \in start[c].rows : start[c].patch[q] = "stored" =>
             tracking[q] # "absent" /\ (tracking[q] = "on" <=> q \in start[c].chosen)
    BY <1>6 DEF SelectionInv, StoredStays
  <2>2. \A b \in 1 .. c - 1 : ~UnderWay(b)'
    BY <1>8, <2>1 DEF Starts
  <2>3. \A q \in start'[c].rows : start'[c].patch[q] = "stored" =>
          tracking'[q] # "absent" /\ (tracking'[q] = "on" <=> q \in start'[c].chosen)
    BY <1>2, <1>3, <1>7, <1>9, <2>1
  <2> QED BY <2>2, <2>3
<1> QED BY <1>4, <1>5, <1>10 DEF SelectionInv

\* The actions of the list of step 3.
LEMMA PickerStepType ==
  ASSUME SelectionTypeOK,
         \/ ListStep \/ (\E p \in ListLoads : RetryList(p) \/ PollFails(p))
         \/ \E r \in Offered : ToggleRepo(r)
  PROVE  picker' \in PickerRecords /\ poll' \in [ListLoads -> PollRecords]
<1>0. picker \in PickerRecords /\ poll \in [ListLoads -> PollRecords]
  BY DEF SelectionTypeOK
<1>1. ASSUME NEW p \in ListLoads, AskList(p) PROVE poll' \in [ListLoads -> PollRecords]
  BY <1>0, <1>1 DEF AskList, PollRecords
<1>2. ASSUME NEW p \in ListLoads, StartPoll(p)
      PROVE  picker' \in PickerRecords /\ poll' \in [ListLoads -> PollRecords]
  BY <1>0, <1>1, <1>2 DEF StartPoll, PickerRecords
<1>3. ASSUME NEW p \in ListLoads, RetryList(p)
      PROVE  picker' \in PickerRecords /\ poll' \in [ListLoads -> PollRecords]
  BY <1>0, <1>1, <1>3 DEF RetryList, PickerRecords
<1>4. ASSUME NEW p \in ListLoads, AnswerPoll(p)
      PROVE  picker' \in PickerRecords /\ poll' \in [ListLoads -> PollRecords]
  <2>1. [step |-> "answered", rows |-> {r \in Offered : tracking[r] # "absent"}] \in PollRecords
    BY DEF PollRecords
  <2> QED BY <1>0, <1>4, <2>1 DEF AnswerPoll
<1>5. ASSUME NEW p \in ListLoads, ShowPoll(p)
      PROVE  picker' \in PickerRecords /\ poll' \in [ListLoads -> PollRecords]
  <2>1. poll[p].rows \in SUBSET Offered
    BY <1>0 DEF PollRecords
  <2>2. picker' \in PickerRecords
    BY <1>0, <1>5, <2>1 DEF ShowPoll, PickerRecords
  <2> QED BY <1>0, <1>5, <2>2, SelectionRecords DEF ShowPoll
<1>6. ASSUME NEW p \in ListLoads, PollFails(p)
      PROVE  picker' \in PickerRecords /\ poll' \in [ListLoads -> PollRecords]
  <2>1. picker' \in PickerRecords
    BY <1>0, <1>6 DEF PollFails, PickerRecords
  <2> QED BY <1>0, <1>6, <2>1, SelectionRecords DEF PollFails
<1>7. ASSUME NEW r \in Offered, ToggleRepo(r)
      PROVE  picker' \in PickerRecords /\ poll' \in [ListLoads -> PollRecords]
  <2>1. poll' = poll
    BY <1>7 DEF ToggleRepo
  <2>2. PICK C \in SUBSET Offered : picker' = [picker EXCEPT !.chosen = C]
    <3>1. picker.chosen \in SUBSET Offered
      BY <1>0 DEF PickerRecords
    <3>2. picker.chosen \ {r} \in SUBSET Offered /\ picker.chosen \cup {r} \in SUBSET Offered
      BY <3>1
    <3> QED BY <1>7, <3>2 DEF ToggleRepo
  <2> QED BY <1>0, <2>1, <2>2 DEF PickerRecords
<1> QED BY <1>2, <1>3, <1>4, <1>5, <1>6, <1>7 DEF ListStep

-----------------------------------------------------------------------------

LEMMA SelectionStep == SelectionInv /\ [OnboardingNext]_onboardingVars => SelectionInv'
<1> SUFFICES ASSUME SelectionInv, [OnboardingNext]_onboardingVars PROVE SelectionInv'
  OBVIOUS
<1> USE DEF serverVars, pickerVars
<1>0. SelectionTypeOK /\ picker \in PickerRecords /\ poll \in [ListLoads -> PollRecords]
  BY DEF SelectionInv, SelectionTypeOK
<1>1. CASE UNCHANGED onboardingVars
  BY <1>0, <1>1, SelectionUntouched DEF onboardingVars
<1>2. CASE LoadContextStep
  <2>1. UNCHANGED <<tracking, start>> /\ (UNCHANGED pickerVars \/ PickerFollows)
    BY <1>2 DEF LoadContextStep, ListWorkspaces, ReadContext, ShowContext, ClaimsArrive, PushStep
  <2> QED BY <1>0, <2>1, PickerFollowsType, SelectionUntouched
<1>3. CASE ListStep
  <2>1. UNCHANGED <<tracking, start>>
    BY <1>3 DEF ListStep, StartPoll, AskList, AnswerPoll, ShowPoll
  <2> QED BY <1>0, <1>3, <2>1, PickerStepType, SelectionUntouched
<1>4. CASE UserStep
  <2>1. CASE CreateWorkspace \/ GoBack
    <3>1. UNCHANGED <<tracking, start>> /\ PickerFollows
      BY <2>1 DEF CreateWorkspace, GoBack
    <3> QED BY <1>0, <3>1, PickerFollowsType, SelectionUntouched
  <2>2. CASE InstallCallback
    BY <2>2, PageLoadKeeps DEF InstallCallback
  <2>3. ASSUME NEW n \in WizardSteps, VisitPage(n) PROVE SelectionInv'
    BY <2>3, PageLoadKeeps DEF VisitPage
  <2>4. CASE \E p \in ListLoads : RetryList(p)
    <3>1. UNCHANGED <<tracking, start>>
      BY <2>4 DEF RetryList, AskList
    <3> QED BY <1>0, <2>4, <3>1, PickerStepType, SelectionUntouched
  <2>5. CASE \E r \in Offered : ToggleRepo(r)
    <3>1. UNCHANGED <<tracking, start>>
      BY <2>5 DEF ToggleRepo
    <3> QED BY <1>0, <2>5, <3>1, PickerStepType, SelectionUntouched
  <2>6. ASSUME NEW a \in Starts, StartSync(a) PROVE SelectionInv'
    BY <2>6, StartSyncKeeps
  <2> QED BY <1>4, <2>1, <2>2, <2>3, <2>4, <2>5, <2>6 DEF UserStep
<1>5. CASE \E s \in ContextLoads : ListWorkspacesFails(s)
  <2>1. UNCHANGED <<tracking, start, picker, poll>>
    BY <1>5 DEF ListWorkspacesFails
  <2> QED BY <1>0, <2>1, SelectionUntouched
<1>6. CASE \E p \in ListLoads : PollFails(p)
  <2>1. UNCHANGED <<tracking, start>>
    BY <1>6 DEF PollFails
  <2> QED BY <1>0, <1>6, <2>1, PickerStepType, SelectionUntouched
<1>7. CASE \E r \in Offered : FindRepository(r)
  BY <1>7, FindRepositoryKeeps
<1>8. ASSUME NEW a \in Starts, SyncStarted(a) PROVE SelectionInv'
  <2>1. picker' \in PickerRecords /\ poll' \in [ListLoads -> PollRecords]
    BY <1>0, <1>8, PickerFollowsType DEF SyncStarted, Complete
  <2>2. /\ UNCHANGED tracking /\ start[a].state = "sent"
        /\ \A r \in start[a].rows : start[a].patch[r] = "stored"
        /\ start' = [start EXCEPT ![a].state = "done"]
    BY <1>8 DEF SyncStarted, Complete
  <2> QED BY <2>1, <2>2, AttemptEnds
<1>9. ASSUME NEW a \in Starts, SyncRefused(a) PROVE SelectionInv'
  <2>1. picker' \in PickerRecords
    BY <1>0, <1>9 DEF SyncRefused, SubmitEnds, PickerRecords
  <2>2. /\ UNCHANGED <<tracking, poll>> /\ start[a].state = "sent"
        /\ start' = [start EXCEPT ![a].state = "failed"]
    BY <1>9 DEF SyncRefused
  <2> QED BY <1>0, <2>1, <2>2, AttemptEnds
<1>10. ASSUME NEW a \in Starts, NEW r \in Offered, ServePatch(a, r) PROVE SelectionInv'
  BY <1>10, ServePatchKeeps
<1>11. ASSUME NEW a \in Starts, NEW r \in Offered, PatchFails(a, r) PROVE SelectionInv'
  BY <1>11, PatchFailsKeeps
<1> QED BY <1>1, <1>2, <1>3, <1>4, <1>5, <1>6, <1>7, <1>8, <1>9, <1>10, <1>11 DEF OnboardingNext

LEMMA SelectionInvariant == OnboardingSpec => []SelectionInv
BY SelectionInit, SelectionStep, PTL DEF OnboardingSpec

LEMMA SelectionKeptTo == SelectionInv => SelectionStored
<1> SUFFICES ASSUME SelectionInv, NEW a \in Starts, start[a].state = "done", start[a].alone,
                    \A b \in a + 1 .. MaxStarts : start[b].state = "none",
                    NEW r \in start[a].rows
             PROVE  (tracking[r] = "on") <=> r \in start[a].chosen
  BY DEF SelectionStored
<1>1. Counts(a)
  BY DEF Counts, NoneAfter
<1> QED BY <1>1 DEF SelectionInv, StoredStays, DoneStored

\* What the user selected by the last "Start syncing" is what is stored when the wizard moves
\* on, whatever is found, refused or lost on the way (handleStartSync) - unless a PATCH of an
\* attempt before was still under way when it was clicked.
THEOREM SelectionIsStored == OnboardingSpec => []SelectionStored
BY SelectionKeptTo, SelectionInvariant, PTL

\* The types that SelectionTypeOK leaves to OnboardingTypeOK.
Fetches == [step : {"idle", "list", "rows", "answered"}, context : Contexts]
WizardTypes ==
  /\ created \in BOOLEAN /\ connected \in BOOLEAN
  /\ url \in WizardSteps /\ known \in Contexts
  /\ booting \in BOOLEAN /\ claimed \in BOOLEAN
  /\ fetch \in [ContextLoads -> Fetches]
  /\ troubles \in 0 .. MaxTroubles

LEMMA CountsAre ==
  ASSUME NEW S \in SUBSET Offered PROVE Cardinality(S) \in 0 .. Cardinality(Offered)
<1>1. IsFiniteSet(S) /\ Cardinality(S) <= Cardinality(Offered)
  BY OnboardingAssumption, FS_Subset
<1>2. Cardinality(S) \in Nat /\ Cardinality(Offered) \in Nat
  BY <1>1, OnboardingAssumption, FS_CardinalityType
<1> QED BY <1>1, <1>2

LEMMA FirstLoadType ==
  /\ Nothing \in Contexts /\ NoFetch \in Fetches /\ FirstLoad \in [ContextLoads -> Fetches]
<1>1. 0 \in 0 .. Cardinality(Offered)
  BY CountsAre, OnboardingAssumption, FS_EmptySet
<1>2. Nothing \in Contexts
  BY <1>1 DEF Nothing, Contexts
<1>3. NoFetch \in Fetches
  BY <1>2 DEF NoFetch, Fetches
<1>4. [NoFetch EXCEPT !.step = "list"] \in Fetches
  BY <1>3 DEF Fetches
<1>5. PICK f : f = [s \in ContextLoads |-> NoFetch]
  OBVIOUS
<1>6. f \in [ContextLoads -> Fetches] /\ f[1] = NoFetch
  BY <1>3, <1>5, OnboardingAssumption
<1>7. FirstLoad = [f EXCEPT ![1] = [NoFetch EXCEPT !.step = "list"]]
  BY <1>5, <1>6, OnboardingAssumption DEF FirstLoad
<1> QED BY <1>2, <1>3, <1>4, <1>6, <1>7

LEMMA WizardInitially == OnboardingInit => WizardTypes
<1>1. 1 \in WizardSteps /\ 0 \in 0 .. MaxTroubles
  BY OnboardingAssumption DEF WizardSteps
<1> QED BY <1>1, FirstLoadType DEF OnboardingInit, WizardTypes

LEMMA WizardTypesKept ==
  ASSUME SelectionTypeOK, WizardTypes, [OnboardingNext]_onboardingVars
  PROVE  WizardTypes'
<1>0. /\ created \in BOOLEAN /\ connected \in BOOLEAN
      /\ url \in WizardSteps /\ known \in Contexts
      /\ booting \in BOOLEAN /\ claimed \in BOOLEAN
      /\ fetch \in [ContextLoads -> Fetches]
      /\ troubles \in 0 .. MaxTroubles
  BY DEF WizardTypes
<1>1. ASSUME Trouble PROVE troubles' \in 0 .. MaxTroubles
  BY <1>0, <1>1, OnboardingAssumption DEF Trouble
<1>2. ASSUME UNCHANGED <<created, connected, wizardVars>>, troubles' = troubles \/ Trouble
      PROVE  WizardTypes'
  BY <1>0, <1>1, <1>2 DEF WizardTypes, wizardVars
\* Steps that leave the context's loads alone.
<1>3. CASE \/ ListStep \/ UNCHANGED onboardingVars
           \/ \E p \in ListLoads : RetryList(p) \/ PollFails(p)
           \/ \E r \in Offered : ToggleRepo(r) \/ FindRepository(r)
           \/ \E a \in Starts : StartSync(a) \/ SyncRefused(a)
           \/ \E a \in Starts, r \in Offered : ServePatch(a, r) \/ PatchFails(a, r)
  <2>1. UNCHANGED <<created, connected, wizardVars>> /\ (troubles' = troubles \/ Trouble)
    BY <1>3 DEF ListStep, onboardingVars, RetryList, PollFails, ToggleRepo, FindRepository, StartSync,
                SyncRefused, ServePatch, PatchFails, StartPoll, AnswerPoll, ShowPoll, AskList, serverVars
  <2> QED BY <1>2, <2>1
<1>4. ASSUME NEW s \in ContextLoads, NEW q \in Fetches, fetch' = [fetch EXCEPT ![s] = q],
             created' \in BOOLEAN, connected' \in BOOLEAN, url' \in WizardSteps, known' \in Contexts,
             booting' \in BOOLEAN, claimed' \in BOOLEAN, troubles' = troubles \/ Trouble
      PROVE  WizardTypes'
  BY <1>0, <1>1, <1>4 DEF WizardTypes
<1>5. ASSUME NEW s \in ContextLoads, NEW st \in {"list", "rows", "answered"},
             fetch' = [fetch EXCEPT ![s].step = st],
             created' \in BOOLEAN, connected' \in BOOLEAN, url' \in WizardSteps, known' \in Contexts,
             booting' \in BOOLEAN, claimed' \in BOOLEAN, troubles' = troubles \/ Trouble
      PROVE  WizardTypes'
  <2>1. PICK q : q = [fetch[s] EXCEPT !.step = st]
    OBVIOUS
  <2>2. q \in Fetches /\ fetch' = [fetch EXCEPT ![s] = q]
    BY <1>0, <1>5, <2>1 DEF Fetches
  <2> QED BY <1>4, <1>5, <2>2
<1>6. ASSUME NEW s \in ContextLoads, ListWorkspaces(s) \/ ListWorkspacesFails(s) PROVE WizardTypes'
  <2>1. PICK st \in {"rows", "answered"} : fetch' = [fetch EXCEPT ![s].step = st]
    BY <1>6 DEF ListWorkspaces, ListWorkspacesFails
  <2>2. /\ UNCHANGED <<created, connected, url, known, booting, claimed>>
        /\ troubles' = troubles \/ Trouble
    BY <1>6 DEF ListWorkspaces, ListWorkspacesFails, serverVars
  <2> QED BY <1>0, <1>5, <2>1, <2>2
<1>7. ASSUME NEW s \in ContextLoads, ReadContext(s) PROVE WizardTypes'
  <2>1. PICK linked \in {connected, FALSE}, counted \in {Enabled, {}} :
          /\ troubles' = troubles \/ Trouble
          /\ fetch' = [fetch EXCEPT ![s] = [step |-> "answered",
               context |-> [space |-> TRUE, linked |-> linked, count |-> Cardinality(counted)]]]
    BY <1>7 DEF ReadContext
  <2>2. counted \in SUBSET Offered
    BY <2>1 DEF Enabled
  <2>3. [space |-> TRUE, linked |-> linked, count |-> Cardinality(counted)] \in Contexts
    BY <1>0, <2>1, <2>2, CountsAre DEF Contexts
  <2>4. UNCHANGED <<created, connected, url, known, booting, claimed>>
    BY <1>7 DEF ReadContext, serverVars
  <2> QED BY <1>0, <1>4, <2>1, <2>3, <2>4 DEF Fetches
<1>8. ASSUME NEW s \in ContextLoads, ShowContext(s) PROVE WizardTypes'
  <2>1. fetch[s].context \in Contexts
    BY <1>0 DEF Fetches
  <2> QED BY <1>0, <1>4, <1>8, <2>1, FirstLoadType DEF ShowContext, serverVars
<1>9. ASSUME NEW s \in ContextLoads, ClaimsArrive(s) PROVE WizardTypes'
  BY <1>0, <1>5, <1>9 DEF ClaimsArrive, serverVars
<1>10. CASE PushStep
  <2>1. \A context \in Contexts : MinimumStep(context) \in WizardSteps
    BY DEF MinimumStep, Contexts, WizardSteps
  <2>2. ActiveStep \in WizardSteps
    BY <1>0, <2>1 DEF ActiveStep, ResolvedStep
  <2> QED BY <1>0, <1>10, <2>2 DEF PushStep, WizardTypes, serverVars
<1>11. CASE GoBack
  <2>1. url' \in WizardSteps
    BY <1>11 DEF GoBack, WizardSteps
  <2>2. UNCHANGED <<created, connected, known, booting, claimed, fetch>> /\ Trouble
    BY <1>11 DEF GoBack, serverVars
  <2> QED BY <1>0, <1>1, <2>1, <2>2 DEF WizardTypes
<1>12. CASE CreateWorkspace
  <2>1. [Nothing EXCEPT !.space = TRUE] \in Contexts
    BY FirstLoadType DEF Contexts
  <2>2. /\ UNCHANGED <<connected, booting, claimed, fetch>> /\ created' = TRUE
        /\ known' \in Contexts /\ url' \in WizardSteps
        /\ troubles' = troubles \/ Trouble
    <3>1. 2 \in WizardSteps
      BY DEF WizardSteps
    <3>2. UNCHANGED <<connected, booting, claimed, fetch>> /\ created' = TRUE
      BY <1>12 DEF CreateWorkspace
    <3>3. \/ /\ known' = [Nothing EXCEPT !.space = TRUE] /\ url' = 2 /\ troubles' = troubles
          \/ Trouble /\ known' = known /\ url' = url
      BY <1>12 DEF CreateWorkspace
    <3> QED BY <1>0, <2>1, <3>1, <3>2, <3>3
  <2> QED BY <1>0, <1>1, <2>2 DEF WizardTypes
<1>13. ASSUME NEW n \in WizardSteps, PageLoad(n), created' \in BOOLEAN, connected' \in BOOLEAN,
              troubles' = troubles \/ Trouble
       PROVE  WizardTypes'
  BY <1>0, <1>1, <1>13, FirstLoadType DEF PageLoad, WizardTypes
<1>14. CASE InstallCallback
  BY <1>0, <1>13, <1>14 DEF InstallCallback, WizardSteps
<1>15. ASSUME NEW n \in WizardSteps, VisitPage(n) PROVE WizardTypes'
  BY <1>0, <1>13, <1>15 DEF VisitPage, serverVars
<1>16. ASSUME NEW a \in Starts, SyncStarted(a) PROVE WizardTypes'
  <2>1. start[a].chosen \in SUBSET Offered
    BY DEF SelectionTypeOK, StartRecords
  <2>2. PICK k \in 0 .. Cardinality(Offered) : k = Cardinality(start[a].chosen)
    BY <2>1, CountsAre
  <2>3. known' = [known EXCEPT !.count = k]
    BY <1>16, <2>2 DEF SyncStarted, Complete
  <2>4. known' \in Contexts
    BY <1>0, <2>3 DEF Contexts
  <2>5. /\ UNCHANGED <<created, connected, booting, claimed, fetch, troubles>>
        /\ url' \in WizardSteps
    BY <1>16 DEF SyncStarted, Complete, WizardSteps, serverVars
  <2> QED BY <1>0, <2>4, <2>5 DEF WizardTypes
<1> QED
  BY <1>3, <1>6, <1>7, <1>8, <1>9, <1>10, <1>11, <1>12, <1>14, <1>15, <1>16
  DEF OnboardingNext, LoadContextStep, UserStep

LEMMA WizardTypesAre == SelectionTypeOK /\ WizardTypes => OnboardingTypeOK
BY DEF SelectionTypeOK, WizardTypes, OnboardingTypeOK, PickerRecords, PollRecords, StartRecords, Fetches

-----------------------------------------------------------------------------

\* A skeleton stands for something that is being loaded: without a load under way the
\* wizard has left it, and so has the list of step 3 once it has a row.
NoIdleSkeleton ==
  /\ booting => \E s \in ContextLoads : fetch[s].step # "idle"
  /\ picker.loading /\ picker.rows # {} => \E p \in ListLoads : poll[p].step # "idle"

WizardFetches == fetch \in [ContextLoads -> Fetches]

LEMMA PickerFollowsSkeleton ==
  ASSUME NoIdleSkeleton, PickerFollows, booting' => \E s \in ContextLoads : fetch'[s].step # "idle"
  PROVE  NoIdleSkeleton'
<1>1. CASE UNCHANGED pickerVars
  BY <1>1 DEF pickerVars, NoIdleSkeleton
<1>2. CASE picker' = NoPicker
  BY <1>2 DEF NoPicker, NoIdleSkeleton
<1> QED BY <1>1, <1>2 DEF PickerFollows

LEMMA FirstLoadBusy ==
  ASSUME fetch' = FirstLoad PROVE \E s \in ContextLoads : fetch'[s].step # "idle"
<1>1. PICK f : f = [s \in ContextLoads |-> NoFetch]
  OBVIOUS
<1>2. FirstLoad = [f EXCEPT ![1] = [NoFetch EXCEPT !.step = "list"]]
  BY <1>1, OnboardingAssumption DEF FirstLoad, NoFetch
<1>3. fetch'[1].step = "list"
  BY <1>1, <1>2, OnboardingAssumption DEF NoFetch
<1> QED BY <1>3, OnboardingAssumption

LEMMA SkeletonStep ==
  ASSUME SelectionTypeOK, WizardFetches, NoIdleSkeleton, [OnboardingNext]_onboardingVars
  PROVE  NoIdleSkeleton'
<1> USE OnboardingAssumption DEF SelectionTypeOK, WizardFetches
<1>1. ASSUME NEW s \in ContextLoads, ListWorkspaces(s) \/ ListWorkspacesFails(s) \/ ReadContext(s)
      PROVE  NoIdleSkeleton'
  <2>1. UNCHANGED <<booting, pickerVars>>
    BY <1>1 DEF ListWorkspaces, ListWorkspacesFails, ReadContext
  <2>2. fetch'[s].step # "idle"
    <3>1. ASSUME NEW q, q.step # "idle", fetch' = [fetch EXCEPT ![s] = q] PROVE fetch'[s].step # "idle"
      BY <3>1
    <3>2. CASE ListWorkspaces(s) \/ ListWorkspacesFails(s)
      <4>1. PICK st \in {"rows", "answered"} : fetch' = [fetch EXCEPT ![s].step = st]
        BY <3>2 DEF ListWorkspaces, ListWorkspacesFails
      <4> QED BY <4>1 DEF Fetches
    <3>3. CASE ReadContext(s)
      BY <3>1, <3>3 DEF ReadContext
    <3> QED BY <1>1, <3>2, <3>3
  <2> QED BY <2>1, <2>2 DEF NoIdleSkeleton, pickerVars
<1>2. ASSUME NEW s \in ContextLoads, ShowContext(s) PROVE NoIdleSkeleton'
  BY <1>2, PickerFollowsSkeleton DEF ShowContext
<1>3. ASSUME NEW s \in ContextLoads, ClaimsArrive(s) PROVE NoIdleSkeleton'
  <2>1. fetch'[s].step # "idle"
    BY <1>3 DEF ClaimsArrive, Fetches
  <2> QED BY <1>3, <2>1, PickerFollowsSkeleton DEF ClaimsArrive
<1>4. CASE \/ PushStep \/ UNCHANGED onboardingVars
           \/ \E r \in Offered : FindRepository(r)
           \/ \E a \in Starts, r \in Offered : ServePatch(a, r) \/ PatchFails(a, r)
  <2>1. UNCHANGED <<booting, fetch, pickerVars>>
    BY <1>4 DEF PushStep, onboardingVars, FindRepository, ServePatch, PatchFails, wizardVars
  <2> QED BY <2>1 DEF NoIdleSkeleton, pickerVars
<1>5. CASE GoBack \/ CreateWorkspace \/ \E a \in Starts : SyncStarted(a)
  <2>1. UNCHANGED <<booting, fetch>> /\ PickerFollows
    BY <1>5 DEF GoBack, CreateWorkspace, SyncStarted, Complete
  <2> QED BY <2>1, PickerFollowsSkeleton DEF NoIdleSkeleton
<1>6. ASSUME NEW n, PageLoad(n) PROVE NoIdleSkeleton'
  BY <1>6, FirstLoadBusy, PickerFollowsSkeleton DEF PageLoad
<1>7. CASE InstallCallback \/ \E n \in WizardSteps : VisitPage(n)
  BY <1>6, <1>7 DEF InstallCallback, VisitPage
<1>8. ASSUME NEW p \in ListLoads, StartPoll(p) \/ RetryList(p) \/ AnswerPoll(p) PROVE NoIdleSkeleton'
  <2>1. UNCHANGED <<booting, fetch>>
    BY <1>8 DEF StartPoll, RetryList, AnswerPoll, AskList, wizardVars
  <2>2. poll'[p].step # "idle"
    BY <1>8 DEF StartPoll, RetryList, AnswerPoll, AskList, PollRecords
  <2> QED BY <2>1, <2>2 DEF NoIdleSkeleton
<1>9. ASSUME NEW p \in ListLoads, ShowPoll(p) \/ PollFails(p) PROVE NoIdleSkeleton'
  <2>1. UNCHANGED <<booting, fetch>>
    BY <1>9 DEF ShowPoll, PollFails, wizardVars
  <2>2. ~picker'.loading
    BY <1>9 DEF ShowPoll, PollFails, PickerRecords
  <2> QED BY <2>1, <2>2 DEF NoIdleSkeleton
<1>10. CASE \/ \E r \in Offered : ToggleRepo(r)
            \/ \E a \in Starts : StartSync(a) \/ SyncRefused(a)
  <2>1. UNCHANGED <<booting, fetch, poll>>
    BY <1>10 DEF ToggleRepo, StartSync, SyncRefused, wizardVars
  <2>2. picker'.loading = picker.loading /\ picker'.rows = picker.rows
    BY <1>10 DEF ToggleRepo, StartSync, SyncRefused, SubmitEnds, PickerRecords
  <2> QED BY <2>1, <2>2 DEF NoIdleSkeleton
<1> QED
  BY <1>1, <1>2, <1>3, <1>4, <1>5, <1>7, <1>8, <1>9, <1>10
  DEF OnboardingNext, LoadContextStep, ListStep, UserStep

LEMMA SkeletonInit == OnboardingInit => NoIdleSkeleton
<1> SUFFICES ASSUME OnboardingInit PROVE NoIdleSkeleton
  OBVIOUS
<1>1. picker.rows = {}
  BY DEF OnboardingInit, NoPicker
<1>2. PICK f : f = [s \in ContextLoads |-> NoFetch]
  OBVIOUS
<1>3. fetch = [f EXCEPT ![1] = [NoFetch EXCEPT !.step = "list"]]
  BY <1>2 DEF OnboardingInit, FirstLoad, NoFetch
<1>4. fetch[1].step = "list"
  BY <1>2, <1>3, OnboardingAssumption DEF NoFetch
<1> QED BY <1>1, <1>4, OnboardingAssumption DEF NoIdleSkeleton

\* The part of WizardSettles that is about skeletons, however loads fail or overtake each
\* other, the list is polled and retried, and the page is left and loaded again: none stays
\* behind when the loads it stood for are over.  (An error may stay: see WizardSettles.)
THEOREM SkeletonsEnd == OnboardingSpec => []NoIdleSkeleton
<1>1. WizardTypes => WizardFetches
  BY DEF WizardTypes, WizardFetches
<1>2. SelectionInv => SelectionTypeOK
  BY DEF SelectionInv
<1> QED
  BY <1>1, <1>2, SelectionInvariant, WizardInitially, WizardTypesKept, SkeletonInit, SkeletonStep, PTL
  DEF OnboardingSpec

HIDE OnboardingAssumption

-----------------------------------------------------------------------------
(* The access token of a page (ApiClient).                                  *)

USE ApiClientAssumption

CallRecords == [step : {"idle", "sent", "refused", "waiting", "ok", "failed"},
                by : ApiClients, token : Tokens, refused : Tokens,
                retried : BOOLEAN, joined : SUBSET Calls]
RefreshRecords == [step : {"none", "sent", "found", "denied", "rotated"},
                   carries : Tokens, brings : Tokens]


LEMMA TokenFacts == 0 \in Tokens /\ 1 \in Tokens /\ Tokens \subseteq Nat
BY DEF Tokens

LEMMA EndedType == \A how \in {"idle", "ok", "failed"} :
  Ended(how) \in CallRecords
BY TokenFacts DEF Ended, NotCalled, CallRecords

LEMMA KeptType == ASSUME NEW t \in Tokens PROVE Kept(t) \in Tokens
BY TokenFacts DEF Kept

LEMMA ResumeType ==
  ASSUME ApiClientTypeOK, NEW f, NEW b \in BOOLEAN, Resume(f, b)
  PROVE  call' \in [Calls -> CallRecords]
BY EndedType DEF Resume, ApiClientTypeOK, CallRecords

LEMMA ApiClientInitType == ApiClientInit => ApiClientTypeOK
<1> SUFFICES ASSUME ApiClientInit PROVE ApiClientTypeOK
  OBVIOUS
<1>1. NotCalled \in CallRecords
  BY TokenFacts DEF NotCalled, CallRecords
<1>2. NoRefresh \in RefreshRecords
  BY TokenFacts DEF NoRefresh, RefreshRecords
<1>3. expired \in Tokens /\ 1 - expired \in Tokens
  BY TokenFacts DEF ApiClientInit
<1>4. call \in [Calls -> CallRecords] /\ refresh \in [Calls -> RefreshRecords]
  BY <1>1, <1>2 DEF ApiClientInit
<1>5. /\ jar \in [refresh : Tokens, access : Tokens]
      /\ render \in [step : {"none", "asked", "answered"}, token : Tokens]
  BY <1>3, TokenFacts DEF ApiClientInit
<1>6. issued \in Tokens /\ memory \in Tokens /\ seeded \in Tokens /\ unrevoked \in SUBSET Tokens
  BY TokenFacts DEF ApiClientInit
<1>7. parted \in BOOLEAN
  BY Zenon DEF ApiClientInit
<1>8. expiries \in 0 .. MaxExpiries /\ refreshFaults \in 0 .. MaxRefreshFaults
  BY DEF ApiClientInit
<1> QED BY <1>3, <1>4, <1>5, <1>6, <1>7, <1>8 DEF ApiClientTypeOK, CallRecords, RefreshRecords

LEMMA ApiClientNextType == ApiClientTypeOK /\ [ApiClientNext]_authVars => ApiClientTypeOK'
<1> SUFFICES ASSUME ApiClientTypeOK, [ApiClientNext]_authVars PROVE ApiClientTypeOK'
  OBVIOUS
<1> USE TokenFacts DEF tokenVars, memoryVars, CallRecords, RefreshRecords
<1>1. CASE TokensExpire
  <2>1. expired' \in Tokens
    BY <1>1 DEF TokensExpire, ApiClientTypeOK, Tokens
  <2>2. jar' \in [refresh : Tokens, access : Tokens]
    BY <1>1 DEF TokensExpire, ApiClientTypeOK
  <2> QED BY <1>1, <2>1, <2>2 DEF TokensExpire, ApiClientTypeOK
<1>2. ASSUME NEW c \in Calls, CallApi(c) PROVE ApiClientTypeOK'
  <2>1. PICK a \in ApiClients :
          call' = [call EXCEPT ![c].step = "sent", ![c].by = a, ![c].token = memory]
    BY <1>2 DEF CallApi
  <2> DEFINE sent == [call EXCEPT ![c].step = "sent"]
             named == [sent EXCEPT ![c].by = a]
  <2>2. sent \in [Calls -> CallRecords]
    BY DEF ApiClientTypeOK
  <2> HIDE DEF sent
  <2>3. named \in [Calls -> CallRecords]
    BY <2>2
  <2> HIDE DEF named
  <2>4. [named EXCEPT ![c].token = memory] \in [Calls -> CallRecords]
    <3>1. memory \in Tokens
      BY DEF ApiClientTypeOK
    <3> QED BY <2>3, <3>1
  <2>5. call' = [named EXCEPT ![c].token = memory]
    BY <2>1 DEF named, sent
  <2> QED BY <1>2, <2>4, <2>5 DEF CallApi, ApiClientTypeOK
<1>3. ASSUME NEW c \in Calls, AnswerCall(c) PROVE ApiClientTypeOK'
  BY <1>3, EndedType DEF AnswerCall, ApiClientTypeOK
<1>4. ASSUME NEW c \in Calls, EnsureRefreshed(c) PROVE ApiClientTypeOK'
  <2>1. call' \in [Calls -> CallRecords]
    <3>1. SameClient(c) \in SUBSET Calls /\ {c} \in SUBSET Calls
      BY DEF SameClient, Refreshing
    <3> HIDE DEF SameClient
    <3> QED BY <1>4, <3>1 DEF EnsureRefreshed, ApiClientTypeOK
  <2>2. refresh' \in [Calls -> RefreshRecords]
    BY <1>4 DEF EnsureRefreshed, SendRefresh, ApiClientTypeOK
  <2>3. parted' \in BOOLEAN
    BY <1>4 DEF EnsureRefreshed, SendRefresh, ApiClientTypeOK
  <2> QED BY <1>4, <2>1, <2>2, <2>3 DEF EnsureRefreshed, ApiClientTypeOK
<1>5. ASSUME NEW c \in Calls, RefusedAgain(c) PROVE ApiClientTypeOK'
  BY <1>5, EndedType DEF RefusedAgain, ApiClientTypeOK
<1>6. ASSUME NEW f \in Calls, LookUp(f) PROVE ApiClientTypeOK'
  BY <1>6 DEF LookUp, ApiClientTypeOK
<1>7. ASSUME NEW f \in Calls, Exchange(f) PROVE ApiClientTypeOK'
  <2>1. issued + 1 \in Tokens
    BY <1>7 DEF Exchange, ApiClientTypeOK, Tokens
  <2> QED BY <1>7, <2>1 DEF Exchange, ApiClientTypeOK
<1>8. ASSUME NEW f \in Calls, Refreshed(f) PROVE ApiClientTypeOK'
  <2>1. jar' \in [refresh : Tokens, access : Tokens]
    BY <1>8, KeptType DEF Refreshed, ApiClientTypeOK
  <2> QED BY <1>8, <2>1, ResumeType DEF Refreshed, NoRefresh, ApiClientTypeOK
<1>9. ASSUME NEW f \in Calls, RefreshDenied(f) PROVE ApiClientTypeOK'
  BY <1>9, ResumeType DEF RefreshDenied, NoRefresh, ApiClientTypeOK
<1>10. ASSUME NEW f \in Calls, RefreshLost(f) PROVE ApiClientTypeOK'
  <2>1. refreshFaults' \in 0 .. MaxRefreshFaults
    BY <1>10 DEF RefreshLost, ApiClientTypeOK
  <2>2. call' \in [Calls -> CallRecords]
    BY <1>10, ResumeType DEF RefreshLost
  <2>3. refresh' \in [Calls -> RefreshRecords]
    BY <1>10 DEF RefreshLost, NoRefresh, ApiClientTypeOK
  <2> QED BY <1>10, <2>1, <2>2, <2>3 DEF RefreshLost, ApiClientTypeOK
<1>11. CASE ReadCookie
  BY <1>11 DEF ReadCookie, ApiClientTypeOK
<1>12. CASE Seed
  BY <1>12 DEF Seed, ApiClientTypeOK
<1>13. CASE UNCHANGED authVars
  BY <1>13 DEF authVars, ApiClientTypeOK
<1> QED BY <1>1, <1>2, <1>3, <1>4, <1>5, <1>6, <1>7, <1>8, <1>9, <1>10, <1>11, <1>12, <1>13
        DEF ApiClientNext, ApiClientStep

\* Types of the cookies, the page's clients, their requests and the token in memory.
THEOREM ApiClientTypes == ApiClientSpec => []ApiClientTypeOK
BY ApiClientInitType, ApiClientNextType, PTL DEF ApiClientSpec

-----------------------------------------------------------------------------

\* The one refresh token that lives, and where: a refresh under way carries it, or brings
\* it, and otherwise the cookie has it.
OneRefresh(t) ==
  /\ unrevoked = {t}
  /\ \A f, g \in Refreshing : f = g
  /\ \A f \in Calls :
       /\ refresh[f].step # "denied"
       /\ refresh[f].step \in {"sent", "found"} => refresh[f].carries = t /\ jar.refresh = t
       /\ refresh[f].step = "rotated" => refresh[f].brings = t
  /\ (\A f \in Calls : refresh[f].step # "rotated") => jar.refresh = t

SessionInv == ~parted => \E t \in Tokens : OneRefresh(t)

LEMMA SessionInvInit == ApiClientInit => SessionInv
<1> SUFFICES ASSUME ApiClientInit PROVE OneRefresh(1)
  BY TokenFacts DEF SessionInv
<1> QED BY DEF ApiClientInit, OneRefresh, Refreshing, NoRefresh

\* A step that leaves the refreshes and the tokens alone.
LEMMA SessionSame ==
  ASSUME SessionInv, UNCHANGED <<refresh, unrevoked, parted>>, jar'.refresh = jar.refresh
  PROVE  SessionInv'
<1> SUFFICES ASSUME ~parted' PROVE \E t \in Tokens : OneRefresh(t)'
  BY DEF SessionInv, Tokens
<1>1. PICK t \in Tokens : OneRefresh(t)
  BY DEF SessionInv
<1>2. OneRefresh(t)'
  BY <1>1 DEF OneRefresh, Refreshing
<1> QED BY <1>2

LEMMA SessionInvStep == ApiClientTypeOK /\ SessionInv /\ [ApiClientNext]_authVars => SessionInv'
<1> SUFFICES ASSUME ApiClientTypeOK, SessionInv, [ApiClientNext]_authVars PROVE SessionInv'
  OBVIOUS
<1> USE DEF tokenVars, memoryVars
<1>1. CASE TokensExpire
  <2>1. jar'.refresh = jar.refresh
    BY <1>1 DEF TokensExpire, ApiClientTypeOK
  <2> QED BY <1>1, <2>1, SessionSame DEF TokensExpire
<1>2. ASSUME NEW c \in Calls, CallApi(c) \/ AnswerCall(c) \/ RefusedAgain(c) PROVE SessionInv'
  BY <1>2, SessionSame DEF CallApi, AnswerCall, RefusedAgain
<1>3. ASSUME NEW c \in Calls, EnsureRefreshed(c) PROVE SessionInv'
  <2>1. CASE SameClient(c) # {}
    BY <1>3, <2>1, SessionSame DEF EnsureRefreshed
  <2>2. CASE SameClient(c) = {}
    <3> SUFFICES ASSUME ~parted' PROVE \E t \in Tokens : OneRefresh(t)'
      BY DEF SessionInv, Tokens
    <3>1. ~parted /\ Refreshing = {}
      BY <1>3, <2>2 DEF EnsureRefreshed, SendRefresh
    <3>2. PICK t \in Tokens : OneRefresh(t)
      BY <3>1 DEF SessionInv
    <3>3. \A f \in Calls : refresh[f].step = "none"
      BY <3>1 DEF Refreshing
    <3>4. jar.refresh = t /\ jar' = jar /\ unrevoked' = {t}
      BY <1>3, <3>2, <3>3 DEF OneRefresh, EnsureRefreshed
    <3>5. \A f \in Calls : IF f = c THEN refresh'[f].step = "sent" /\ refresh'[f].carries = t
                                    ELSE refresh'[f].step = "none"
      <4>1. refresh' = [refresh EXCEPT ![c] = [step |-> "sent", carries |-> t, brings |-> 0]]
        BY <1>3, <2>2, <3>4 DEF EnsureRefreshed, SendRefresh
      <4> QED BY <3>3, <4>1 DEF ApiClientTypeOK
    <3>6. OneRefresh(t)'
      BY <3>4, <3>5 DEF OneRefresh, Refreshing
    <3> QED BY <3>6
  <2> QED BY <2>1, <2>2
<1>4. ASSUME NEW f \in Calls, LookUp(f) \/ Exchange(f) \/ Refreshed(f) PROVE SessionInv'
  <2> SUFFICES ASSUME ~parted' PROVE \E t \in Tokens : OneRefresh(t)'
    BY DEF SessionInv, Tokens
  <2>1. ~parted
    BY <1>4 DEF LookUp, Exchange, Refreshed
  <2>2. PICK t \in Tokens : OneRefresh(t)
    BY <2>1 DEF SessionInv
  <2>3. refresh[f].step # "none" /\ \A g \in Calls \ {f} : refresh[g].step = "none"
    <3>1. refresh[f].step # "none"
      BY <1>4 DEF LookUp, Exchange, Refreshed
    <3> QED BY <2>2, <3>1 DEF OneRefresh, Refreshing
  <2>4. CASE LookUp(f)
    <3>1. \A g \in Calls \ {f} : refresh'[g].step = "none"
      BY <2>3, <2>4 DEF LookUp, ApiClientTypeOK
    <3>2. refresh[f].carries = t /\ jar.refresh = t /\ unrevoked = {t}
      BY <2>2, <2>4 DEF LookUp, OneRefresh
    <3>3. refresh'[f].step = "found" /\ refresh'[f].carries = t /\ jar' = jar /\ unrevoked' = {t}
      BY <2>4, <3>2 DEF LookUp, ApiClientTypeOK
    <3>4. OneRefresh(t)'
      BY <3>1, <3>2, <3>3 DEF OneRefresh, Refreshing
    <3> QED BY <3>4
  <2>5. CASE Exchange(f)
    <3>1. \A g \in Calls \ {f} : refresh'[g].step = "none"
      BY <2>3, <2>5 DEF Exchange, ApiClientTypeOK
    <3>2. refresh[f].carries = t /\ unrevoked = {t}
      BY <2>2, <2>5 DEF Exchange, OneRefresh
    <3>3. unrevoked' = {issued + 1} /\ issued + 1 \in Tokens
      BY <2>5, <3>2 DEF Exchange, ApiClientTypeOK, Tokens
    <3>4. refresh'[f].step = "rotated" /\ refresh'[f].brings = issued + 1
      BY <2>5 DEF Exchange, ApiClientTypeOK
    <3>5. \E v \in Tokens : /\ unrevoked' = {v} /\ refresh'[f].step = "rotated" /\ refresh'[f].brings = v
      BY <3>3, <3>4
    <3>6. PICK u \in Tokens : unrevoked' = {u} /\ refresh'[f].step = "rotated" /\ refresh'[f].brings = u
      BY <3>5
    <3>7. OneRefresh(u)'
      BY <3>1, <3>6 DEF OneRefresh, Refreshing
    <3> QED BY <3>7
  <2>6. CASE Refreshed(f)
    <3>1. \A g \in Calls : refresh'[g].step = "none"
      BY <2>3, <2>6 DEF Refreshed, NoRefresh, ApiClientTypeOK
    <3>2. jar'.refresh = t /\ unrevoked' = {t}
      BY <2>2, <2>6 DEF Refreshed, OneRefresh
    <3>3. OneRefresh(t)'
      BY <3>1, <3>2 DEF OneRefresh, Refreshing
    <3> QED BY <3>3
  <2> QED BY <1>4, <2>4, <2>5, <2>6
<1>5. ASSUME NEW f \in Calls, RefreshDenied(f) PROVE SessionInv'
  <2>1. parted /\ parted' = parted
    BY <1>5 DEF RefreshDenied, SessionInv, OneRefresh, ApiClientTypeOK
  <2> QED BY <2>1 DEF SessionInv
<1>6. ASSUME NEW f \in Calls, RefreshLost(f) PROVE SessionInv'
  BY <1>6 DEF RefreshLost, SessionInv
<1>7. CASE ReadCookie \/ Seed
  BY <1>7, SessionSame DEF ReadCookie, Seed
<1>8. CASE UNCHANGED authVars
  BY <1>8, SessionSame DEF authVars
<1> QED BY <1>1, <1>2, <1>3, <1>4, <1>5, <1>6, <1>7, <1>8 DEF ApiClientNext, ApiClientStep

LEMMA SessionInvKeeps == ApiClientTypeOK /\ SessionInv => SessionKept
<1> SUFFICES ASSUME SessionInv, ~parted
             PROVE  /\ \A f \in Calls : refresh[f].step # "denied"
                    /\ \E t \in Tokens :
                         /\ unrevoked = {t}
                         /\ jar.refresh = t \/ \E f \in Calls : refresh[f].step = "rotated" /\ refresh[f].brings = t
  BY DEF SessionKept
<1>1. PICK t \in Tokens : OneRefresh(t)
  BY DEF SessionInv
<1> QED BY <1>1 DEF OneRefresh

\* However many clients and calls a page has: without an overlap of two clients and without
\* a lost refresh the session lives in one token, which the cookie has or will have.
THEOREM SessionLives == ApiClientSpec => []SessionKept
BY SessionInvKeeps, ApiClientTypes, SessionInvInit, SessionInvStep, PTL DEF ApiClientSpec

-----------------------------------------------------------------------------

\* Whoever waits, waits for refreshes that are under way.
NobodyForgotten ==
  \A c \in Calls : call[c].step = "waiting" => call[c].joined # {} /\ call[c].joined \subseteq Refreshing

\* The token in memory is the last one a render brought, and a render brings the cookie's.
MemoryFollows ==
  /\ seeded \in {0, memory}
  /\ render.step = "answered" => jar.access \in {0, render.token}
  /\ render.step = "none" => jar.access \in {0, memory}

TokenAtRest ==
  /\ Refreshing = {} /\ render.step = "none"
  /\ \A c \in Calls : call[c].step \notin {"sent", "refused"}

\* With nothing under way every call has ended, and memory has the cookie's token.
RestsWithToken ==
  TokenAtRest => /\ \A c \in Calls : call[c].step \in {"idle", "ok", "failed"}
                 /\ jar.access \in {0, memory}

\* A call that does not begin to wait, and refreshes that do not end.
LEMMA WaitersKept ==
  ASSUME NobodyForgotten, Refreshing \subseteq Refreshing',
         \A c \in Calls : call'[c].step = "waiting" => call'[c] = call[c]
  PROVE  NobodyForgotten'
<1> SUFFICES ASSUME NEW c \in Calls, call'[c].step = "waiting"
             PROVE  call'[c].joined # {} /\ call'[c].joined \subseteq Refreshing'
  BY DEF NobodyForgotten
<1> QED BY DEF NobodyForgotten

LEMMA EndedStep == ASSUME NEW how PROVE Ended(how).step = how
BY DEF Ended, NotCalled

\* A refresh that ends resumes whoever waits for it.
LEMMA WaitersResumed ==
  ASSUME ApiClientTypeOK, NobodyForgotten, NEW f \in Calls, NEW b \in BOOLEAN, Resume(f, b),
         refresh' = [refresh EXCEPT ![f] = NoRefresh]
  PROVE  NobodyForgotten'
<1>1. Refreshing \ {f} \subseteq Refreshing'
  BY DEF Refreshing, ApiClientTypeOK
<1>2. ASSUME NEW c \in Calls, call'[c].step = "waiting"
      PROVE  call'[c] = call[c] /\ f \notin call[c].joined
  <2>1. CASE c \in Waiting(f)
    <3>1. \/ call'[c] = [call[c] EXCEPT !.step = "sent", !.retried = TRUE, !.joined = {},
                                        !.refused = call[c].token, !.token = memory]
          \/ call'[c] = Ended("failed")
      BY <2>1 DEF Resume
    <3>2. call'[c].step \in {"sent", "failed"}
      BY <3>1, EndedStep DEF ApiClientTypeOK
    <3> QED BY <1>2, <3>2
  <2>2. CASE c \notin Waiting(f)
    <3>1. call'[c] = call[c]
      BY <2>2 DEF Resume
    <3> QED BY <1>2, <2>2, <3>1 DEF Waiting
  <2> QED BY <2>1, <2>2
<1>3. ASSUME NEW c \in Calls, call'[c].step = "waiting"
      PROVE  call'[c].joined # {} /\ call'[c].joined \subseteq Refreshing'
  BY <1>1, <1>2, <1>3 DEF NobodyForgotten
<1> QED BY <1>3 DEF NobodyForgotten

LEMMA NobodyForgottenStep ==
  ASSUME ApiClientTypeOK, NobodyForgotten, [ApiClientNext]_authVars PROVE NobodyForgotten'
<1> USE DEF tokenVars, memoryVars
<1>1. CASE TokensExpire \/ ReadCookie \/ Seed \/ UNCHANGED authVars
  BY <1>1, WaitersKept DEF TokensExpire, ReadCookie, Seed, authVars, Refreshing
<1>2. ASSUME NEW c \in Calls, CallApi(c) \/ AnswerCall(c) \/ RefusedAgain(c)
      PROVE  NobodyForgotten'
  <2>1. Refreshing' = Refreshing
    BY <1>2 DEF CallApi, AnswerCall, RefusedAgain, Refreshing
  <2>2. \A d \in Calls : call'[d].step = "waiting" => call'[d] = call[d]
    <3>1. \A d \in Calls \ {c} : call'[d] = call[d]
      BY <1>2 DEF CallApi, AnswerCall, RefusedAgain, ApiClientTypeOK
    <3>2. CASE CallApi(c)
      BY <3>1, <3>2 DEF CallApi, ApiClientTypeOK
    <3>3. CASE AnswerCall(c)
      BY <3>1, <3>3, EndedStep DEF AnswerCall, ApiClientTypeOK
    <3>4. CASE RefusedAgain(c)
      BY <3>1, <3>4, EndedStep DEF RefusedAgain, ApiClientTypeOK
    <3> QED BY <1>2, <3>2, <3>3, <3>4
  <2> QED BY <2>1, <2>2, WaitersKept
<1>3. ASSUME NEW c \in Calls, EnsureRefreshed(c) PROVE NobodyForgotten'
  <2>1. PICK S \in SUBSET Calls : /\ call' = [call EXCEPT ![c].step = "waiting", ![c].joined = S]
                                  /\ S # {} /\ S \subseteq Refreshing' /\ Refreshing \subseteq Refreshing'
    <3>1. CASE SameClient(c) # {}
      <4>1. /\ call' = [call EXCEPT ![c].step = "waiting", ![c].joined = SameClient(c)]
            /\ refresh' = refresh
        BY <1>3, <3>1 DEF EnsureRefreshed
      <4>2. SameClient(c) \subseteq Refreshing /\ Refreshing' = Refreshing /\ Refreshing \subseteq Calls
        BY <4>1 DEF SameClient, Refreshing
      <4> QED BY <3>1, <4>1, <4>2
    <3>2. CASE SameClient(c) = {}
      <4>1. Refreshing' = Refreshing \cup {c}
        BY <1>3, <3>2 DEF EnsureRefreshed, SendRefresh, Refreshing, ApiClientTypeOK
      <4> QED BY <1>3, <3>2, <4>1 DEF EnsureRefreshed
    <3> QED BY <3>1, <3>2
  <2>2. \A d \in Calls : IF d = c THEN call'[d].joined = S ELSE call'[d] = call[d]
    BY <2>1 DEF ApiClientTypeOK
  <2> QED BY <2>1, <2>2 DEF NobodyForgotten
<1>4. ASSUME NEW f \in Calls, LookUp(f) \/ Exchange(f) PROVE NobodyForgotten'
  <2>1. Refreshing' = Refreshing /\ call' = call
    BY <1>4 DEF LookUp, Exchange, Refreshing, ApiClientTypeOK
  <2> QED BY <2>1, WaitersKept
<1>5. ASSUME NEW f \in Calls, Refreshed(f) \/ RefreshDenied(f) \/ RefreshLost(f)
      PROVE  NobodyForgotten'
  BY <1>5, WaitersResumed DEF Refreshed, RefreshDenied, RefreshLost
<1> QED BY <1>1, <1>2, <1>3, <1>4, <1>5 DEF ApiClientNext, ApiClientStep

LEMMA MemoryFollowsStep ==
  ASSUME ApiClientTypeOK, MemoryFollows, [ApiClientNext]_authVars PROVE MemoryFollows'
<1> USE DEF tokenVars, memoryVars
<1>1. CASE TokensExpire
  <2>1. jar'.access \in {0, jar.access}
    BY <1>1 DEF TokensExpire, ApiClientTypeOK
  <2> QED BY <1>1, <2>1 DEF TokensExpire, MemoryFollows
<1>2. ASSUME NEW c \in Calls, \/ CallApi(c) \/ AnswerCall(c) \/ RefusedAgain(c) \/ EnsureRefreshed(c)
                              \/ LookUp(c) \/ Exchange(c) \/ RefreshDenied(c) \/ RefreshLost(c)
      PROVE  MemoryFollows'
  <2>1. UNCHANGED <<jar, memory, seeded, render>>
    BY <1>2 DEF CallApi, AnswerCall, RefusedAgain, EnsureRefreshed, LookUp, Exchange,
                RefreshDenied, RefreshLost
  <2> QED BY <2>1 DEF MemoryFollows
<1>3. ASSUME NEW f \in Calls, Refreshed(f) PROVE MemoryFollows'
  BY <1>3 DEF Refreshed, MemoryFollows
<1>4. CASE ReadCookie
  BY <1>4 DEF ReadCookie, MemoryFollows
<1>5. CASE Seed
  <2>1. render'.step = "none" /\ seeded' = render.token /\ jar' = jar
    BY <1>5 DEF Seed
  <2>2. seeded' \in {0, memory'}
    BY <1>5 DEF Seed, MemoryFollows
  <2>3. jar.access \in {0, memory'}
    BY <1>5, <2>1, <2>2 DEF Seed, MemoryFollows
  <2> QED BY <2>1, <2>2, <2>3 DEF MemoryFollows
<1>6. CASE UNCHANGED authVars
  BY <1>6 DEF authVars, MemoryFollows
<1> QED BY <1>1, <1>2, <1>3, <1>4, <1>5, <1>6 DEF ApiClientNext, ApiClientStep

LEMMA TokenRestInit == ApiClientInit => NobodyForgotten /\ MemoryFollows
BY DEF ApiClientInit, NotCalled, NobodyForgotten, MemoryFollows

LEMMA TokenRests == ApiClientTypeOK /\ NobodyForgotten /\ MemoryFollows => RestsWithToken
<1> SUFFICES ASSUME ApiClientTypeOK, NobodyForgotten, MemoryFollows, TokenAtRest, NEW c \in Calls
             PROVE  call[c].step \in {"idle", "ok", "failed"}
  BY DEF RestsWithToken, TokenAtRest, MemoryFollows
<1>1. call[c].step # "waiting"
  BY DEF NobodyForgotten, TokenAtRest
<1> QED BY <1>1 DEF TokenAtRest, ApiClientTypeOK

\* The safety half of TokenSettles, also when clients overlap and refreshes are lost: with
\* no request and no render under way no call is left waiting for a refresh that is gone,
\* and the page sends the token of its cookie, although no page can read the cookie.
THEOREM TokenFollowsCookie == ApiClientSpec => []RestsWithToken
BY TokenRests, ApiClientTypes, TokenRestInit, NobodyForgottenStep, MemoryFollowsStep, PTL
DEF ApiClientSpec

HIDE ApiClientAssumption

-----------------------------------------------------------------------------
(* The live stream of a page (LiveStream).                                 *)

LivePages == [life : {"new", "mounted", "gone"},
              conn : {"idle", "fetch", "arriving", "open", "wait"},
              grant : Grants \cup {NoGrant}, sources : SUBSET Grants,
              status : {"connected", "reconnecting", "offline"}]
GrantStates == {"none", "live", "used", "expired"}
StreamStates == {"none", "request", "check", "subscribe", "attached", "ended"}

\* What LiveStreamTypeOK says, and that wire has no other streams.
LiveTypes ==
  /\ page \in [Clients -> LivePages]
  /\ grant \in [Grants -> GrantStates] /\ stream \in [Grants -> StreamStates]
  /\ aborted \in SUBSET Grants
  /\ wire \in [Grants -> Seq(1 .. MaxPublished)]
  /\ belongs \in BOOLEAN /\ published \in 0 .. MaxPublished
  /\ opened \in [Grants -> 0 .. 2]
  /\ latest \in [Clients -> 0 .. MaxPublished]
  /\ drops \in 0 .. MaxDrops

\* A page that is connected has the one source of its token, and no other page has it.
PageSound(c) ==
  /\ page[c].conn = "open" =>
       page[c].sources \subseteq {page[c].grant} /\ page[c].grant \in Grants
  /\ page[c].conn # "open" => page[c].sources = {}
  /\ page[c].conn \in {"open", "wait"} => Mounted(c)
  /\ page[c].life = "new" => page[c].conn = "idle"
  /\ page[c].life = "gone" => page[c].status = "offline"
  /\ page[c].conn = "arriving" =>
       page[c].grant \in Grants /\ stream[page[c].grant] = "none" /\ page[c].grant \notin aborted
  /\ page[c].conn \notin {"arriving", "open"} => page[c].grant = NoGrant
  /\ page[c].sources \cap aborted = {}
PagesSound == \A c \in Clients : PageSound(c)
TokensApart ==
  \A c, d \in Clients : c # d /\ page[c].grant # NoGrant => page[c].grant # page[d].grant

\* Tokens are handed out in order; one that was not handed out is nowhere.
InSequence == \E n \in 0 .. MaxGrants : Issued = 1 .. n
Untouched(t) ==
  /\ stream[t] = "none" /\ opened[t] = 0 /\ t \notin aborted
  /\ \A c \in Clients : page[c].grant # t
UnissuedUntouched == \A t \in Grants : grant[t] = "none" => Untouched(t)
OpenedOnce ==
  \A t \in Grants : opened[t] <= 1 /\ (grant[t] = "live" => opened[t] = 0)

\* The API works for a page that listens, or will see that there is none.
StreamsServed ==
  \A t \in Grants : stream[t] \in {"request", "check", "subscribe", "attached"} =>
    t \in aborted \/ \E c \in Clients : Mounted(c) /\ Listens(c, t)

\* What is on its way to a page is later than what it has seen, in order.
Coming(t) ==
  /\ stream[t] = "none" => wire[t] = <<>>
  /\ \A i \in 1 .. Len(wire[t]) : wire[t][i] <= published
  /\ \A i, k \in 1 .. Len(wire[t]) : i < k => wire[t][i] <= wire[t][k]
  /\ \A c \in Clients : Listens(c, t) =>
       \A i \in 1 .. Len(wire[t]) : latest[c] <= wire[t][i]
EventsInOrder ==
  /\ \A t \in Grants : Coming(t)
  /\ \A c \in Clients : latest[c] <= published

TokensInv == InSequence /\ UnissuedUntouched /\ OpenedOnce
LiveInv == LiveTypes /\ PagesSound /\ TokensApart /\ TokensInv /\ StreamsServed /\ EventsInOrder

LEMMA LiveInitial == LiveStreamInit => LiveInv
<1> SUFFICES ASSUME LiveStreamInit PROVE LiveInv
  OBVIOUS
<1> USE LiveStreamAssumption DEF LiveStreamInit, NewPage, Grants, NoGrant
<1>1. LiveTypes
  BY DEF LiveTypes, LivePages, GrantStates, StreamStates
<1>2. PagesSound /\ TokensApart
  BY DEF PagesSound, PageSound, TokensApart, Mounted
<1>3. TokensInv
  <2>1. Issued = {} /\ 1 .. 0 = {}
    BY DEF Issued
  <2>2. InSequence
    <3>1. 0 \in 0 .. MaxGrants
      OBVIOUS
    <3> QED BY <2>1, <3>1 DEF InSequence
  <2> QED BY <2>2 DEF TokensInv, UnissuedUntouched, Untouched, OpenedOnce
<1>4. StreamsServed
  BY DEF StreamsServed
<1>5. EventsInOrder
  BY DEF EventsInOrder, Coming, Listens
<1> QED BY <1>1, <1>2, <1>3, <1>4, <1>5 DEF LiveInv

\* The token that is handed out next was not handed out before.
LEMMA NextTokenIsNew ==
  ASSUME InSequence, NEW t \in Grants, t = Cardinality(Issued) + 1
  PROVE  grant[t] = "none" /\ Issued \cup {t} = 1 .. t
<1>1. PICK n \in 0 .. MaxGrants : Issued = 1 .. n
  BY DEF InSequence
<1>2. Cardinality(Issued) = n
  BY <1>1, FS_Interval, LiveStreamAssumption
<1> QED BY <1>1, <1>2, LiveStreamAssumption DEF Issued, Grants

\* What becomes of the fields of a page.
LEMMA PageFields ==
  ASSUME NEW p \in LivePages, NEW g \in Grants \cup {NoGrant}, NEW S \in SUBSET Grants,
         NEW conn \in {"idle", "fetch", "arriving", "open", "wait"},
         NEW shows \in {"connected", "reconnecting", "offline"}, NEW life \in {"mounted", "gone"}
  PROVE  /\ [p EXCEPT !.conn = conn] \in LivePages
         /\ [p EXCEPT !.status = shows] \in LivePages
         /\ [p EXCEPT !.conn = conn, !.grant = g] \in LivePages
         /\ [p EXCEPT !.conn = conn, !.sources = S] \in LivePages
         /\ [p EXCEPT !.conn = conn, !.grant = g, !.sources = S] \in LivePages
         /\ [p EXCEPT !.conn = conn, !.grant = g, !.sources = S, !.status = shows] \in LivePages
         /\ [p EXCEPT !.life = life, !.status = shows, !.sources = S, !.conn = conn, !.grant = g]
              \in LivePages
         /\ p.sources \in SUBSET Grants
BY DEF LivePages

\* Page c, and no other, is now p.
Becomes(c, p) == page' = [page EXCEPT ![c] = p]

\* The step of a page, as what becomes of it.
LEMMA PageSteps ==
  ASSUME LiveTypes, NEW c \in Clients
  PROVE  /\ Mount(c) => Becomes(c, [NewPage EXCEPT !.life = "mounted", !.conn = "fetch",
                                                   !.status = "reconnecting"])
         /\ TokenArrives(c) /\ Mounted(c) =>
              Becomes(c, [page[c] EXCEPT !.conn = "open",
                                         !.sources = page[c].sources \cup {page[c].grant}])
         /\ TokenArrives(c) /\ ~Mounted(c) =>
              Becomes(c, [page[c] EXCEPT !.conn = "idle", !.grant = NoGrant])
         /\ Opened(c) => Becomes(c, [page[c] EXCEPT !.status = "connected"])
         /\ Reconnect(c) => Becomes(c, [page[c] EXCEPT !.conn = "fetch"])
         /\ \A S \in SUBSET Grants : Later(c, S) /\ Mounted(c) =>
              Becomes(c, [page[c] EXCEPT !.conn = "wait", !.grant = NoGrant, !.sources = S,
                                         !.status = "reconnecting"])
         /\ \A S \in SUBSET Grants : Later(c, S) /\ ~Mounted(c) =>
              Becomes(c, [page[c] EXCEPT !.conn = "idle", !.grant = NoGrant, !.sources = S])
         /\ Unmount(c) =>
              Becomes(c, [page[c] EXCEPT !.life = "gone", !.status = "offline", !.sources = {},
                !.conn = IF page[c].conn \in {"fetch", "arriving"} THEN page[c].conn ELSE "idle",
                !.grant = IF page[c].conn = "arriving" THEN page[c].grant ELSE NoGrant])
         /\ IssueToken(c) => \E t \in Grants :
              /\ t = Cardinality(Issued) + 1 /\ grant' = [grant EXCEPT ![t] = "live"]
              /\ Becomes(c, [page[c] EXCEPT !.conn = "arriving", !.grant = t])
<1> USE DEF LiveTypes, Becomes
<1>0. page[c] \in LivePages
  OBVIOUS
<1>1. Mount(c) => Becomes(c, [NewPage EXCEPT !.life = "mounted", !.conn = "fetch",
                                                   !.status = "reconnecting"])
  BY DEF Mount
<1>2. TokenArrives(c) /\ Mounted(c) =>
              Becomes(c, [page[c] EXCEPT !.conn = "open",
                                         !.sources = page[c].sources \cup {page[c].grant}])
  BY <1>0 DEF TokenArrives, LivePages
<1>3. TokenArrives(c) /\ ~Mounted(c) =>
              Becomes(c, [page[c] EXCEPT !.conn = "idle", !.grant = NoGrant])
  BY <1>0 DEF TokenArrives, LivePages
<1>4. /\ Opened(c) => Becomes(c, [page[c] EXCEPT !.status = "connected"])
      /\ Reconnect(c) => Becomes(c, [page[c] EXCEPT !.conn = "fetch"])
  BY <1>0 DEF Opened, Reconnect, LivePages
<1>5. \A S \in SUBSET Grants : Later(c, S) /\ Mounted(c) =>
              Becomes(c, [page[c] EXCEPT !.conn = "wait", !.grant = NoGrant, !.sources = S,
                                         !.status = "reconnecting"])
  BY <1>0 DEF Later, LivePages
<1>6. \A S \in SUBSET Grants : Later(c, S) /\ ~Mounted(c) =>
              Becomes(c, [page[c] EXCEPT !.conn = "idle", !.grant = NoGrant, !.sources = S])
  BY <1>0 DEF Later, LivePages
<1>7. Unmount(c) =>
              Becomes(c, [page[c] EXCEPT !.life = "gone", !.status = "offline", !.sources = {},
                !.conn = IF page[c].conn \in {"fetch", "arriving"} THEN page[c].conn ELSE "idle",
                !.grant = IF page[c].conn = "arriving" THEN page[c].grant ELSE NoGrant])
  BY <1>0 DEF Unmount, LivePages
<1>8. IssueToken(c) => \E t \in Grants :
              /\ t = Cardinality(Issued) + 1 /\ grant' = [grant EXCEPT ![t] = "live"]
              /\ Becomes(c, [page[c] EXCEPT !.conn = "arriving", !.grant = t])
  BY <1>0 DEF IssueToken, LivePages
<1> QED BY <1>1, <1>2, <1>3, <1>4, <1>5, <1>6, <1>7, <1>8

\* The next page c, field by field; the other pages stay as they are.
Looks(c, life, conn, token, sources, shows) ==
  /\ page'[c].life = life /\ page'[c].conn = conn /\ page'[c].grant = token
  /\ page'[c].sources = sources /\ page'[c].status = shows
  /\ \A d \in Clients \ {c} : page'[d] = page[d]

LEMMA PageLooks ==
  ASSUME LiveTypes, NEW c \in Clients
  PROVE  /\ Mount(c) => Looks(c, "mounted", "fetch", NoGrant, {}, "reconnecting")
         /\ TokenArrives(c) /\ Mounted(c) =>
              Looks(c, "mounted", "open", page[c].grant, page[c].sources \cup {page[c].grant},
                    page[c].status)
         /\ TokenArrives(c) /\ ~Mounted(c) =>
              Looks(c, page[c].life, "idle", NoGrant, page[c].sources, page[c].status)
         /\ Opened(c) =>
              Looks(c, page[c].life, page[c].conn, page[c].grant, page[c].sources, "connected")
         /\ Reconnect(c) =>
              Looks(c, page[c].life, "fetch", page[c].grant, page[c].sources, page[c].status)
         /\ \A S \in SUBSET Grants : Later(c, S) /\ Mounted(c) =>
              Looks(c, "mounted", "wait", NoGrant, S, "reconnecting")
         /\ \A S \in SUBSET Grants : Later(c, S) /\ ~Mounted(c) =>
              Looks(c, page[c].life, "idle", NoGrant, S, page[c].status)
         /\ Unmount(c) =>
              Looks(c, "gone", IF page[c].conn \in {"fetch", "arriving"} THEN page[c].conn ELSE "idle",
                    IF page[c].conn = "arriving" THEN page[c].grant ELSE NoGrant, {}, "offline")
         /\ IssueToken(c) => \E t \in Grants :
              /\ t = Cardinality(Issued) + 1 /\ grant' = [grant EXCEPT ![t] = "live"]
              /\ Looks(c, page[c].life, "arriving", t, page[c].sources, page[c].status)
<1>0. page[c] \in LivePages
  BY DEF LiveTypes
<1>1. ASSUME NEW p, Becomes(c, p)
      PROVE  page'[c] = p /\ \A d \in Clients \ {c} : page'[d] = page[d]
  BY <1>1 DEF Becomes, LiveTypes
<1>2. ASSUME Mount(c) PROVE Looks(c, "mounted", "fetch", NoGrant, {}, "reconnecting")
  <2> DEFINE p == [NewPage EXCEPT !.life = "mounted", !.conn = "fetch", !.status = "reconnecting"]
  <2>1. page'[c] = p /\ \A d \in Clients \ {c} : page'[d] = page[d]
    <3>1. Becomes(c, p)
      BY <1>2, PageSteps
    <3> HIDE DEF p
    <3> QED BY <1>1, <3>1
  <2> QED BY <1>0, <1>2, <2>1 DEF Looks, NewPage
<1>3. ASSUME TokenArrives(c), Mounted(c) PROVE 
  Looks(c, "mounted", "open", page[c].grant, page[c].sources \cup {page[c].grant}, page[c].status)
  <2> DEFINE p == [page[c] EXCEPT !.conn = "open",
                               !.sources = page[c].sources \cup {page[c].grant}]
  <2>1. page'[c] = p /\ \A d \in Clients \ {c} : page'[d] = page[d]
    <3>1. Becomes(c, p)
      BY <1>3, PageSteps
    <3> HIDE DEF p
    <3> QED BY <1>1, <3>1
  <2> QED BY <1>0, <1>3, <2>1 DEF Looks, LivePages, Mounted
<1>4. ASSUME TokenArrives(c), ~Mounted(c) PROVE 
  Looks(c, page[c].life, "idle", NoGrant, page[c].sources, page[c].status)
  <2> DEFINE p == [page[c] EXCEPT !.conn = "idle", !.grant = NoGrant]
  <2>1. page'[c] = p /\ \A d \in Clients \ {c} : page'[d] = page[d]
    <3>1. Becomes(c, p)
      BY <1>4, PageSteps
    <3> HIDE DEF p
    <3> QED BY <1>1, <3>1
  <2> QED BY <1>0, <1>4, <2>1 DEF Looks, LivePages
<1>5. ASSUME Opened(c) PROVE 
  Looks(c, page[c].life, page[c].conn, page[c].grant, page[c].sources, "connected")
  <2> DEFINE p == [page[c] EXCEPT !.status = "connected"]
  <2>1. page'[c] = p /\ \A d \in Clients \ {c} : page'[d] = page[d]
    <3>1. Becomes(c, p)
      BY <1>5, PageSteps
    <3> HIDE DEF p
    <3> QED BY <1>1, <3>1
  <2> QED BY <1>0, <1>5, <2>1 DEF Looks, LivePages
<1>6. ASSUME Reconnect(c) PROVE 
  Looks(c, page[c].life, "fetch", page[c].grant, page[c].sources, page[c].status)
  <2> DEFINE p == [page[c] EXCEPT !.conn = "fetch"]
  <2>1. page'[c] = p /\ \A d \in Clients \ {c} : page'[d] = page[d]
    <3>1. Becomes(c, p)
      BY <1>6, PageSteps
    <3> HIDE DEF p
    <3> QED BY <1>1, <3>1
  <2> QED BY <1>0, <1>6, <2>1 DEF Looks, LivePages
<1>7. ASSUME NEW S \in SUBSET Grants, Later(c, S), Mounted(c) PROVE 
  Looks(c, "mounted", "wait", NoGrant, S, "reconnecting")
  <2> DEFINE p == [page[c] EXCEPT !.conn = "wait", !.grant = NoGrant, !.sources = S,
                               !.status = "reconnecting"]
  <2>1. page'[c] = p /\ \A d \in Clients \ {c} : page'[d] = page[d]
    <3>1. Becomes(c, p)
      BY <1>7, PageSteps
    <3> HIDE DEF p
    <3> QED BY <1>1, <3>1
  <2> QED BY <1>0, <1>7, <2>1 DEF Looks, LivePages, Mounted
<1>8. ASSUME NEW S \in SUBSET Grants, Later(c, S), ~Mounted(c) PROVE 
  Looks(c, page[c].life, "idle", NoGrant, S, page[c].status)
  <2> DEFINE p == [page[c] EXCEPT !.conn = "idle", !.grant = NoGrant, !.sources = S]
  <2>1. page'[c] = p /\ \A d \in Clients \ {c} : page'[d] = page[d]
    <3>1. Becomes(c, p)
      BY <1>8, PageSteps
    <3> HIDE DEF p
    <3> QED BY <1>1, <3>1
  <2> QED BY <1>0, <1>8, <2>1 DEF Looks, LivePages
<1>9. ASSUME Unmount(c) PROVE 
  Looks(c, "gone", IF page[c].conn \in {"fetch", "arriving"} THEN page[c].conn ELSE "idle",
        IF page[c].conn = "arriving" THEN page[c].grant ELSE NoGrant, {}, "offline")
  <2> DEFINE p == [page[c] EXCEPT !.life = "gone", !.status = "offline", !.sources = {},
                !.conn = IF page[c].conn \in {"fetch", "arriving"} THEN page[c].conn ELSE "idle",
                !.grant = IF page[c].conn = "arriving" THEN page[c].grant ELSE NoGrant]
  <2>1. page'[c] = p /\ \A d \in Clients \ {c} : page'[d] = page[d]
    <3>1. Becomes(c, p)
      BY <1>9, PageSteps
    <3> HIDE DEF p
    <3> QED BY <1>1, <3>1
  <2> QED BY <1>0, <1>9, <2>1 DEF Looks, LivePages
<1>10. ASSUME IssueToken(c) PROVE \E t \in Grants :
        /\ t = Cardinality(Issued) + 1 /\ grant' = [grant EXCEPT ![t] = "live"]
        /\ Looks(c, page[c].life, "arriving", t, page[c].sources, page[c].status)
  <2>1. PICK t \in Grants : /\ t = Cardinality(Issued) + 1 /\ grant' = [grant EXCEPT ![t] = "live"]
                            /\ Becomes(c, [page[c] EXCEPT !.conn = "arriving", !.grant = t])
    BY <1>10, PageSteps
  <2> DEFINE p == [page[c] EXCEPT !.conn = "arriving", !.grant = t]
  <2>2. page'[c] = p /\ \A d \in Clients \ {c} : page'[d] = page[d]
    <3>1. Becomes(c, p)
      BY <2>1
    <3> HIDE DEF p
    <3> QED BY <1>1, <3>1
  <2>3. Looks(c, page[c].life, "arriving", t, page[c].sources, page[c].status)
    BY <1>0, <2>2 DEF Looks, LivePages
  <2> QED BY <2>1, <2>3
<1> QED BY <1>2, <1>3, <1>4, <1>5, <1>6, <1>7, <1>8, <1>9, <1>10

LEMMA LiveTypesKept == LiveInv /\ [LiveStreamNext]_liveStreamVars => LiveTypes'
<1> SUFFICES ASSUME LiveInv, [LiveStreamNext]_liveStreamVars PROVE LiveTypes'
  OBVIOUS
<1> USE LiveStreamAssumption DEF LiveInv, LiveTypes, apiVars, restVars
<1>0. \A c \in Clients : page[c] \in LivePages
  OBVIOUS
<1>1. ASSUME NEW c \in Clients, NEW p \in LivePages, Becomes(c, p),
             UNCHANGED <<aborted, wire, belongs, published, opened, latest>>,
             grant' \in [Grants -> GrantStates], stream' \in [Grants -> StreamStates],
             drops' \in 0 .. MaxDrops
      PROVE  LiveTypes'
  BY <1>1 DEF Becomes
<1>2. ASSUME NEW c \in Clients, Mount(c) PROVE LiveTypes'
  <2>1. [NewPage EXCEPT !.life = "mounted", !.conn = "fetch", !.status = "reconnecting"]
          \in LivePages
    BY DEF NewPage, LivePages
  <2> QED BY <1>1, <1>2, <2>1, PageSteps DEF Mount
<1>3. ASSUME NEW c \in Clients, TokenArrives(c) PROVE LiveTypes'
  <2>1. page[c].sources \in SUBSET Grants /\ page[c].grant \in Grants
    BY <1>0, <1>3 DEF TokenArrives, PagesSound, PageSound, LivePages
  <2>2. stream' \in [Grants -> StreamStates]
    BY <1>3 DEF TokenArrives, StreamStates
  <2>3. PICK p \in LivePages : Becomes(c, p)
    <3>1. /\ [page[c] EXCEPT !.conn = "open", !.sources = page[c].sources \cup {page[c].grant}]
               \in LivePages
          /\ [page[c] EXCEPT !.conn = "idle", !.grant = NoGrant] \in LivePages
      <4>1. page[c].sources \cup {page[c].grant} \in SUBSET Grants /\ NoGrant \in Grants \cup {NoGrant}
        BY <2>1
      <4> QED BY <1>0, <4>1, PageFields
    <3> QED BY <1>3, <3>1, PageSteps
  <2> QED BY <1>1, <1>3, <2>2, <2>3 DEF TokenArrives
<1>4. ASSUME NEW c \in Clients, Opened(c) \/ Reconnect(c) PROVE LiveTypes'
  <2>1. PICK p \in LivePages : Becomes(c, p)
    BY <1>0, <1>4, PageSteps, PageFields
  <2> QED BY <1>1, <1>4, <2>1 DEF Opened, Reconnect
<1>5. ASSUME NEW c \in Clients, Receive(c) PROVE LiveTypes'
  BY <1>5 DEF Receive
<1>6. ASSUME NEW c \in Clients, NEW S \in SUBSET Grants, Later(c, S)
      PROVE  \E p \in LivePages : Becomes(c, p)
  <2>1. /\ [page[c] EXCEPT !.conn = "wait", !.grant = NoGrant, !.sources = S,
                           !.status = "reconnecting"] \in LivePages
        /\ [page[c] EXCEPT !.conn = "idle", !.grant = NoGrant, !.sources = S] \in LivePages
    BY <1>0, PageFields
  <2> QED BY <1>6, <2>1, PageSteps
<1>7. ASSUME NEW c \in Clients, OnError(c) PROVE LiveTypes'
  <2>1. page[c].sources \in SUBSET Grants
    BY <1>0, PageFields
  <2>2. PICK p \in LivePages : Becomes(c, p)
    BY <1>6, <1>7, <2>1 DEF OnError
  <2> QED BY <1>7, <2>2 DEF OnError, Becomes
<1>8. ASSUME NEW c \in Clients, FetchFails(c) PROVE LiveTypes'
  <2>1. page[c].sources \in SUBSET Grants
    BY <1>0, PageFields
  <2>2. PICK p \in LivePages : Becomes(c, p)
    BY <1>6, <1>8, <2>1 DEF FetchFails
  <2> QED BY <1>1, <1>8, <2>2 DEF FetchFails
<1>9. ASSUME NEW c \in Clients, Unmount(c) PROVE LiveTypes'
  <2>1. PICK p \in LivePages : Becomes(c, p)
    <3>1. page[c].conn \in {"idle", "fetch", "arriving", "open", "wait"}
          /\ page[c].grant \in Grants \cup {NoGrant}
      BY <1>0 DEF LivePages
    <3> DEFINE conn == IF page[c].conn \in {"fetch", "arriving"} THEN page[c].conn ELSE "idle"
               token == IF page[c].conn = "arriving" THEN page[c].grant ELSE NoGrant
    <3>2. conn \in {"idle", "fetch", "arriving", "open", "wait"}
          /\ token \in Grants \cup {NoGrant}
      BY <3>1
    <3>3. [page[c] EXCEPT !.life = "gone", !.status = "offline", !.sources = {}, !.conn = conn,
                          !.grant = token] \in LivePages
      <4> HIDE DEF conn, token
      <4>1. {} \in SUBSET Grants
        OBVIOUS
      <4> QED BY <1>0, <3>2, <4>1, PageFields
    <3> QED BY <1>9, <3>3, PageSteps
  <2>2. wire' \in [Grants -> Seq(1 .. MaxPublished)]
    <3>1. \A t \in Grants : wire[t] \in Seq(1 .. MaxPublished) /\ <<>> \in Seq(1 .. MaxPublished)
      OBVIOUS
    <3>2. wire' = [t \in Grants |-> IF Listens(c, t) THEN <<>> ELSE wire[t]]
      BY <1>9 DEF Unmount
    <3> QED BY <3>1, <3>2
  <2> QED BY <1>9, <2>1, <2>2 DEF Unmount, Becomes
<1>10. ASSUME NEW c \in Clients, IssueToken(c) PROVE LiveTypes'
  <2>1. PICK t \in Grants : /\ grant' = [grant EXCEPT ![t] = "live"]
                            /\ Becomes(c, [page[c] EXCEPT !.conn = "arriving", !.grant = t])
    BY <1>10, PageSteps
  <2>2. [page[c] EXCEPT !.conn = "arriving", !.grant = t] \in LivePages
    BY <1>0, PageFields
  <2>3. grant' \in [Grants -> GrantStates]
    BY <2>1 DEF GrantStates
  <2> QED BY <1>1, <1>10, <2>1, <2>2, <2>3 DEF IssueToken
<1>11. ASSUME NEW t \in Grants, GrantExpires(t) \/ Consume(t) \/ RepeatRequest(t) \/ CheckMember(t)
                                \/ Subscribed(t) \/ Release(t)
       PROVE  LiveTypes'
  <2>1. stream' \in [Grants -> StreamStates] /\ grant' \in [Grants -> GrantStates]
    BY <1>11 DEF GrantExpires, Consume, RepeatRequest, CheckMember, Subscribed, Release,
                 StreamStates, GrantStates
  <2>2. opened' \in [Grants -> 0 .. 2]
    <3>1. opened' = opened \/ opened' = [opened EXCEPT ![t] = IF @ < 2 THEN @ + 1 ELSE @]
      BY <1>11 DEF GrantExpires, Consume, RepeatRequest, CheckMember, Subscribed, Release
    <3>2. opened[t] \in 0 .. 2 /\ (IF opened[t] < 2 THEN opened[t] + 1 ELSE opened[t]) \in 0 .. 2
      OBVIOUS
    <3> QED BY <3>1, <3>2
  <2>3. UNCHANGED <<page, aborted, wire, belongs, published, latest>> /\ drops' \in 0 .. MaxDrops
    BY <1>11 DEF GrantExpires, Consume, RepeatRequest, CheckMember, Subscribed, Release
  <2> QED BY <2>1, <2>2, <2>3
<1>12. CASE ApiRestarts
  <2>1. stream' \in [Grants -> StreamStates]
    BY <1>12 DEF ApiRestarts, StreamStates
  <2> QED BY <1>12, <2>1 DEF ApiRestarts
<1>13. CASE Publish
  <2>1. published' \in 1 .. MaxPublished
    BY <1>13 DEF Publish
  <2>2. \A t \in Grants : wire'[t] \in {wire[t], Append(wire[t], published')}
    BY <1>13 DEF Publish
  <2>3. \A t \in Grants : wire'[t] \in Seq(1 .. MaxPublished)
    <3> SUFFICES ASSUME NEW t \in Grants PROVE Append(wire[t], published') \in Seq(1 .. MaxPublished)
      BY <2>2
    <3>1. wire[t] \in Seq(1 .. MaxPublished)
      OBVIOUS
    <3> QED BY <2>1, <3>1
  <2>4. wire' = [t \in Grants |-> wire'[t]]
    BY <1>13 DEF Publish
  <2>5. wire' \in [Grants -> Seq(1 .. MaxPublished)]
    BY <2>3, <2>4
  <2> QED BY <1>13, <2>1, <2>5 DEF Publish
<1>14. CASE LoseMembership
  BY <1>14 DEF LoseMembership
<1>15. CASE UNCHANGED liveStreamVars
  BY <1>15 DEF liveStreamVars
<1> QED
  BY <1>2, <1>3, <1>4, <1>5, <1>7, <1>8, <1>9, <1>10, <1>11, <1>12, <1>13, <1>14, <1>15
  DEF LiveStreamNext

\* A step of page c, or of the API when c has no part in it.
LEMMA OtherPages ==
  ASSUME LiveTypes, PagesSound, TokensApart, NEW c \in Clients, PageSound(c)',
         \A d \in Clients \ {c} : page'[d] = page[d],
         \A t \in Grants \ {page[c].grant} : stream[t] = "none" => stream'[t] = "none",
         aborted' \subseteq aborted \cup {page[c].grant}
  PROVE  PagesSound'
<1> SUFFICES ASSUME NEW d \in Clients \ {c} PROVE PageSound(d)'
  BY DEF PagesSound
<1>1. page'[d] = page[d] /\ PageSound(d) /\ page[d] \in LivePages
  BY DEF PagesSound, LiveTypes
<1>2. page[d].conn \in {"arriving", "open"} => page[d].grant # page[c].grant
  BY <1>1 DEF PageSound, TokensApart, NoGrant, Grants
<1> QED BY <1>1, <1>2 DEF PageSound, Mounted, LivePages

LEMMA PagesSoundKept == LiveInv /\ [LiveStreamNext]_liveStreamVars => PagesSound'
<1> SUFFICES ASSUME LiveInv, [LiveStreamNext]_liveStreamVars PROVE PagesSound'
  OBVIOUS
<1> LiveTypes /\ PagesSound /\ TokensApart /\ TokensInv
  BY DEF LiveInv
<1>0. \A c \in Clients : page[c] \in LivePages /\ PageSound(c)
  BY DEF LiveTypes, PagesSound
<1>2. ASSUME NEW c \in Clients, Mount(c) PROVE PagesSound'
  <2>1. Looks(c, "mounted", "fetch", NoGrant, {}, "reconnecting")
    BY <1>2, PageLooks
  <2>2. PageSound(c)'
    BY <2>1 DEF Looks, PageSound, Mounted
  <2> QED BY <1>2, <2>1, <2>2, OtherPages DEF Mount, apiVars, Looks
<1>3. ASSUME NEW c \in Clients, TokenArrives(c) PROVE PagesSound'
  <2>0. page[c].conn = "arriving" /\ page[c].grant \in Grants /\ page[c].sources = {}
        /\ page[c].grant \notin aborted
    BY <1>0, <1>3 DEF TokenArrives, PageSound
  <2>1. CASE Mounted(c)
    <3>1. Looks(c, "mounted", "open", page[c].grant, page[c].sources \cup {page[c].grant},
                 page[c].status)
      BY <1>3, <2>1, PageLooks
    <3>2. PageSound(c)'
      BY <1>0, <1>3, <2>0, <3>1 DEF Looks, PageSound, Mounted, TokenArrives
    <3> QED BY <1>3, <2>0, <2>1, <3>1, <3>2, OtherPages DEF TokenArrives, LiveTypes, Looks
  <2>2. CASE ~Mounted(c)
    <3>1. Looks(c, page[c].life, "idle", NoGrant, page[c].sources, page[c].status)
      BY <1>3, <2>2, PageLooks
    <3>2. PageSound(c)'
      BY <1>0, <1>3, <2>0, <3>1 DEF Looks, PageSound, Mounted, TokenArrives
    <3> QED BY <1>3, <2>2, <3>1, <3>2, OtherPages DEF TokenArrives, Looks
  <2> QED BY <2>1, <2>2
<1>4. ASSUME NEW c \in Clients, Opened(c) PROVE PagesSound'
  <2>1. Looks(c, page[c].life, page[c].conn, page[c].grant, page[c].sources, "connected")
    BY <1>4, PageLooks
  <2>2. Mounted(c)
    BY <1>0, <1>4 DEF Opened, Listens, PageSound
  <2>3. PageSound(c)'
    BY <1>0, <1>4, <2>1, <2>2 DEF Looks, PageSound, Mounted, Opened, apiVars
  <2> QED BY <1>4, <2>1, <2>3, OtherPages DEF Opened, apiVars, Looks
<1>5. ASSUME NEW c \in Clients, Reconnect(c) PROVE PagesSound'
  <2>1. Looks(c, page[c].life, "fetch", page[c].grant, page[c].sources, page[c].status)
    BY <1>5, PageLooks
  <2>2. PageSound(c)'
    BY <1>0, <1>5, <2>1 DEF Looks, PageSound, Mounted, Reconnect, apiVars
  <2> QED BY <1>5, <2>1, <2>2, OtherPages DEF Reconnect, apiVars, Looks
<1>6. ASSUME NEW c \in Clients, Later(c, {}), UNCHANGED stream,
             aborted' = aborted \/ aborted' = aborted \cup page[c].sources
      PROVE  PagesSound'
  <2>1. Looks(c, IF Mounted(c) THEN "mounted" ELSE page[c].life,
                IF Mounted(c) THEN "wait" ELSE "idle", NoGrant, {},
                IF Mounted(c) THEN "reconnecting" ELSE page[c].status)
    BY <1>6, PageLooks
  <2>2. PageSound(c)'
    BY <1>0, <2>1 DEF Looks, PageSound, Mounted
  <2>3. page[c].sources \subseteq {page[c].grant}
    BY <1>0 DEF PageSound
  <2> QED BY <1>6, <2>1, <2>2, <2>3, OtherPages DEF Looks
<1>7. ASSUME NEW c \in Clients, OnError(c) PROVE PagesSound'
  <2>1. PICK t \in Grants : /\ Listens(c, t) /\ Later(c, page[c].sources \ {t})
                            /\ aborted' = aborted \cup {t} /\ UNCHANGED stream
    BY <1>7 DEF OnError
  <2>2. page[c].sources = {t}
    BY <1>0, <2>1 DEF PageSound, Listens
  <2> QED BY <1>6, <2>1, <2>2
<1>8. ASSUME NEW c \in Clients, FetchFails(c) PROVE PagesSound'
  <2>1. page[c].sources = {}
    BY <1>0, <1>8 DEF FetchFails, PageSound
  <2> QED BY <1>6, <1>8, <2>1 DEF FetchFails, apiVars
<1>9. ASSUME NEW c \in Clients, Unmount(c) PROVE PagesSound'
  <2>1. Looks(c, "gone", IF page[c].conn \in {"fetch", "arriving"} THEN page[c].conn ELSE "idle",
              IF page[c].conn = "arriving" THEN page[c].grant ELSE NoGrant, {}, "offline")
    BY <1>9, PageLooks
  <2>2. page[c].sources \subseteq {page[c].grant} /\ (page[c].conn # "open" => page[c].sources = {})
    BY <1>0 DEF PageSound
  <2>3. UNCHANGED stream /\ aborted' = aborted \cup {t \in Grants : t \in page[c].sources}
    BY <1>9 DEF Unmount, Listens
  <2>4. page[c].conn = "arriving" => aborted' = aborted
    BY <2>2, <2>3
  <2>5. PageSound(c)'
    BY <1>0, <2>1, <2>3, <2>4 DEF Looks, PageSound, Mounted
  <2> QED BY <2>1, <2>2, <2>3, <2>5, OtherPages DEF Looks
<1>10. ASSUME NEW c \in Clients, IssueToken(c) PROVE PagesSound'
  <2>1. PICK t \in Grants : /\ t = Cardinality(Issued) + 1
                            /\ Looks(c, page[c].life, "arriving", t, page[c].sources, page[c].status)
    BY <1>10, PageLooks
  <2>2. Untouched(t)
    BY <2>1, NextTokenIsNew DEF TokensInv, UnissuedUntouched
  <2>3. page[c].conn = "fetch" /\ UNCHANGED <<stream, aborted>>
    BY <1>10 DEF IssueToken
  <2>4. PageSound(c)'
    BY <1>0, <2>1, <2>2, <2>3 DEF Looks, PageSound, Mounted, Untouched
  <2> QED BY <2>1, <2>3, <2>4, OtherPages DEF Looks
<1>11. ASSUME UNCHANGED <<page, aborted>>,
              \A t \in Grants : stream[t] = "none" => stream'[t] = "none"
       PROVE  PagesSound'
  BY <1>0, <1>11 DEF PagesSound, PageSound, Mounted
<1>12. ASSUME NEW t \in Grants, GrantExpires(t) \/ Consume(t) \/ RepeatRequest(t) \/ CheckMember(t)
                                \/ Subscribed(t) \/ Release(t)
       PROVE  PagesSound'
  BY <1>11, <1>12 DEF GrantExpires, Consume, RepeatRequest, CheckMember, Subscribed, Release,
                      LiveTypes, StreamStates
<1>13. CASE ApiRestarts
  BY <1>11, <1>13 DEF ApiRestarts
<1> QED
  BY <1>2, <1>3, <1>4, <1>5, <1>7, <1>8, <1>9, <1>10, <1>11, <1>12, <1>13
  DEF LiveStreamNext, Receive, Publish, LoseMembership, liveStreamVars, apiVars

\* No step gives a page a token but the one that makes it.
LEMMA TokensHeld ==
  ASSUME LiveInv, [LiveStreamNext]_liveStreamVars
  PROVE  \/ UNCHANGED grant /\ \A c \in Clients : page'[c].grant \in {page[c].grant, NoGrant}
         \/ UNCHANGED page
         \/ \E c \in Clients : IssueToken(c)
<1> DEFINE Fewer == \A c \in Clients : page'[c].grant \in {page[c].grant, NoGrant}
<1>0. LiveTypes /\ \A c \in Clients : page[c] \in LivePages /\ PageSound(c)
  BY DEF LiveInv, LiveTypes, PagesSound
<1>1. ASSUME NEW c \in Clients, NEW life, NEW conn, NEW S, NEW shows,
             NEW token \in {page[c].grant, NoGrant}, Looks(c, life, conn, token, S, shows)
      PROVE  Fewer
  BY <1>1 DEF Looks
<1>2. ASSUME NEW c \in Clients, Mount(c) PROVE Fewer
  BY <1>0, <1>1, <1>2, PageLooks
<1>3. ASSUME NEW c \in Clients, TokenArrives(c) PROVE Fewer
  BY <1>0, <1>1, <1>3, PageLooks
<1>4. ASSUME NEW c \in Clients, Opened(c) \/ Reconnect(c) PROVE Fewer
  BY <1>0, <1>1, <1>4, PageLooks
<1>5. ASSUME NEW c \in Clients, NEW S \in SUBSET Grants, Later(c, S) PROVE Fewer
  BY <1>0, <1>1, <1>5, PageLooks
<1>6. ASSUME NEW c \in Clients, OnError(c) \/ FetchFails(c) PROVE Fewer
  <2>1. page[c].sources \in SUBSET Grants
    BY <1>0 DEF LivePages
  <2> QED BY <1>5, <1>6, <2>1 DEF OnError, FetchFails
<1>7. ASSUME NEW c \in Clients, Unmount(c) PROVE Fewer
  <2>1. Looks(c, "gone", IF page[c].conn \in {"fetch", "arriving"} THEN page[c].conn ELSE "idle",
              IF page[c].conn = "arriving" THEN page[c].grant ELSE NoGrant, {}, "offline")
    BY <1>0, <1>7, PageLooks
  <2> QED BY <2>1 DEF Looks
<1> QED
  BY <1>2, <1>3, <1>4, <1>6, <1>7
  DEF LiveStreamNext, Mount, TokenArrives, Opened, Reconnect, OnError, FetchFails, Unmount,
      Receive, GrantExpires, Consume, RepeatRequest, CheckMember, Subscribed, Release, ApiRestarts,
      Publish, LoseMembership, liveStreamVars, apiVars

LEMMA TokensApartKept == ASSUME LiveInv, [LiveStreamNext]_liveStreamVars PROVE TokensApart'
<1> USE DEF LiveInv
<1>1. ASSUME NEW c \in Clients, IssueToken(c) PROVE TokensApart'
  <2>1. PICK t \in Grants :
          /\ t = Cardinality(Issued) + 1
          /\ Looks(c, page[c].life, "arriving", t, page[c].sources, page[c].status)
    BY <1>1, PageLooks
  <2>2. \A d \in Clients : page[d].grant # t
    BY <2>1, NextTokenIsNew DEF TokensInv, UnissuedUntouched, Untouched
  <2> QED BY <2>1, <2>2 DEF TokensApart, Looks
<1> QED BY <1>1, TokensHeld DEF TokensApart

\* What a step of the stream does to a token nobody has.
LEMMA TokensInvKept == ASSUME LiveInv, [LiveStreamNext]_liveStreamVars PROVE TokensInv'
<1> LiveTypes /\ PagesSound /\ TokensApart /\ InSequence /\ UnissuedUntouched /\ OpenedOnce
  BY DEF LiveInv, TokensInv
<1>0. \A c \in Clients : page[c] \in LivePages /\ PageSound(c)
  BY DEF LiveTypes, PagesSound
<1>1. ASSUME NEW c \in Clients, IssueToken(c) PROVE TokensInv'
  <2>1. PICK t \in Grants :
          /\ t = Cardinality(Issued) + 1 /\ grant' = [grant EXCEPT ![t] = "live"]
          /\ Looks(c, page[c].life, "arriving", t, page[c].sources, page[c].status)
    BY <1>1, PageLooks
  <2>2. grant[t] = "none" /\ Issued \cup {t} = 1 .. t
    BY <2>1, NextTokenIsNew
  <2>3. \A u \in Grants : grant'[u] = IF u = t THEN "live" ELSE grant[u]
    BY <2>1 DEF LiveTypes
  <2>4. InSequence'
    <3>1. Issued' = Issued \cup {t}
      BY <2>3 DEF Issued
    <3>2. t \in 0 .. MaxGrants
      BY LiveStreamAssumption DEF Grants
    <3> QED BY <2>2, <3>1, <3>2 DEF InSequence
  <2>5. UNCHANGED <<stream, opened, aborted>>
    BY <1>1 DEF IssueToken
  <2>6. UnissuedUntouched'
    BY <2>1, <2>3, <2>5 DEF UnissuedUntouched, Untouched, Looks
  <2>7. OpenedOnce'
    BY <2>2, <2>3, <2>5 DEF OpenedOnce, UnissuedUntouched, Untouched
  <2> QED BY <2>4, <2>6, <2>7 DEF TokensInv
<1>2. ASSUME \A t \in Grants : (grant'[t] = "none") = (grant[t] = "none") PROVE InSequence'
  BY <1>2 DEF InSequence, Issued
<1>3. ASSUME UNCHANGED <<grant, opened>>,
             \A c \in Clients : page'[c].grant \in {page[c].grant, NoGrant},
             \A t \in Grants : grant[t] = "none" => stream'[t] = stream[t],
             \A t \in Grants : t \in aborted' \ aborted => grant[t] # "none"
      PROVE  TokensInv'
  <2>1. UnissuedUntouched'
    BY <1>3 DEF UnissuedUntouched, Untouched, NoGrant, Grants
  <2> QED BY <1>2, <1>3, <2>1 DEF TokensInv, OpenedOnce
<1>4. \A c \in Clients : /\ page[c].grant \in Grants => grant[page[c].grant] # "none"
                         /\ \A t \in page[c].sources : grant[t] # "none"
  BY <1>0 DEF UnissuedUntouched, Untouched, PageSound, LivePages
<1>5. ASSUME \/ \E c \in Clients : \/ Mount(c) \/ TokenArrives(c) \/ Opened(c) \/ Receive(c)
                                   \/ OnError(c) \/ FetchFails(c) \/ Reconnect(c) \/ Unmount(c)
             \/ ApiRestarts \/ Publish \/ LoseMembership \/ UNCHANGED liveStreamVars
      PROVE  TokensInv'
  <2>1. UNCHANGED <<grant, opened>>
    BY <1>5 DEF Mount, TokenArrives, Opened, Receive, OnError, FetchFails, Reconnect, Unmount,
                ApiRestarts, Publish, LoseMembership, liveStreamVars, apiVars
  <2>2. \A t \in Grants : t \in aborted' \ aborted => grant[t] # "none"
    BY <1>4, <1>5
    DEF Mount, TokenArrives, Opened, Receive, OnError, FetchFails, Reconnect, Unmount,
        ApiRestarts, Publish, LoseMembership, liveStreamVars, apiVars, Listens
  <2>3. \A t \in Grants : grant[t] = "none" => stream'[t] = stream[t]
    <3>1. ASSUME NEW c \in Clients, TokenArrives(c), NEW t \in Grants, grant[t] = "none"
          PROVE  stream'[t] = stream[t]
      BY <1>0, <1>4, <3>1 DEF TokenArrives, PageSound, LiveTypes
    <3>2. CASE ApiRestarts
      BY <3>2 DEF ApiRestarts, UnissuedUntouched, Untouched
    <3> QED BY <1>5, <3>1, <3>2
            DEF Mount, Opened, Receive, OnError, FetchFails, Reconnect, Unmount,
                Publish, LoseMembership, liveStreamVars, apiVars
  <2>4. \A c \in Clients : page'[c].grant \in {page[c].grant, NoGrant}
    <3>1. \A c \in Clients : ~IssueToken(c) \/ UNCHANGED page
      BY <2>1, NextTokenIsNew DEF IssueToken, LiveTypes
    <3> QED BY <3>1, TokensHeld
  <2> QED BY <1>3, <2>1, <2>2, <2>3, <2>4
<1>6. ASSUME NEW t \in Grants, grant[t] # "none", grant' = grant \/ grant' = [grant EXCEPT ![t] = "used"]
                                \/ grant' = [grant EXCEPT ![t] = "expired"],
             \/ UNCHANGED opened
             \/ /\ grant[t] = "live" /\ grant'[t] = "used"
                /\ opened' = [opened EXCEPT ![t] = IF @ < 2 THEN @ + 1 ELSE @],
             UNCHANGED <<page, aborted>>, \A u \in Grants \ {t} : stream'[u] = stream[u]
      PROVE  TokensInv'
  <2>1. \A u \in Grants : /\ (grant'[u] = "none") = (grant[u] = "none")
                          /\ grant'[u] = "live" => grant[u] = "live"
    BY <1>6 DEF LiveTypes
  <2>2. \A u \in Grants \ {t} : grant'[u] = grant[u] /\ opened'[u] = opened[u]
    BY <1>6 DEF LiveTypes
  <2>3. opened'[t] <= 1 /\ (grant'[t] = "live" => opened'[t] = 0)
    BY <1>6, <2>1 DEF LiveTypes, OpenedOnce
  <2>4. OpenedOnce'
    BY <2>2, <2>3 DEF OpenedOnce
  <2>5. UnissuedUntouched'
    BY <1>6, <2>1, <2>2 DEF UnissuedUntouched, Untouched
  <2> QED BY <1>2, <2>1, <2>4, <2>5 DEF TokensInv
<1>7. ASSUME NEW t \in Grants, GrantExpires(t) \/ Consume(t) \/ RepeatRequest(t) \/ CheckMember(t)
                                \/ Subscribed(t) \/ Release(t)
      PROVE  TokensInv'
  <2>1. grant[t] # "none"
    BY <1>7 DEF GrantExpires, Consume, RepeatRequest, CheckMember, Subscribed, Release,
                UnissuedUntouched, Untouched
  <2>2. \A u \in Grants \ {t} : stream'[u] = stream[u]
    BY <1>7 DEF GrantExpires, Consume, RepeatRequest, CheckMember, Subscribed, Release, LiveTypes
  <2> QED BY <1>6, <1>7, <2>1, <2>2
          DEF GrantExpires, Consume, RepeatRequest, CheckMember, Subscribed, Release, LiveTypes
<1> QED BY <1>1, <1>5, <1>7 DEF LiveStreamNext

Served == {"request", "check", "subscribe", "attached"}

LEMMA StreamsServedKept == ASSUME LiveInv, [LiveStreamNext]_liveStreamVars PROVE StreamsServed'
<1> LiveTypes /\ StreamsServed
  BY DEF LiveInv
<1>0. \A c \in Clients : page[c] \in LivePages /\ PageSound(c)
  BY DEF LiveInv, LiveTypes, PagesSound
<1> DEFINE Stays(c) == page'[c].sources = page[c].sources /\ (Mounted(c) => Mounted(c)')
           Listened(t) == \E c \in Clients : Mounted(c) /\ Listens(c, t)
\* A stream that is served was served, or its page has come; a page that leaves aborts it.
<1>1. ASSUME \A t \in Grants : stream'[t] \in Served =>
               \/ t \in aborted'
               \/ \E c \in Clients : Mounted(c)' /\ Listens(c, t)'
               \/ /\ stream[t] \in Served
                  /\ \A c \in Clients : Mounted(c) /\ Listens(c, t) => Stays(c),
             aborted \subseteq aborted'
      PROVE  StreamsServed'
  BY <1>1 DEF StreamsServed, Listens, Served
<1>2. ASSUME NEW c \in Clients, TokenArrives(c) PROVE StreamsServed'
  <2>0. page[c].grant \in Grants
    BY <1>0, <1>2 DEF TokenArrives, PageSound
  <2>1. CASE Mounted(c)
    <3>1. Looks(c, "mounted", "open", page[c].grant, page[c].sources \cup {page[c].grant},
                page[c].status)
      BY <1>2, <2>1, PageLooks
    <3>2. \A t \in Grants \ {page[c].grant} : stream'[t] = stream[t]
      BY <1>2, <2>0, <2>1 DEF TokenArrives, LiveTypes
    <3>3. Mounted(c)' /\ page[c].grant \in page'[c].sources
      BY <3>1 DEF Looks, Mounted, Listens
    <3>4. \A d \in Clients : \A t \in page[d].sources : t \in page'[d].sources
      BY <3>1 DEF Looks
    <3>5. \A d \in Clients : Mounted(d) => Mounted(d)'
      BY <3>1 DEF Looks, Mounted
    <3>6. \A d \in Clients, t \in Grants : Mounted(d) /\ Listens(d, t) => Mounted(d)' /\ Listens(d, t)'
      BY <3>4, <3>5 DEF Listens
    <3>7. aborted' = aborted
      BY <1>2 DEF TokenArrives
    <3> SUFFICES ASSUME NEW t \in Grants, stream'[t] \in Served
                 PROVE  t \in aborted' \/ \E d \in Clients : Mounted(d)' /\ Listens(d, t)'
      BY DEF StreamsServed, Served
    <3>8. CASE t = page[c].grant
      BY <3>3, <3>8 DEF Listens
    <3>9. CASE t # page[c].grant
      BY <3>2, <3>6, <3>7, <3>9 DEF StreamsServed, Served
    <3> QED BY <3>8, <3>9
  <2>2. CASE ~Mounted(c)
    <3>1. Looks(c, page[c].life, "idle", NoGrant, page[c].sources, page[c].status)
      BY <1>2, <2>2, PageLooks
    <3>2. \A d \in Clients : Stays(d)
      BY <3>1 DEF Looks, Mounted
    <3> QED BY <1>1, <1>2, <2>2, <3>2 DEF TokenArrives, StreamsServed, Served
  <2> QED BY <2>1, <2>2
<1>3. ASSUME \A d \in Clients : Stays(d),
             \A t \in Grants : stream'[t] \in Served => stream[t] \in Served,
             UNCHANGED aborted
      PROVE  StreamsServed'
  BY <1>1, <1>3
<1>4. ASSUME NEW c \in Clients, Mount(c) PROVE StreamsServed'
  <2>1. Looks(c, "mounted", "fetch", NoGrant, {}, "reconnecting")
    BY <1>4, PageLooks
  <2>2. page[c].sources = {}
    BY <1>0, <1>4 DEF Mount, PageSound
  <2>3. \A d \in Clients : Stays(d)
    BY <2>1, <2>2 DEF Looks, Mounted
  <2> QED BY <1>3, <1>4, <2>3 DEF Mount, apiVars
<1>5. ASSUME NEW c \in Clients, Opened(c) \/ Reconnect(c) \/ IssueToken(c) PROVE StreamsServed'
  <2>1. \A d \in Clients : Stays(d)
    BY <1>5, PageLooks DEF Looks, Mounted
  <2> QED BY <1>3, <1>5, <2>1 DEF Opened, Reconnect, IssueToken, apiVars
<1>6. ASSUME NEW c \in Clients, NEW S \in SUBSET Grants, Later(c, S)
      PROVE  /\ page'[c].sources = S /\ (Mounted(c) => Mounted(c)')
             /\ \A d \in Clients \ {c} : Stays(d)
  BY <1>6, PageLooks DEF Looks, Mounted
<1>7. ASSUME NEW c \in Clients, OnError(c) PROVE StreamsServed'
  <2>1. PICK t \in Grants : /\ Listens(c, t) /\ Later(c, page[c].sources \ {t})
                            /\ aborted' = aborted \cup {t} /\ UNCHANGED stream
    BY <1>7 DEF OnError
  <2>2. page[c].sources = {t}
    BY <1>0, <2>1 DEF PageSound, Listens
  <2>3. {} \in SUBSET Grants /\ Later(c, {})
    BY <2>1, <2>2
  <2>4. \A d \in Clients \ {c} : Stays(d)
    BY <1>6, <2>3
  <2> QED BY <1>1, <2>1, <2>2, <2>4 DEF Listens, StreamsServed, Served
<1>8. ASSUME NEW c \in Clients, FetchFails(c) PROVE StreamsServed'
  <2>1. page[c].sources \in SUBSET Grants /\ Later(c, page[c].sources)
    BY <1>0, <1>8 DEF FetchFails, LivePages
  <2>2. \A d \in Clients : Stays(d)
    BY <1>6, <2>1
  <2> QED BY <1>3, <1>8, <2>2 DEF FetchFails, apiVars
<1>9. ASSUME NEW c \in Clients, Unmount(c) PROVE StreamsServed'
  <2>1. \A d \in Clients \ {c} : Stays(d)
    BY <1>9, PageLooks DEF Looks, Mounted
  <2>2. UNCHANGED stream /\ aborted' = aborted \cup {t \in Grants : Listens(c, t)}
    BY <1>9 DEF Unmount
  <2> QED BY <1>1, <2>1, <2>2 DEF StreamsServed, Served
<1>10. ASSUME UNCHANGED <<page, aborted>>,
              \A t \in Grants : stream'[t] \in Served => stream[t] \in Served
       PROVE  StreamsServed'
  BY <1>3, <1>10 DEF Mounted
<1>11. ASSUME NEW t \in Grants, GrantExpires(t) \/ Consume(t) \/ RepeatRequest(t) \/ CheckMember(t)
                                \/ Subscribed(t) \/ Release(t)
       PROVE  StreamsServed'
  BY <1>10, <1>11 DEF GrantExpires, Consume, RepeatRequest, CheckMember, Subscribed, Release,
                      LiveTypes, Served
<1>12. CASE ApiRestarts
  BY <1>10, <1>12 DEF ApiRestarts, Served
<1> QED
  BY <1>2, <1>4, <1>5, <1>7, <1>8, <1>9, <1>10, <1>11, <1>12
  DEF LiveStreamNext, Receive, Publish, LoseMembership, liveStreamVars, apiVars

LEMMA TailAt ==
  ASSUME NEW S, NEW s \in Seq(S), s # <<>>
  PROVE  \A i \in 1 .. Len(Tail(s)) : i + 1 \in 1 .. Len(s) /\ Tail(s)[i] = s[i + 1]
OBVIOUS

LEMMA ElementAt == ASSUME NEW S, NEW s \in Seq(S), NEW i \in 1 .. Len(s) PROVE s[i] \in S
OBVIOUS

LEMMA ReceivedLater ==
  ASSUME LiveInv, NEW c \in Clients, Receive(c) PROVE EventsInOrder' /\ latest'[c] >= latest[c]
<1> LiveTypes /\ EventsInOrder
  BY DEF LiveInv
<1>0. /\ \A d \in Clients : page[d] \in LivePages /\ PageSound(d)
      /\ \A t \in Grants : wire[t] \in Seq(1 .. MaxPublished) /\ Coming(t)
      /\ \A d \in Clients : latest[d] \in Nat /\ latest[d] <= published
      /\ published \in Nat
  BY LiveStreamAssumption DEF LiveInv, LiveTypes, PagesSound, EventsInOrder
<1>1. PICK t \in Grants : /\ Listens(c, t) /\ wire[t] # <<>>
                          /\ latest' = [latest EXCEPT ![c] = Head(wire[t])]
                          /\ wire' = [wire EXCEPT ![t] = Tail(wire[t])]
                          /\ UNCHANGED <<page, stream, published>>
  BY DEF Receive
<1>2. /\ wire'[t] = Tail(wire[t]) /\ \A u \in Grants \ {t} : wire'[u] = wire[u]
      /\ latest'[c] = wire[t][1] /\ \A d \in Clients \ {c} : latest'[d] = latest[d]
      /\ 1 \in 1 .. Len(wire[t])
  BY <1>0, <1>1 DEF LiveTypes
<1>3. \A i \in 1 .. Len(wire'[t]) : i + 1 \in 1 .. Len(wire[t]) /\ wire'[t][i] = wire[t][i + 1]
  <2>1. wire[t] \in Seq(1 .. MaxPublished) /\ wire[t] # <<>>
    BY <1>0, <1>1
  <2>2. \A i \in 1 .. Len(Tail(wire[t])) :
          i + 1 \in 1 .. Len(wire[t]) /\ Tail(wire[t])[i] = wire[t][i + 1]
    BY <2>1, TailAt, Zenon
  <2> QED BY <1>2, <2>2
<1>4. \A u \in Grants \ {t} : ~Listens(c, u)
  BY <1>0, <1>1 DEF Listens, PageSound
<1>5. \A d \in Clients \ {c} : ~Listens(d, t)
  BY <1>0, <1>1 DEF Listens, PageSound, LiveInv, TokensApart, NoGrant, Grants
<1>6. Coming(t)'
  <2>1. \A i \in 1 .. Len(wire'[t]) : wire'[t][i] <= published /\ latest'[c] <= wire'[t][i]
    BY <1>0, <1>2, <1>3 DEF Coming
  <2>2. ASSUME NEW i \in 1 .. Len(wire'[t]), NEW k \in 1 .. Len(wire'[t]), i < k
        PROVE  wire'[t][i] <= wire'[t][k]
    <3>1. i + 1 < k + 1 /\ i + 1 \in 1 .. Len(wire[t]) /\ k + 1 \in 1 .. Len(wire[t])
      BY <1>3, <2>2
    <3> QED BY <1>0, <1>3, <3>1 DEF Coming
  <2>3. stream[t] # "none"
    BY <1>0, <1>1 DEF Coming
  <2> QED BY <1>1, <1>5, <2>1, <2>2, <2>3 DEF Coming, Listens
<1>7. \A u \in Grants \ {t} : Coming(u)'
  <2> SUFFICES ASSUME NEW u \in Grants \ {t} PROVE Coming(u)'
    OBVIOUS
  <2>1. Coming(u) /\ wire'[u] = wire[u] /\ ~Listens(c, u)
    BY <1>0, <1>2, <1>4
  <2>2. \A d \in Clients : Listens(d, u)' => Listens(d, u) /\ latest'[d] = latest[d]
    BY <1>1, <1>2, <2>1 DEF Listens
  <2> QED BY <1>1, <2>1, <2>2 DEF Coming
<1>8. latest'[c] <= published /\ latest[c] <= latest'[c]
  BY <1>0, <1>1, <1>2 DEF Coming
<1> QED BY <1>0, <1>1, <1>2, <1>6, <1>7, <1>8 DEF EventsInOrder, LiveTypes

LEMMA EventsInOrderKept == ASSUME LiveInv, [LiveStreamNext]_liveStreamVars PROVE EventsInOrder'
<1> LiveTypes /\ EventsInOrder
  BY DEF LiveInv
<1>0. /\ \A c \in Clients : page[c] \in LivePages /\ PageSound(c)
      /\ \A t \in Grants : wire[t] \in Seq(1 .. MaxPublished) /\ Coming(t)
      /\ \A c \in Clients : latest[c] \in Nat /\ latest[c] <= published
      /\ published \in Nat
  BY LiveStreamAssumption DEF LiveInv, LiveTypes, PagesSound, EventsInOrder
<1>1. ASSUME UNCHANGED <<wire, published, latest>>,
             \A t \in Grants : stream'[t] = "none" => stream[t] = "none",
             \A c \in Clients, t \in Grants :
               Listens(c, t)' => Listens(c, t) \/ wire[t] = <<>>
      PROVE  EventsInOrder'
  BY <1>0, <1>1 DEF EventsInOrder, Coming
<1>2. ASSUME UNCHANGED <<wire, published, latest>>,
             \A t \in Grants : stream'[t] = "none" => stream[t] = "none", UNCHANGED page
      PROVE  EventsInOrder'
  BY <1>1, <1>2 DEF Listens
<1>3. ASSUME NEW c \in Clients, Mount(c) \/ Opened(c) \/ Reconnect(c) \/ IssueToken(c)
      PROVE  EventsInOrder'
  <2>1. \A d \in Clients : page'[d].sources \subseteq page[d].sources
    BY <1>0, <1>3, PageLooks DEF Looks
  <2> QED BY <1>1, <1>3, <2>1 DEF Listens, Mount, Opened, Reconnect, IssueToken, apiVars, restVars
<1>4. ASSUME NEW c \in Clients, TokenArrives(c) PROVE EventsInOrder'
  <2>0. page[c].grant \in Grants /\ stream[page[c].grant] = "none"
    BY <1>0, <1>4 DEF TokenArrives, PageSound
  <2>1. wire[page[c].grant] = <<>>
    BY <1>0, <2>0 DEF Coming
  <2>2. /\ page'[c].sources \subseteq page[c].sources \cup {page[c].grant}
        /\ \A d \in Clients \ {c} : page'[d] = page[d]
    BY <1>4, PageLooks DEF Looks
  <2>3. \A t \in Grants : stream'[t] = "none" => stream[t] = "none"
    BY <1>4, <2>0 DEF TokenArrives, LiveTypes
  <2>4. \A d \in Clients, t \in Grants : Listens(d, t)' => Listens(d, t) \/ wire[t] = <<>>
    BY <2>1, <2>2 DEF Listens
  <2> QED BY <1>1, <1>4, <2>3, <2>4 DEF TokenArrives, restVars
<1>5. ASSUME UNCHANGED <<stream, published, latest>>,
             \A t \in Grants : wire'[t] \in {wire[t], <<>>},
             \A d \in Clients : page'[d].sources \subseteq page[d].sources
      PROVE  EventsInOrder'
  <2>1. \A t \in Grants : Coming(t)'
    BY <1>0, <1>5 DEF Coming, Listens
  <2> QED BY <1>0, <1>5, <2>1 DEF EventsInOrder
<1>6. ASSUME NEW c \in Clients, NEW S \in SUBSET page[c].sources, Later(c, S)
      PROVE  \A d \in Clients : page'[d].sources \subseteq page[d].sources
  <2>1. S \in SUBSET Grants
    BY <1>0 DEF LivePages
  <2> QED BY <1>6, <2>1, PageLooks DEF Looks
<1>7. ASSUME NEW c \in Clients, OnError(c) \/ FetchFails(c) \/ Unmount(c) PROVE EventsInOrder'
  <2>1. \A d \in Clients : page'[d].sources \subseteq page[d].sources
    <3>1. Unmount(c) => \A d \in Clients : page'[d].sources \subseteq page[d].sources
      BY PageLooks DEF Looks
    <3> QED BY <1>6, <1>7, <3>1 DEF OnError, FetchFails
  <2>2. \A t \in Grants : wire'[t] \in {wire[t], <<>>}
    BY <1>7 DEF OnError, FetchFails, Unmount, apiVars, LiveTypes
  <2> QED BY <1>5, <1>7, <2>1, <2>2 DEF OnError, FetchFails, Unmount, apiVars, restVars
<1>8. ASSUME NEW c \in Clients, Receive(c) PROVE EventsInOrder'
  BY <1>8, ReceivedLater
<1>9. CASE Publish
  <2>1. published' = published + 1 /\ UNCHANGED <<page, stream, latest>>
    BY <1>9 DEF Publish
  <2>2. \A t \in Grants : wire'[t] = IF stream[t] = "attached" /\ t \notin aborted
                                     THEN Append(wire[t], published + 1) ELSE wire[t]
    BY <1>9, <2>1 DEF Publish
  <2>3. ASSUME NEW t \in Grants PROVE Coming(t)'
    <3>1. CASE wire'[t] = wire[t]
      <4>1. \A n \in 1 .. MaxPublished : n \in Nat
        OBVIOUS
      <4>2. \A i \in 1 .. Len(wire[t]) : wire[t][i] \in 1 .. MaxPublished
        BY <1>0, ElementAt, Zenon
      <4>3. \A i \in 1 .. Len(wire'[t]) : wire'[t][i] <= published'
        <5> SUFFICES ASSUME NEW i \in 1 .. Len(wire[t]) PROVE wire[t][i] <= published + 1
          BY <2>1, <3>1
        <5>1. wire[t][i] \in Nat /\ wire[t][i] <= published
          BY <1>0, <4>1, <4>2 DEF Coming
        <5> QED BY <1>0, <5>1
      <4> QED BY <1>0, <2>1, <3>1, <4>3 DEF Coming, Listens
    <3>2. CASE stream[t] = "attached" /\ wire'[t] = Append(wire[t], published + 1)
      <4>1. Len(wire[t]) \in Nat /\ Len(wire'[t]) = Len(wire[t]) + 1
            /\ wire'[t][Len(wire[t]) + 1] = published + 1
            /\ \A i \in 1 .. Len(wire[t]) : wire'[t][i] = wire[t][i] /\ wire[t][i] \in Nat
        <5>1. \A n \in 1 .. MaxPublished : n \in Nat
          OBVIOUS
        <5>2. PICK s \in Seq(1 .. MaxPublished) : s = wire[t]
          BY <1>0
        <5>3. PICK e : e = published + 1
          OBVIOUS
        <5>4. /\ Len(s) \in Nat /\ Len(Append(s, e)) = Len(s) + 1
              /\ Append(s, e)[Len(s) + 1] = e
              /\ \A i \in 1 .. Len(s) : Append(s, e)[i] = s[i]
          OBVIOUS
        <5>6. \A i \in 1 .. Len(s) : s[i] \in 1 .. MaxPublished
          BY ElementAt, Zenon
        <5>5. wire'[t] = Append(s, e)
          BY <3>2, <5>2, <5>3, Zenon
        <5> QED BY <5>1, <5>2, <5>3, <5>4, <5>5, <5>6
      <4>2. \A i \in 1 .. Len(wire'[t]) : i \in 1 .. Len(wire[t]) \/ wire'[t][i] = published + 1
        BY <4>1
      <4>3. \A i \in 1 .. Len(wire'[t]) : wire'[t][i] <= published'
        <5> SUFFICES ASSUME NEW i \in 1 .. Len(wire'[t]) PROVE wire'[t][i] <= published + 1
          BY <2>1
        <5>1. CASE i \in 1 .. Len(wire[t])
          <6>1. wire'[t][i] = wire[t][i] /\ wire[t][i] \in Nat /\ wire[t][i] <= published
            BY <1>0, <4>1, <5>1 DEF Coming
          <6> QED BY <1>0, <6>1
        <5>2. CASE wire'[t][i] = published + 1
          BY <1>0, <5>2
        <5> QED BY <4>2, <5>1, <5>2
      <4>4. \A i, k \in 1 .. Len(wire'[t]) : i < k => wire'[t][i] <= wire'[t][k]
        <5> SUFFICES ASSUME NEW i \in 1 .. Len(wire'[t]), NEW k \in 1 .. Len(wire'[t]), i < k
                     PROVE  wire'[t][i] <= wire'[t][k]
          OBVIOUS
        <5>1. CASE k \in 1 .. Len(wire[t])
          <6>1. i \in 1 .. Len(wire[t])
            BY <4>1, <5>1
          <6>2. wire[t][i] <= wire[t][k]
            BY <1>0, <5>1, <6>1 DEF Coming
          <6> QED BY <4>1, <5>1, <6>1, <6>2
        <5>2. CASE wire'[t][k] = published + 1
          BY <2>1, <4>3, <5>2
        <5> QED BY <4>2, <5>1, <5>2
      <4>5. ASSUME NEW c \in Clients, Listens(c, t), NEW i \in 1 .. Len(wire'[t])
            PROVE  latest[c] <= wire'[t][i]
        BY <1>0, <4>1, <4>2, <4>5 DEF Coming
      <4> QED BY <2>1, <3>2, <4>3, <4>4, <4>5 DEF Coming, Listens
    <3> QED BY <2>2, <3>1, <3>2
  <2> QED BY <1>0, <2>1, <2>3 DEF EventsInOrder
<1>10. ASSUME NEW t \in Grants, GrantExpires(t) \/ Consume(t) \/ RepeatRequest(t) \/ CheckMember(t)
                                \/ Subscribed(t) \/ Release(t)
       PROVE  EventsInOrder'
  BY <1>2, <1>10 DEF GrantExpires, Consume, RepeatRequest, CheckMember, Subscribed, Release,
                     restVars, LiveTypes
<1>11. CASE ApiRestarts
  BY <1>2, <1>11 DEF ApiRestarts, restVars
<1> QED
  BY <1>2, <1>3, <1>4, <1>7, <1>8, <1>9, <1>10, <1>11
  DEF LiveStreamNext, LoseMembership, liveStreamVars, apiVars

LEMMA LiveStep == LiveInv /\ [LiveStreamNext]_liveStreamVars => LiveInv'
BY LiveTypesKept, PagesSoundKept, TokensApartKept, TokensInvKept, StreamsServedKept,
   EventsInOrderKept DEF LiveInv

LEMMA LiveInvariant == LiveStreamSpec => []LiveInv
BY LiveInitial, LiveStep, PTL DEF LiveStreamSpec

\* Every variable keeps its type.
THEOREM LiveStreamTypes == LiveStreamSpec => []LiveStreamTypeOK
<1>1. LiveInv => LiveStreamTypeOK
  BY DEF LiveInv, LiveTypes, LivePages, GrantStates, StreamStates, LiveStreamTypeOK
<1> QED BY <1>1, LiveInvariant, PTL

LEMMA OneConnectionOf == LiveInv => OneConnection
<1> SUFFICES ASSUME LiveInv PROVE OneConnection
  OBVIOUS
<1>1. ASSUME NEW c \in Clients
      PROVE  /\ Cardinality(page[c].sources) <= 1
             /\ page[c].life = "gone" => page[c].sources = {} /\ page[c].status = "offline"
  <2>1. PageSound(c) /\ page[c] \in LivePages
    BY DEF LiveInv, LiveTypes, PagesSound
  <2>2. page[c].sources = {} \/ page[c].sources = {page[c].grant}
    BY <2>1 DEF PageSound
  <2>3. Cardinality({}) = 0 /\ Cardinality({page[c].grant}) = 1
    BY FS_EmptySet, FS_Singleton
  <2>4. Cardinality(page[c].sources) \in {0, 1}
    BY <2>2, <2>3
  <2>5. page[c].life = "gone" => page[c].sources = {} /\ page[c].status = "offline"
    BY <2>1 DEF PageSound, Mounted
  <2> QED BY <2>4, <2>5
<1> QED BY <1>1 DEF LiveInv, TokensInv, OpenedOnce, StreamsServed, OneConnection

\* For any number of pages, tokens and failures: a token opens one stream at most, a page has
\* one connection at most and none once it is gone, and the API works on no stream that
\* neither has its page nor is on its way to be closed.
THEOREM OneConnectionEach == LiveStreamSpec => []OneConnection
BY OneConnectionOf, LiveInvariant, PTL

\* Across reconnections, of pages side by side, a page never sees an event after a later one.
THEOREM EventsForward ==
  LiveStreamSpec => [][\A c \in Clients : latest'[c] >= latest[c]]_liveStreamVars
<1>1. LiveInv /\ [LiveStreamNext]_liveStreamVars =>
        [\A c \in Clients : latest'[c] >= latest[c]]_liveStreamVars
  <2> SUFFICES ASSUME LiveInv, LiveStreamNext, NEW c \in Clients PROVE latest'[c] >= latest[c]
    OBVIOUS
  <2>1. latest[c] \in Nat /\ latest \in [Clients -> 0 .. MaxPublished]
    BY LiveStreamAssumption DEF LiveInv, LiveTypes
  <2>2. CASE UNCHANGED latest
    BY <2>1, <2>2
  <2>3. ASSUME NEW d \in Clients, Receive(d) PROVE latest'[c] >= latest[c]
    <3>1. latest'[d] >= latest[d]
      BY <2>3, ReceivedLater
    <3>2. c # d => latest'[c] = latest[c]
      BY <2>1, <2>3 DEF Receive
    <3> QED BY <2>1, <3>1, <3>2
  <2> QED
    BY <2>2, <2>3
    DEF LiveStreamNext, Mount, TokenArrives, Opened, OnError, FetchFails, Reconnect, Unmount,
        IssueToken, GrantExpires, Consume, RepeatRequest, CheckMember, Subscribed, Release,
        ApiRestarts, Publish, LoseMembership, restVars
<1> QED BY <1>1, LiveInvariant, PTL DEF LiveStreamSpec

\* A page that stays is connecting or connected, and it asked for what it listens to.
Connecting(c) ==
  /\ Mounted(c) => page[c].conn # "idle"
  /\ page[c].conn = "open" => page[c].grant \in page[c].sources
  /\ \A t \in page[c].sources : stream[t] # "none"
PagesConnect == \A c \in Clients : Connecting(c)

LEMMA PagesConnectInit == LiveStreamInit => PagesConnect
BY DEF LiveStreamInit, NewPage, PagesConnect, Connecting, Mounted

LEMMA PagesConnectStep ==
  ASSUME LiveInv, PagesConnect, [LiveStreamNext]_liveStreamVars PROVE PagesConnect'
<1> LiveTypes /\ PagesSound
  BY DEF LiveInv
<1> USE DEF apiVars, restVars
\* Page c looks another way, and no stream is taken back.
<1>a. ASSUME \A t \in Grants : stream[t] # "none" => stream'[t] # "none",
             NEW c \in Clients, NEW life, NEW conn, NEW token, NEW sources, NEW shows,
             Looks(c, life, conn, token, sources, shows),
             life = "mounted" => conn # "idle", conn = "open" => token \in sources,
             \A t \in sources : stream'[t] # "none"
      PROVE  PagesConnect'
  <2>1. Connecting(c)'
    BY <1>a DEF Looks, Connecting, Mounted
  <2>2. ASSUME NEW d \in Clients \ {c} PROVE Connecting(d)'
    <3>1. page'[d] = page[d] /\ Connecting(d) /\ page[d].sources \subseteq Grants
      BY <1>a DEF Looks, PagesConnect, LiveTypes, LivePages
    <3> QED BY <1>a, <3>1 DEF Connecting, Mounted
  <2> QED BY <2>1, <2>2 DEF PagesConnect
<1>0. ASSUME NEW c \in Clients
      PROVE  /\ Connecting(c) /\ PageSound(c)
             /\ page[c].grant \in Grants \cup {NoGrant} /\ page[c].sources \in SUBSET Grants
  BY DEF PagesConnect, PagesSound, LiveTypes, LivePages
<1>1. ASSUME NEW c \in Clients, Mount(c) \/ Reconnect(c) \/ Opened(c) PROVE PagesConnect'
  <2>1. stream' = stream
    BY <1>1 DEF Mount, Reconnect, Opened
  <2>2. CASE Mount(c)
    <3>1. Looks(c, "mounted", "fetch", NoGrant, {}, "reconnecting")
      BY <2>2, PageLooks
    <3> QED BY <1>a, <2>1, <3>1
  <2>3. CASE Reconnect(c)
    <3>1. Looks(c, page[c].life, "fetch", page[c].grant, page[c].sources, page[c].status)
      BY <2>3, PageLooks
    <3>2. \A t \in page[c].sources : stream'[t] # "none"
      BY <1>0, <2>1 DEF Connecting
    <3> QED BY <1>a, <2>1, <3>1, <3>2
  <2>4. CASE Opened(c)
    <3>1. Looks(c, page[c].life, page[c].conn, page[c].grant, page[c].sources, "connected")
      BY <2>4, PageLooks
    <3>2. /\ \A t \in page[c].sources : stream'[t] # "none"
          /\ page[c].life = "mounted" => page[c].conn # "idle"
          /\ page[c].conn = "open" => page[c].grant \in page[c].sources
      BY <1>0, <2>1 DEF Connecting, Mounted
    <3> QED BY <1>a, <2>1, <3>1, <3>2
  <2> QED BY <1>1, <2>2, <2>3, <2>4
<1>2. ASSUME NEW c \in Clients, TokenArrives(c) PROVE PagesConnect'
  <2>1. CASE Mounted(c)
    <3>1. stream' = [stream EXCEPT ![page[c].grant] = "request"] /\ page[c].conn = "arriving"
      BY <1>2, <2>1 DEF TokenArrives
    <3>2. page[c].sources = {} /\ page[c].grant \in Grants
      BY <1>0, <3>1 DEF PageSound
    <3>3. /\ \A t \in Grants : stream[t] # "none" => stream'[t] # "none"
          /\ \A t \in page[c].sources \cup {page[c].grant} : stream'[t] # "none"
      BY <3>1, <3>2 DEF LiveTypes
    <3>4. Looks(c, "mounted", "open", page[c].grant, page[c].sources \cup {page[c].grant},
                page[c].status)
      BY <1>2, <2>1, PageLooks
    <3> QED BY <1>a, <3>3, <3>4
  <2>2. CASE ~Mounted(c)
    <3>1. stream' = stream
      BY <1>2, <2>2 DEF TokenArrives
    <3>2. Looks(c, page[c].life, "idle", NoGrant, page[c].sources, page[c].status)
      BY <1>2, <2>2, PageLooks
    <3> QED BY <1>0, <1>a, <2>2, <3>1, <3>2 DEF Connecting, Mounted
  <2> QED BY <2>1, <2>2
<1>3. ASSUME NEW c \in Clients, NEW S \in SUBSET Grants, S \subseteq page[c].sources,
             Later(c, S), stream' = stream
      PROVE  PagesConnect'
  <2>1. \A t \in S : stream'[t] # "none"
    BY <1>0, <1>3 DEF Connecting
  <2>2. CASE Mounted(c)
    <3>1. Looks(c, "mounted", "wait", NoGrant, S, "reconnecting")
      BY <1>3, <2>2, PageLooks
    <3> QED BY <1>3, <1>a, <2>1, <3>1
  <2>3. CASE ~Mounted(c)
    <3>1. Looks(c, page[c].life, "idle", NoGrant, S, page[c].status)
      BY <1>3, <2>3, PageLooks
    <3> QED BY <1>3, <1>a, <2>1, <2>3, <3>1 DEF Mounted
  <2> QED BY <2>2, <2>3
<1>4. ASSUME NEW c \in Clients, OnError(c) PROVE PagesConnect'
  <2>1. PICK t \in Grants : Later(c, page[c].sources \ {t}) /\ stream' = stream
    BY <1>4 DEF OnError
  <2> QED BY <1>0, <1>3, <2>1
<1>5. ASSUME NEW c \in Clients, FetchFails(c) PROVE PagesConnect'
  BY <1>0, <1>3, <1>5 DEF FetchFails
<1>6. ASSUME NEW c \in Clients, Unmount(c) PROVE PagesConnect'
  <2>1. stream' = stream
    BY <1>6 DEF Unmount
  <2>2. PICK conn \in {"fetch", "arriving", "idle"} :
          \E token : Looks(c, "gone", conn, token, {}, "offline")
    BY <1>6, PageLooks
  <2> QED BY <1>a, <2>1, <2>2
<1>7. ASSUME NEW c \in Clients, IssueToken(c) PROVE PagesConnect'
  <2>1. stream' = stream
    BY <1>7 DEF IssueToken
  <2>2. PICK t \in Grants : Looks(c, page[c].life, "arriving", t, page[c].sources, page[c].status)
    BY <1>7, PageLooks
  <2> QED BY <1>0, <1>a, <2>1, <2>2 DEF Connecting
\* The rest leaves the pages alone.
<1>8. ASSUME page' = page, \A t \in Grants : stream[t] # "none" => stream'[t] # "none"
      PROVE  PagesConnect'
  BY <1>0, <1>8 DEF PagesConnect, Connecting, Mounted
<1>9. ASSUME NEW t \in Grants, \/ GrantExpires(t) \/ Consume(t) \/ RepeatRequest(t) \/ CheckMember(t)
                               \/ Subscribed(t) \/ Release(t)
      PROVE  PagesConnect'
  <2>1. page' = page
    BY <1>9 DEF GrantExpires, Consume, RepeatRequest, CheckMember, Subscribed, Release
  <2>2. \A u \in Grants : stream[u] # "none" => stream'[u] # "none"
    BY <1>9 DEF GrantExpires, Consume, RepeatRequest, CheckMember, Subscribed, Release, LiveTypes
  <2> QED BY <1>8, <2>1, <2>2
<1>10. CASE ApiRestarts \/ Publish \/ LoseMembership \/ UNCHANGED liveStreamVars \/ \E c \in Clients : Receive(c)
  <2>1. page' = page
    BY <1>10 DEF ApiRestarts, Publish, LoseMembership, liveStreamVars, Receive
  <2>2. \A u \in Grants : stream[u] # "none" => stream'[u] # "none"
    BY <1>10 DEF ApiRestarts, Publish, LoseMembership, liveStreamVars, Receive
  <2> QED BY <1>8, <2>1, <2>2
<1> QED
  BY <1>1, <1>2, <1>4, <1>5, <1>6, <1>7, <1>9, <1>10 DEF LiveStreamNext

\* Nothing is under way between the pages and the API.
StreamAtRest ==
  /\ \A c \in Clients : page[c].conn \notin {"fetch", "arriving", "wait"}
  /\ \A t \in Grants :
       /\ stream[t] \notin {"request", "check", "subscribe"}
       /\ stream[t] = "attached" => t \notin aborted
       /\ stream[t] = "ended" => \A c \in Clients : ~Listens(c, t)

\* Pages that stay and streams of the API are then the same, one by one.
PagesServed ==
  StreamAtRest =>
    /\ \A c \in Clients : Mounted(c) => \E t \in Grants : Listens(c, t) /\ stream[t] = "attached"
    /\ \A t \in Grants : stream[t] = "attached" => \E c \in Clients : Mounted(c) /\ Listens(c, t)
    /\ \A c, d \in Clients : c # d => page[c].sources \cap page[d].sources = {}

LEMMA ServedAtRest == LiveInv /\ PagesConnect => PagesServed
<1> SUFFICES ASSUME LiveInv, PagesConnect, StreamAtRest
             PROVE  /\ \A c \in Clients :
                         Mounted(c) => \E t \in Grants : Listens(c, t) /\ stream[t] = "attached"
                    /\ \A t \in Grants :
                         stream[t] = "attached" => \E c \in Clients : Mounted(c) /\ Listens(c, t)
                    /\ \A c, d \in Clients : c # d => page[c].sources \cap page[d].sources = {}
  BY DEF PagesServed
<1>0. ASSUME NEW c \in Clients PROVE Connecting(c) /\ PageSound(c) /\ page[c] \in LivePages
  BY DEF PagesConnect, LiveInv, PagesSound, LiveTypes
<1>1. ASSUME NEW c \in Clients, Mounted(c)
      PROVE  \E t \in Grants : Listens(c, t) /\ stream[t] = "attached"
  <2>1. page[c].conn = "open"
    BY <1>0, <1>1 DEF Connecting, StreamAtRest, LivePages
  <2>2. page[c].grant \in Grants /\ Listens(c, page[c].grant) /\ stream[page[c].grant] # "none"
    BY <1>0, <2>1 DEF Connecting, PageSound, Listens
  <2>3. stream[page[c].grant] = "attached"
    BY <2>2 DEF StreamAtRest, LiveInv, LiveTypes, StreamStates
  <2> QED BY <2>2, <2>3
<1>2. ASSUME NEW t \in Grants, stream[t] = "attached"
      PROVE  \E c \in Clients : Mounted(c) /\ Listens(c, t)
  BY <1>2 DEF StreamAtRest, LiveInv, StreamsServed
<1>3. ASSUME NEW c \in Clients, NEW d \in Clients, c # d
      PROVE  page[c].sources \cap page[d].sources = {}
  <2> SUFFICES ASSUME NEW t, t \in page[c].sources, t \in page[d].sources PROVE FALSE
    OBVIOUS
  <2>1. page[c].conn = "open" /\ page[d].conn = "open"
    BY <1>0 DEF PageSound
  <2>2. page[c].grant = t /\ page[d].grant = t /\ t \in Grants
    BY <1>0, <2>1 DEF PageSound
  <2>3. t # NoGrant
    BY <2>2, LiveStreamAssumption DEF NoGrant, Grants
  <2> QED BY <1>3, <2>2, <2>3 DEF LiveInv, TokensApart
<1> QED BY <1>1, <1>2, <1>3

\* The safety half of StreamResumes and NothingOutlivesThePage, for any number of pages,
\* however connections broke, tokens expired, pages came and went and the API restarted:
\* when nothing is under way any more, every page that stays has a stream of its own, and
\* every stream has a page.
THEOREM StreamsArePages == LiveStreamSpec => []PagesServed
BY ServedAtRest, LiveInvariant, PagesConnectInit, PagesConnectStep, PTL DEF LiveStreamSpec

-----------------------------------------------------------------------------
(* What a page of runs shows (LiveView).                                    *)

\* The runs that may be shown as passed: those a success was reported of, and those
\* reported in a status the code does not know.
MayBeGreen == succeeded \cup unheard

\* A row that is shown as passed belongs to one of them.
Earned(rows, s) == \A r \in ViewRuns : Badge(rows[r]) = "success" => r \in s

RowsShown == [loaded : BOOLEAN, running : BOOLEAN, rows : [ViewRuns -> RunRows \cup {NoViewRow}]]
Loads == [state : {"idle", "asked", "answered"}, filter : Filters, answer : RowsShown]

\* Wherever rows are: in the database, on their way, shown, or in the answer to a load.
EarnedInv ==
  /\ LiveViewTypeOK /\ request \in [Slots -> Loads]
  /\ Earned(stored, MayBeGreen)
  /\ \A e \in events : Badge(e.row) = "success" => e.run \in MayBeGreen
  /\ Earned(view.rows, MayBeGreen)
  /\ \A s \in Slots : Earned(request[s].answer.rows, MayBeGreen)

LEMMA NothingIsShown == NothingYet \in RowsShown /\ \A s : Earned(NothingYet.rows, s)
BY DEF NothingYet, RowsShown, NoViewRow, Earned, Badge, Active

LEMMA ViewInitially == LiveViewInit => EarnedInv
<1> SUFFICES ASSUME LiveViewInit PROVE EarnedInv
  OBVIOUS
<1>1. /\ pageKind \in Pages /\ filter \in Filters
      /\ stored \in [ViewRuns -> RunRows \cup {NoViewRow}] /\ events = {}
      /\ streaming \in BOOLEAN /\ loading \in BOOLEAN /\ dirty \in BOOLEAN
      /\ view \in RowsShown /\ failed \in BOOLEAN
      /\ succeeded \in SUBSET ViewRuns /\ unheard \in SUBSET ViewRuns
  BY NothingIsShown DEF LiveViewInit, Filters
<1>6. reports \in 0 .. MaxReports /\ viewFaults \in 0 .. MaxViewFaults
  BY LiveViewAssumption DEF LiveViewInit
<1>2. Unasked \in Loads /\ Unasked.answer = NothingYet
  BY NothingIsShown DEF Unasked, Loads, Filters
<1>3. request \in [Slots -> Loads] /\ \A s \in Slots : request[s] = Unasked
  BY <1>2 DEF LiveViewInit
<1>4. LiveViewTypeOK
  BY <1>1, <1>3, <1>6 DEF LiveViewTypeOK, RowsShown, Loads
<1>5. Earned(stored, MayBeGreen)
  BY DEF LiveViewInit, Earned, NoViewRow, Badge, Active
<1> QED
  BY <1>1, <1>2, <1>3, <1>4, <1>5, NothingIsShown DEF EarnedInv, LiveViewInit

\* An answer shows what is stored, an event what was published.
LEMMA AnswerEarned ==
  ASSUME EarnedInv, NEW f \in Filters
  PROVE  Answer(f) \in RowsShown /\ Earned(Answer(f).rows, MayBeGreen)
<1>1. /\ stored \in [ViewRuns -> RunRows \cup {NoViewRow}] /\ pageKind \in Pages
      /\ Earned(stored, MayBeGreen)
  BY DEF EarnedInv, LiveViewTypeOK
<1>2. Badge(NoViewRow) # "success"
  BY DEF NoViewRow, Badge, Active
<1>3. CASE pageKind = "card"
  <2>1. PICK last : Answer(f) =
          [loaded |-> TRUE, running |-> \E r \in Held : Active(stored[r]),
           rows |-> [r \in ViewRuns |-> IF r = last THEN stored[r] ELSE NoViewRow]]
    BY <1>3 DEF Answer, CardOf
  <2> QED BY <1>1, <1>2, <2>1 DEF RowsShown, Earned
<1>4. CASE pageKind = "list"
  BY <1>1, <1>2, <1>4 DEF Answer, RowsShown, Earned
<1>5. CASE pageKind = "detail"
  <2>1. CASE stored[Shown] = NoViewRow
    BY <1>5, <2>1, NothingIsShown DEF Answer
  <2>2. CASE stored[Shown] # NoViewRow
    BY <1>1, <1>2, <1>5, <2>2 DEF Answer, RowsShown, Earned
  <2> QED BY <2>1, <2>2
<1> QED BY <1>1, <1>3, <1>4, <1>5 DEF Pages

LEMMA PatchEarned ==
  ASSUME EarnedInv, NEW e \in events
  PROVE  Patched(e) \in RowsShown /\ Earned(Patched(e).rows, MayBeGreen)
<1>1. /\ view \in RowsShown /\ pageKind \in Pages
      /\ e.run \in ViewRuns /\ e.row \in RunRows
      /\ Earned(view.rows, MayBeGreen)
      /\ Badge(e.row) = "success" => e.run \in MayBeGreen
  BY DEF EarnedInv, LiveViewTypeOK, RowsShown
<1>2. Badge(NoViewRow) # "success" /\ Active(e.row) \in BOOLEAN
  BY DEF NoViewRow, Badge, Active
<1>3. CASE pageKind = "card"
  <2>1. Patched(e) = [view EXCEPT !.rows = [r \in ViewRuns |-> IF r = e.run THEN e.row ELSE NoViewRow],
                                  !.running = Active(e.row)]
    BY <1>3 DEF Patched
  <2>2. /\ Patched(e).rows = [r \in ViewRuns |-> IF r = e.run THEN e.row ELSE NoViewRow]
        /\ Patched(e) \in RowsShown
    BY <1>1, <1>2, <2>1 DEF RowsShown
  <2> QED BY <1>1, <1>2, <2>2 DEF Earned
<1>4. ASSUME Patched(e) = [view EXCEPT !.rows[e.run] = e.row]
      PROVE  Patched(e) \in RowsShown /\ Earned(Patched(e).rows, MayBeGreen)
  <2>1. /\ Patched(e).rows = [view.rows EXCEPT ![e.run] = e.row]
        /\ Patched(e) \in RowsShown
    BY <1>1, <1>4 DEF RowsShown
  <2> QED BY <1>1, <2>1 DEF Earned, RowsShown
<1>5. CASE pageKind = "list"
  BY <1>4, <1>5 DEF Patched
<1>6. CASE pageKind = "detail"
  BY <1>1, <1>4, <1>6 DEF Patched
<1> QED BY <1>1, <1>3, <1>5, <1>6 DEF Pages

LEMMA ViewStep == EarnedInv /\ [LiveViewNext]_liveViewVars => EarnedInv'
<1> SUFFICES ASSUME EarnedInv, [LiveViewNext]_liveViewVars PROVE EarnedInv'
  OBVIOUS
<1>0. /\ LiveViewTypeOK /\ request \in [Slots -> Loads]
      /\ Earned(stored, MayBeGreen)
      /\ \A e \in events : Badge(e.row) = "success" => e.run \in MayBeGreen
      /\ Earned(view.rows, MayBeGreen)
      /\ \A s \in Slots : Earned(request[s].answer.rows, MayBeGreen)
  BY DEF EarnedInv
<1>1. ASSUME NEW r \in ViewRuns, Report(r) PROVE EarnedInv'
  <2>0. PICK raw \in RawStatuses, conclusion \in RawConclusions :
          LET r0 == [status |-> mapGitHubStatus(raw),
                     conclusion |-> mapGitHubConclusion(conclusion, raw)]
          IN /\ raw = "completed" <=> conclusion # "none"
             /\ stored' = [stored EXCEPT ![r] = r0]
             /\ events' = events \cup {[run |-> r, row |-> r0]}
             /\ succeeded' = IF conclusion = "success" THEN succeeded \cup {r} ELSE succeeded
             /\ unheard' = IF raw = "unheard_of" THEN unheard \cup {r} ELSE unheard
    BY <1>1 DEF Report
  <2>1. PICK fresh :
          /\ fresh = [status |-> mapGitHubStatus(raw),
                    conclusion |-> mapGitHubConclusion(conclusion, raw)]
          /\ raw = "completed" <=> conclusion # "none"
          /\ stored' = [stored EXCEPT ![r] = fresh]
          /\ events' = events \cup {[run |-> r, row |-> fresh]}
          /\ succeeded' = IF conclusion = "success" THEN succeeded \cup {r} ELSE succeeded
          /\ unheard' = IF raw = "unheard_of" THEN unheard \cup {r} ELSE unheard
    BY <2>0
  <2>2. fresh \in RunRows
    BY <2>1 DEF mapGitHubStatus, mapGitHubConclusion, RunRows, RawStatuses, RawConclusions,
                Statuses, Conclusions
  <2>3. Badge(fresh) = "success" => r \in MayBeGreen'
    BY <2>1 DEF MayBeGreen, Badge, Active, mapGitHubStatus, mapGitHubConclusion, RawStatuses, RawConclusions
  <2>4. /\ MayBeGreen \subseteq MayBeGreen'
        /\ succeeded' \in SUBSET ViewRuns /\ unheard' \in SUBSET ViewRuns
    BY <1>0, <2>1 DEF LiveViewTypeOK, MayBeGreen
  <2>5. LiveViewTypeOK'
    <3>1. reports' \in 0 .. MaxReports
      BY <1>0, <1>1, LiveViewAssumption DEF Report, LiveViewTypeOK
    <3>2. stored' \in [ViewRuns -> RunRows \cup {NoViewRow}]
      BY <1>0, <2>1, <2>2 DEF LiveViewTypeOK
    <3>3. events' \subseteq [run : ViewRuns, row : RunRows]
      BY <1>0, <2>1, <2>2 DEF LiveViewTypeOK
    <3>4. UNCHANGED <<pageKind, filter, streaming, view, loading, failed, dirty, request, viewFaults>>
      BY <1>1 DEF Report, pageVars
    <3> QED BY <1>0, <2>4, <3>1, <3>2, <3>3, <3>4 DEF LiveViewTypeOK
  <2>6. \A q \in ViewRuns : stored'[q] = IF q = r THEN fresh ELSE stored[q]
    BY <1>0, <2>1 DEF LiveViewTypeOK
  <2>7. Earned(stored', MayBeGreen')
    BY <1>0, <2>3, <2>4, <2>6 DEF Earned
  <2>8. \A e \in events' : Badge(e.row) = "success" => e.run \in MayBeGreen'
    BY <1>0, <2>1, <2>3, <2>4
  <2>9. view' = view /\ request' = request
    BY <1>1 DEF Report, pageVars
  <2>10. Earned(view'.rows, MayBeGreen') /\ \A s \in Slots : Earned(request'[s].answer.rows, MayBeGreen')
    BY <1>0, <2>4, <2>9 DEF Earned
  <2> QED BY <1>0, <2>5, <2>7, <2>8, <2>9, <2>10 DEF EarnedInv
<1>2. CASE Deliver
  <2>1. PICK e \in events :
          /\ events' = events \ {e}
          /\ view' \in {view, Patched(e)} /\ dirty' \in {dirty, TRUE}
          /\ UNCHANGED <<pageKind, filter, stored, streaming, loading, failed, request, seen, bounds>>
    BY <1>2 DEF Deliver
  <2>2. view' \in RowsShown /\ Earned(view'.rows, MayBeGreen)
    BY <1>0, <2>1, PatchEarned DEF LiveViewTypeOK, RowsShown
  <2>3. LiveViewTypeOK'
    BY <1>0, <2>1, <2>2 DEF LiveViewTypeOK, RowsShown, bounds, seen
  <2> QED BY <1>0, <2>1, <2>2, <2>3 DEF EarnedInv, MayBeGreen, seen
<1>3. ASSUME UNCHANGED <<pageKind, stored, events, view, failed, request, seen, reports>>,
             filter' \in Filters, streaming' \in BOOLEAN, dirty' \in BOOLEAN, loading' = loading,
             viewFaults' \in 0 .. MaxViewFaults
      PROVE  EarnedInv'
  BY <1>0, <1>3 DEF EarnedInv, LiveViewTypeOK, MayBeGreen, seen
<1>4. CASE StreamOpens \/ StreamBreaks \/ SetFilter \/ UNCHANGED liveViewVars
  <2>1. /\ UNCHANGED <<pageKind, stored, events, view, failed, request, seen, reports, loading>>
        /\ viewFaults' \in {viewFaults, viewFaults + 1}
        /\ viewFaults' = viewFaults \/ viewFaults < MaxViewFaults
    BY <1>4 DEF StreamOpens, StreamBreaks, SetFilter, liveViewVars, seen, bounds
  <2>2. viewFaults' \in 0 .. MaxViewFaults
    BY <1>0, <2>1, LiveViewAssumption DEF LiveViewTypeOK
  <2>3. filter' \in Filters /\ streaming' \in BOOLEAN /\ dirty' \in BOOLEAN
    BY <1>0, <1>4 DEF StreamOpens, StreamBreaks, SetFilter, liveViewVars, LiveViewTypeOK
  <2> QED BY <1>3, <2>1, <2>2, <2>3
<1>5. ASSUME NEW s \in Slots, NEW q \in Loads, request' = [request EXCEPT ![s] = q],
             Earned(q.answer.rows, MayBeGreen),
             view' \in RowsShown, Earned(view'.rows, MayBeGreen),
             UNCHANGED <<pageKind, filter, stored, events, streaming, seen, reports>>,
             dirty' \in BOOLEAN, loading' \in BOOLEAN, failed' \in BOOLEAN,
             viewFaults' \in 0 .. MaxViewFaults
      PROVE  EarnedInv'
  <2>1. request' \in [Slots -> Loads] /\ \A t \in Slots : request'[t] = IF t = s THEN q ELSE request[t]
    BY <1>0, <1>5
  <2>2. LiveViewTypeOK'
    BY <1>0, <1>5, <2>1 DEF LiveViewTypeOK, RowsShown, Loads, seen
  <2> QED BY <1>0, <1>5, <2>1, <2>2 DEF EarnedInv, MayBeGreen, seen
<1>6. Unasked \in Loads /\ Earned(Unasked.answer.rows, MayBeGreen) /\ view \in RowsShown
  BY <1>0, NothingIsShown DEF Unasked, Loads, Filters, LiveViewTypeOK, RowsShown
<1>7. ASSUME NEW s \in Slots, StartLoad(s) PROVE EarnedInv'
  <2>1. [Unasked EXCEPT !.state = "asked", !.filter = filter] \in Loads
    BY <1>0, NothingIsShown DEF Unasked, Loads, LiveViewTypeOK
  <2>2. [Unasked EXCEPT !.state = "asked", !.filter = filter].answer = NothingYet
    BY DEF Unasked
  <2>3. PICK q : q = [Unasked EXCEPT !.state = "asked", !.filter = filter]
    OBVIOUS
  <2>4. /\ request' = [request EXCEPT ![s] = q] /\ q \in Loads /\ Earned(q.answer.rows, MayBeGreen)
    BY <1>7, <2>1, <2>2, <2>3, NothingIsShown DEF StartLoad
  <2>5. /\ view' \in RowsShown /\ Earned(view'.rows, MayBeGreen)
        /\ UNCHANGED <<pageKind, filter, stored, events, streaming, seen, reports>>
        /\ dirty' \in BOOLEAN /\ loading' \in BOOLEAN /\ failed' \in BOOLEAN
        /\ viewFaults' \in 0 .. MaxViewFaults
    BY <1>0, <1>6, <1>7 DEF StartLoad, bounds, LiveViewTypeOK
  <2> QED BY <1>5, <2>4, <2>5
<1>8. ASSUME NEW s \in Slots, AnswerLoad(s) PROVE EarnedInv'
  <2>1. PICK a : a = Answer(request[s].filter)
    OBVIOUS
  <2>2. a \in RowsShown /\ Earned(a.rows, MayBeGreen) /\ request[s] \in Loads
    BY <1>0, <2>1, AnswerEarned DEF Loads
  <2>3. PICK q : q = [request[s] EXCEPT !.state = "answered", !.answer = a]
    OBVIOUS
  <2>4. q \in Loads /\ q.answer = a
    BY <2>2, <2>3 DEF Loads
  <2>5. request' = [request EXCEPT ![s] = q]
    BY <1>0, <1>8, <2>1, <2>2, <2>3 DEF AnswerLoad, Loads
  <2>6. /\ view' \in RowsShown /\ Earned(view'.rows, MayBeGreen)
        /\ UNCHANGED <<pageKind, filter, stored, events, streaming, seen, reports>>
        /\ dirty' \in BOOLEAN /\ loading' \in BOOLEAN /\ failed' \in BOOLEAN
        /\ viewFaults' \in 0 .. MaxViewFaults
    BY <1>0, <1>6, <1>8 DEF AnswerLoad, bounds, LiveViewTypeOK
  <2> QED BY <1>5, <2>2, <2>4, <2>5, <2>6
<1>9. ASSUME NEW s \in Slots, ShowLoad(s) PROVE EarnedInv'
  <2>1. /\ request[s].answer \in RowsShown /\ Earned(request[s].answer.rows, MayBeGreen)
        /\ Earned(view.rows, MayBeGreen)
    BY <1>0 DEF Loads
  <2>2. view' \in {view, request[s].answer} /\ failed' \in {failed, TRUE}
    BY <1>9 DEF ShowLoad
  <2>3. /\ view' \in RowsShown /\ Earned(view'.rows, MayBeGreen)
        /\ failed' \in BOOLEAN
    BY <1>0, <1>6, <2>1, <2>2 DEF LiveViewTypeOK
  <2>4. /\ UNCHANGED <<pageKind, filter, stored, events, streaming, seen, reports>>
        /\ dirty' \in BOOLEAN /\ loading' \in BOOLEAN
        /\ viewFaults' \in 0 .. MaxViewFaults
        /\ request' = [request EXCEPT ![s] = Unasked]
    BY <1>0, <1>9 DEF ShowLoad, bounds, LiveViewTypeOK
  <2> QED BY <1>5, <1>6, <2>3, <2>4
<1>10. ASSUME NEW s \in Slots, LoadFails(s) PROVE EarnedInv'
  <2>1. /\ view' \in RowsShown /\ Earned(view'.rows, MayBeGreen)
        /\ UNCHANGED <<pageKind, filter, stored, events, streaming, seen, reports>>
        /\ dirty' \in BOOLEAN /\ loading' \in BOOLEAN /\ failed' \in BOOLEAN
        /\ request' = [request EXCEPT ![s] = Unasked]
    BY <1>0, <1>6, <1>10 DEF LoadFails
  <2>2. viewFaults' \in 0 .. MaxViewFaults
    BY <1>0, <1>10, LiveViewAssumption DEF LoadFails, LiveViewTypeOK
  <2> QED BY <1>5, <1>6, <2>1, <2>2
<1> QED
  BY <1>1, <1>2, <1>4, <1>7, <1>8, <1>9, <1>10 DEF LiveViewNext, LoadStep

\* Every variable of the page that shows runs keeps its type.
THEOREM LiveViewTypes == LiveViewSpec => []LiveViewTypeOK
<1>1. EarnedInv => LiveViewTypeOK
  BY DEF EarnedInv
<1> QED BY <1>1, ViewInitially, ViewStep, PTL DEF LiveViewSpec

\* The safety half of ViewSettles, for any runs, loads, faults and filters, and whichever of
\* its events and answers came last: a run that is shown as passed has passed, or GitHub has
\* reported it in a status the code does not know.  Such a run is shown as passed too.
THEOREM PassedOrUnheard == LiveViewSpec => []GreenIsEarned
<1>1. EarnedInv => GreenIsEarned
  BY DEF EarnedInv, GreenIsEarned, Earned, MayBeGreen
<1> QED BY <1>1, ViewInitially, ViewStep, PTL DEF LiveViewSpec

-----------------------------------------------------------------------------
(* The settings pages (SettingsPage).                                       *)

Shows == Seq({"on", "off"})
Tables == [Entries -> Shows]
SheetRequests == [state : {"idle", "asked", "answered"}, answer : Tables]
EntryRequests == [state : {"idle", "sent", "done", "failed"}, to : {"on", "off", "gone"},
                  before : Tables, answer : Tables, creates : BOOLEAN, seen : BOOLEAN]

\* What SettingsTypeOK says, with the rows that answers and requests carry.
SheetTypes ==
  /\ sheet \in Sheets /\ entry \in [Entries -> EntryStates]
  /\ listed \in Tables
  /\ draft \in BOOLEAN /\ modal \in [open : BOOLEAN, key : BOOLEAN, submitting : BOOLEAN]
  /\ spinning \in BOOLEAN /\ broken \in BOOLEAN /\ rerender \in BOOLEAN
  /\ load \in [SheetLoads -> SheetRequests] /\ ask \in [Entries -> EntryRequests]
  /\ asks \in 0 .. MaxAsks /\ sheetFaults \in 0 .. MaxSheetFaults

Single(table) == \A i \in Entries : Len(table[i]) <= 1

\* The page of one object shows it once.  A row is added only by the answer to a creation, to
\* a list that may have it already; and an entry is created only once.
EntrySound(i) ==
  /\ Len(listed[i]) <= 2
  /\ Len(listed[i]) <= 1 \/ (entry[i] # "absent" /\ ~ask[i].creates)
  /\ sheet \in {"repo", "workspace"} => Len(listed[i]) <= 1
  /\ ask[i].creates => /\ ask[i].state # "idle" /\ sheet \in {"keys", "members"}
                       /\ ask[i].state = "done" => entry[i] # "absent"
  /\ Single(ask[i].before) /\ Single(ask[i].answer)

SheetInv ==
  /\ SheetTypes
  /\ \A s \in SheetLoads : Single(load[s].answer)
  /\ \A i \in Entries : EntrySound(i)

LEMMA OneRow ==
  /\ NoRows \in Tables /\ Single(NoRows)
  /\ \A x \in {"on", "off"} : <<x>> \in Shows /\ Len(<<x>>) = 1
  /\ \A rows \in Shows :
       /\ Len(rows) \in Nat /\ DOMAIN rows = 1 .. Len(rows)
       /\ Append(rows, "on") \in Shows /\ Len(Append(rows, "on")) = Len(rows) + 1
<1>1. <<>> \in Shows /\ Len(<<>>) = 0
  BY DEF Shows
<1>2. NoRows \in Tables /\ Single(NoRows)
  BY <1>1 DEF NoRows, Tables, Single
<1>3. ASSUME NEW x \in {"on", "off"} PROVE <<x>> \in Shows /\ Len(<<x>>) = 1
  BY DEF Shows
<1>4. ASSUME NEW rows \in Shows
      PROVE  /\ Len(rows) \in Nat /\ DOMAIN rows = 1 .. Len(rows)
             /\ Append(rows, "on") \in Shows /\ Len(Append(rows, "on")) = Len(rows) + 1
  BY DEF Shows
<1> QED BY <1>2, <1>3, <1>4

\* A row that is changed stays one row.
LEMMA ChangedRows ==
  ASSUME NEW rows \in Shows, NEW x \in {"on", "off"}
  PROVE  [n \in DOMAIN rows |-> x] \in Shows /\ Len([n \in DOMAIN rows |-> x]) = Len(rows)
<1>1. PICK k \in Nat : k = Len(rows) /\ DOMAIN rows = 1 .. k
  BY DEF Shows
<1>2. [n \in 1 .. k |-> x] \in [1 .. k -> {"on", "off"}]
  OBVIOUS
<1>3. [n \in 1 .. k |-> x] \in Seq({"on", "off"})
  BY <1>2
<1>4. Len([n \in 1 .. k |-> x]) = k
  BY <1>3
<1> QED BY <1>1, <1>3, <1>4 DEF Shows

\* What the database answers.
LEMMA OneRowEach ==
  ASSUME NEW e \in [Entries -> EntryStates], NEW table,
         table = [i \in Entries |-> IF e[i] \in {"on", "off"} THEN <<e[i]>> ELSE <<>>]
  PROVE  table \in Tables /\ Single(table)
<1>1. <<>> \in Shows /\ Len(<<>>) = 0
  BY DEF Shows
<1>2. \A i \in Entries : table[i] \in Shows /\ Len(table[i]) <= 1
  BY <1>1, OneRow
<1> QED BY <1>2 DEF Tables, Single

LEMMA SheetInitially == SettingsInit => SheetInv
<1> SUFFICES ASSUME SettingsInit PROVE SheetInv
  OBVIOUS
<1>1. NotLoading \in SheetRequests /\ Single(NotLoading.answer)
  BY OneRow DEF NotLoading, SheetRequests
<1>2. NotAsked \in EntryRequests /\ Single(NotAsked.before) /\ Single(NotAsked.answer)
      /\ NotAsked.creates = FALSE
  BY OneRow DEF NotAsked, EntryRequests
<1>3. asks \in 0 .. MaxAsks /\ sheetFaults \in 0 .. MaxSheetFaults
  BY SettingsAssumption DEF SettingsInit
<1>4. SheetTypes
  BY <1>1, <1>2, <1>3, OneRow DEF SettingsInit, SheetTypes, EntryStates, ModalClosed
<1>5. \A i \in Entries : Len(listed[i]) = 0
  BY DEF SettingsInit, NoRows
<1>6. \A i \in Entries : EntrySound(i)
  BY <1>2, <1>5 DEF SettingsInit, EntrySound
<1> QED BY <1>1, <1>4, <1>6 DEF SettingsInit, SheetInv

\* A change of a request leaves the others alone.
LEMMA SheetStep == SheetInv /\ [SettingsNext]_settingsVars => SheetInv'
<1> SUFFICES ASSUME SheetInv, [SettingsNext]_settingsVars PROVE SheetInv'
  OBVIOUS
<1>0. /\ SheetTypes
      /\ \A s \in SheetLoads : Single(load[s].answer)
      /\ \A i \in Entries : EntrySound(i)
  BY DEF SheetInv
<1>a. /\ NotLoading \in SheetRequests /\ Single(NotLoading.answer)
      /\ NotAsked \in EntryRequests /\ Single(NotAsked.before) /\ Single(NotAsked.answer)
      /\ NotAsked.creates = FALSE
  BY OneRow DEF NotLoading, SheetRequests, NotAsked, EntryRequests
\* Steps that change neither a row nor a request about one, but that its dialog is seen.
<1>1. ASSUME UNCHANGED <<sheet, entry, listed, asks>>,
             draft' \in BOOLEAN, spinning' \in BOOLEAN, broken' \in BOOLEAN, rerender' \in BOOLEAN,
             modal' \in [open : BOOLEAN, key : BOOLEAN, submitting : BOOLEAN],
             load' \in [SheetLoads -> SheetRequests],
             \A s \in SheetLoads : Single(load'[s].answer),
             ask' \in {ask, Unseen}, sheetFaults' \in 0 .. MaxSheetFaults
      PROVE  SheetInv'
  <2>1. /\ ask' \in [Entries -> EntryRequests]
        /\ \A i \in Entries : /\ ask'[i].creates = ask[i].creates /\ ask'[i].state = ask[i].state
                              /\ ask'[i].before = ask[i].before /\ ask'[i].answer = ask[i].answer
    <3>1. ask \in [Entries -> EntryRequests]
      BY <1>0 DEF SheetTypes
    <3>2. ASSUME NEW q \in EntryRequests
          PROVE  /\ [q EXCEPT !.seen = FALSE] \in EntryRequests
                 /\ [q EXCEPT !.seen = FALSE].creates = q.creates
                 /\ [q EXCEPT !.seen = FALSE].state = q.state
                 /\ [q EXCEPT !.seen = FALSE].before = q.before
                 /\ [q EXCEPT !.seen = FALSE].answer = q.answer
      BY DEF EntryRequests
    <3>3. CASE ask' = Unseen
      BY <3>1, <3>2, <3>3 DEF Unseen
    <3> QED BY <1>1, <3>1, <3>3
  <2>2. SheetTypes'
    BY <1>0, <1>1, <2>1 DEF SheetTypes
  <2>3. ASSUME NEW i \in Entries PROVE EntrySound(i)'
    BY <1>0, <1>1, <2>1 DEF EntrySound, Single
  <2> QED BY <1>1, <2>2, <2>3 DEF SheetInv, Single
<1>2. ModalLost \in [open : BOOLEAN, key : BOOLEAN, submitting : BOOLEAN]
  BY <1>0 DEF SheetTypes, ModalLost
<1>3. ASSUME NEW s \in SheetLoads,
             StartSheetLoad(s) \/ AnswerSheetLoad(s) \/ SheetLoadFails(s)
      PROVE  SheetInv'
  <2>1. Listing \in Tables /\ Single(Listing)
    BY <1>0, OneRowEach DEF Listing, SheetTypes
  <2>2. PICK q : /\ q \in SheetRequests /\ Single(q.answer)
                 /\ load' = [load EXCEPT ![s] = q]
    <3>1. CASE StartSheetLoad(s)
      <4>1. [load[s] EXCEPT !.state = "asked"] \in SheetRequests
            /\ [load[s] EXCEPT !.state = "asked"].answer = load[s].answer
        BY <1>0 DEF SheetTypes, SheetRequests
      <4>2. load' = [load EXCEPT ![s] = [load[s] EXCEPT !.state = "asked"]]
        BY <1>0, <3>1 DEF StartSheetLoad, SheetTypes, SheetRequests
      <4> QED BY <1>0, <4>1, <4>2
    <3>2. CASE AnswerSheetLoad(s)
      <4>1. [state |-> "answered", answer |-> Listing] \in SheetRequests
        BY <2>1 DEF SheetRequests
      <4> QED BY <2>1, <3>2, <4>1 DEF AnswerSheetLoad
    <3>3. CASE SheetLoadFails(s)
      BY <1>a, <3>3 DEF SheetLoadFails
    <3> QED BY <1>3, <3>1, <3>2, <3>3
  <2>3. /\ load' \in [SheetLoads -> SheetRequests]
        /\ \A t \in SheetLoads : load'[t] = IF t = s THEN q ELSE load[t]
    BY <1>0, <2>2 DEF SheetTypes
  <2>4. \A t \in SheetLoads : Single(load'[t].answer)
    BY <1>0, <2>2, <2>3
  <2>5. sheetFaults' \in 0 .. MaxSheetFaults
    BY <1>0, <1>3, SettingsAssumption DEF StartSheetLoad, AnswerSheetLoad, SheetLoadFails, SheetTypes
  <2>6. /\ UNCHANGED <<sheet, entry, listed, asks, draft>> /\ ask' \in {ask, Unseen}
        /\ modal' \in {modal, ModalLost}
        /\ spinning' \in BOOLEAN /\ broken' \in BOOLEAN /\ rerender' \in BOOLEAN
    BY <1>0, <1>3 DEF StartSheetLoad, AnswerSheetLoad, SheetLoadFails, SheetTypes
  <2> QED BY <1>0, <1>1, <1>2, <2>3, <2>4, <2>5, <2>6 DEF SheetTypes
<1>4. CASE EditForm \/ OpenModal \/ CloseModal \/ UNCHANGED settingsVars
  <2>1. /\ UNCHANGED <<sheet, entry, listed, asks, load, ask, spinning, broken, sheetFaults>>
        /\ draft' \in BOOLEAN /\ rerender' \in BOOLEAN
    BY <1>0, <1>4 DEF EditForm, OpenModal, CloseModal, settingsVars, SheetTypes
  <2>2. modal' \in [open : BOOLEAN, key : BOOLEAN, submitting : BOOLEAN]
    <3>1. CASE OpenModal
      BY <1>0, <3>1 DEF OpenModal, SheetTypes
    <3>2. CASE CloseModal
      BY <3>2 DEF CloseModal, ModalClosed
    <3> QED BY <1>0, <1>4, <3>1, <3>2 DEF EditForm, settingsVars, SheetTypes
  <2> QED BY <1>0, <1>1, <2>1, <2>2 DEF SheetTypes, Single
<1>5. ASSUME NEW s \in SheetLoads, ShowSheetLoad(s) PROVE SheetInv'
  <2>1. load[s].answer \in Tables /\ Single(load[s].answer)
    BY <1>0 DEF SheetTypes, SheetRequests
  <2>2. /\ load' \in [SheetLoads -> SheetRequests]
        /\ \A t \in SheetLoads : load'[t] = IF t = s THEN NotLoading ELSE load[t]
    BY <1>0, <1>a, <1>5 DEF ShowSheetLoad, SheetTypes
  <2>3. /\ listed' = load[s].answer
        /\ draft' = FALSE /\ spinning' = FALSE /\ rerender' = TRUE
        /\ UNCHANGED <<sheet, entry, modal, broken, ask, asks, sheetFaults>>
    BY <1>5 DEF ShowSheetLoad
  <2>4. SheetTypes'
    BY <1>0, <2>1, <2>2, <2>3 DEF SheetTypes
  <2>5. ASSUME NEW i \in Entries PROVE EntrySound(i)'
    <3>1. Len(listed'[i]) <= 1 /\ Len(listed'[i]) \in Nat
      BY <2>1, <2>3, OneRow DEF Single, Tables
    <3> QED BY <1>0, <2>3, <3>1 DEF EntrySound, Single
  <2>6. \A t \in SheetLoads : Single(load'[t].answer)
    BY <1>0, <1>a, <2>2
  <2> QED BY <2>4, <2>5, <2>6 DEF SheetInv, Single
\* What a step on the row of one entry has to keep.
<1>6. ASSUME NEW i \in Entries, UNCHANGED <<sheet, spinning, broken, load>>,
             draft' \in BOOLEAN, rerender' \in BOOLEAN,
             modal' \in [open : BOOLEAN, key : BOOLEAN, submitting : BOOLEAN],
             asks' \in 0 .. MaxAsks, sheetFaults' \in 0 .. MaxSheetFaults,
             entry' \in [Entries -> EntryStates], listed' \in Tables, ask' \in [Entries -> EntryRequests],
             \A j \in Entries \ {i} : entry'[j] = entry[j] /\ ask'[j] = ask[j],
             \A j \in Entries \ {i} : listed'[j] = listed[j] \/ Len(listed'[j]) <= 1,
             EntrySound(i)'
      PROVE  SheetInv'
  <2>1. SheetTypes'
    BY <1>0, <1>6 DEF SheetTypes
  <2>2. ASSUME NEW j \in Entries \ {i} PROVE EntrySound(j)'
    <3>1. Len(listed'[j]) \in Nat
      BY <1>6, OneRow DEF Tables
    <3>2. EntrySound(j) /\ entry'[j] = entry[j] /\ ask'[j] = ask[j] /\ sheet' = sheet
      BY <1>0, <1>6
    <3> QED BY <1>6, <3>1, <3>2 DEF EntrySound, Single
  <2> QED BY <1>0, <1>6, <2>1, <2>2 DEF SheetInv, Single
<1>7. \A from \in EntryStates : MayBecome(sheet, from) \subseteq {"on", "off", "gone"}
  BY <1>0 DEF MayBecome, EntryStates, SheetTypes, Sheets
<1>8. ASSUME NEW q \in EntryRequests, NEW i \in Entries, ask' = [ask EXCEPT ![i] = q]
      PROVE  /\ ask' \in [Entries -> EntryRequests] /\ ask'[i] = q
             /\ \A j \in Entries \ {i} : ask'[j] = ask[j]
  BY <1>0, <1>8 DEF SheetTypes
<1>9. ASSUME NEW i \in Entries
      PROVE  /\ ask[i] \in EntryRequests /\ listed[i] \in Shows /\ listed \in Tables
             /\ Len(listed[i]) \in Nat /\ entry[i] \in EntryStates /\ EntrySound(i)
  BY <1>0, OneRow DEF SheetTypes, Tables
<1>b. ASSUME NEW i \in Entries PROVE \A n \in DOMAIN listed[i] : listed[i][n] \in {"on", "off"}
  BY <1>0 DEF SheetTypes, Tables, Shows
<1>10. OfForm(listed) \in Tables /\ Single(OfForm(listed))
  BY <1>0, OneRow DEF OfForm, SheetTypes, EntrySound, Single
\* What a request is when it is sent.
<1>11. ASSUME NEW i \in Entries, NEW to \in {"on", "off", "gone"}, NEW creates \in BOOLEAN,
              Sends(i, to, creates)
       PROVE  /\ rerender' = TRUE /\ asks' \in 0 .. MaxAsks
              /\ ask' \in [Entries -> EntryRequests]
              /\ \A j \in Entries \ {i} : ask'[j] = ask[j]
              /\ ~ask[i].creates
              /\ ask'[i].creates = creates /\ ask'[i].state = "sent"
              /\ Single(ask'[i].before) /\ Single(ask'[i].answer)
  <2>1. PICK q : q = [NotAsked EXCEPT !.state = "sent", !.to = to, !.before = OfForm(listed),
                                      !.creates = creates, !.seen = creates]
    OBVIOUS
  <2>2. /\ q \in EntryRequests /\ q.creates = creates /\ q.state = "sent"
        /\ q.before = OfForm(listed) /\ q.answer = NotAsked.answer
    BY <1>a, <1>10, <2>1 DEF EntryRequests
  <2>3. ask' = [ask EXCEPT ![i] = q]
    BY <1>11, <2>1 DEF Sends
  <2>4. asks' \in 0 .. MaxAsks
    BY <1>0, <1>11, SettingsAssumption DEF Sends, SheetTypes
  <2>5. ~ask[i].creates
    BY <1>9, <1>11 DEF Sends, Resting, EntrySound
  <2> QED BY <1>a, <1>8, <1>10, <1>11, <2>2, <2>3, <2>4, <2>5 DEF Sends
<1>12. ASSUME NEW i \in Entries, AskCreate(i) PROVE SheetInv'
  <2>1. sheet \in {"keys", "members"}
    BY <1>0, <1>12 DEF AskCreate, MayBecome, SheetTypes, Sheets
  <2>2. modal' \in [open : BOOLEAN, key : BOOLEAN, submitting : BOOLEAN]
    BY <1>0, <1>12 DEF AskCreate, SheetTypes
  <2>3. UNCHANGED <<sheet, entry, listed, draft, spinning, broken, load, sheetFaults>>
    BY <1>12 DEF AskCreate
  <2>4. entry[i] = "absent" /\ Sends(i, "on", TRUE)
    BY <1>12 DEF AskCreate
  <2>5. EntrySound(i)'
    BY <1>9, <1>11, <2>1, <2>3, <2>4 DEF EntrySound
  <2> QED BY <1>0, <1>6, <1>11, <2>2, <2>3, <2>4, <2>5 DEF SheetTypes
<1>13. ASSUME NEW i \in Entries, AskRow(i) PROVE SheetInv'
  <2>0. PICK from \in {"on", "off"} : \E to \in MayBecome(sheet, from) : Sends(i, to, FALSE)
    BY <1>b, <1>13 DEF AskRow
  <2>1. PICK to \in MayBecome(sheet, from) : Sends(i, to, FALSE)
    BY <2>0
  <2>2. to \in {"on", "off", "gone"}
    BY <1>7, <2>1 DEF EntryStates
  <2>3. UNCHANGED <<sheet, entry, listed, draft, modal, spinning, broken, load, sheetFaults>>
    BY <1>13 DEF AskRow
  <2>4. EntrySound(i)'
    BY <1>9, <1>11, <2>1, <2>2, <2>3 DEF EntrySound
  <2> QED BY <1>0, <1>6, <1>11, <2>1, <2>2, <2>3, <2>4 DEF SheetTypes
<1>14. ASSUME NEW i \in Entries, AskSetting(i) PROVE SheetInv'
  <2>0. PICK from \in {"on", "off"} : \E to \in MayBecome(sheet, from) :
          /\ Sends(i, to, FALSE)
          /\ listed' = IF sheet = "repo" THEN [listed EXCEPT ![i] = <<to>>] ELSE listed
    BY <1>b, <1>14 DEF AskSetting
  <2>1. PICK to \in MayBecome(sheet, from) :
          /\ Sends(i, to, FALSE)
          /\ listed' = IF sheet = "repo" THEN [listed EXCEPT ![i] = <<to>>] ELSE listed
    BY <2>0
  <2>2. sheet \in {"repo", "workspace"}
    BY <1>14 DEF AskSetting
  <2>3. to \in {"on", "off"}
    BY <2>1, <2>2 DEF MayBecome
  <2>4. UNCHANGED <<sheet, entry, draft, modal, spinning, broken, load, sheetFaults>>
    BY <1>14 DEF AskSetting
  <2>5. <<to>> \in Shows /\ Len(<<to>>) = 1
    BY <2>3, OneRow
  <2>6. /\ listed' \in Tables /\ \A j \in Entries \ {i} : listed'[j] = listed[j]
        /\ listed'[i] \in {listed[i], <<to>>}
    BY <1>9, <2>1, <2>5 DEF Tables
  <2>7. EntrySound(i)'
    <3>1. Len(listed'[i]) \in Nat /\ Len(listed'[i]) <= 1
      <4>1. PICK rows : rows = listed'[i]
        OBVIOUS
      <4>2. CASE rows = listed[i]
        BY <1>9, <2>2, <4>1, <4>2 DEF EntrySound
      <4>3. CASE rows = <<to>>
        BY <2>5, <4>1, <4>3
      <4> QED BY <2>6, <4>1, <4>2, <4>3
    <3>2. /\ ask'[i].creates = FALSE /\ ask'[i].state = "sent"
          /\ Single(ask'[i].before) /\ Single(ask'[i].answer)
      BY <1>11, <2>1, <2>3
    <3> QED BY <2>2, <3>1, <3>2 DEF EntrySound, Single
  <2> QED BY <1>0, <1>6, <1>11, <2>1, <2>3, <2>4, <2>6, <2>7 DEF SheetTypes
<1>15. ASSUME NEW i \in Entries, OtherAdmin(i) PROVE SheetInv'
  <2>1. PICK to \in MayBecome(sheet, entry[i]) : entry' = [entry EXCEPT ![i] = to]
    BY <1>15 DEF OtherAdmin
  <2>2. to \in {"on", "off", "gone"}
    BY <1>7, <1>9, <2>1
  <2>3. /\ entry' \in [Entries -> EntryStates] /\ entry'[i] # "absent"
        /\ \A j \in Entries \ {i} : entry'[j] = entry[j]
    BY <1>0, <2>1, <2>2 DEF SheetTypes, EntryStates
  <2>4. asks' \in 0 .. MaxAsks
    BY <1>0, <1>15, SettingsAssumption DEF OtherAdmin, SheetTypes
  <2>5. UNCHANGED <<sheet, listed, draft, modal, spinning, broken, rerender, load, ask, sheetFaults>>
    BY <1>15 DEF OtherAdmin
  <2>6. EntrySound(i)'
    BY <1>9, <2>3, <2>5 DEF EntrySound
  <2> QED BY <1>0, <1>6, <2>3, <2>4, <2>5, <2>6 DEF SheetTypes
<1>16. ASSUME NEW i \in Entries, Serve(i) PROVE SheetInv'
  <2>1. UNCHANGED <<sheet, listed, draft, modal, spinning, broken, rerender, load, asks, sheetFaults>>
    BY <1>16 DEF Serve
  <2>2. CASE entry[i] = "gone"
    <3>1. [ask[i] EXCEPT !.state = "failed"] \in EntryRequests
      BY <1>9 DEF EntryRequests
    <3>2. ask' = [ask EXCEPT ![i] = [ask[i] EXCEPT !.state = "failed"]] /\ UNCHANGED entry
      BY <1>0, <1>16, <2>2 DEF Serve, SheetTypes
    <3>3. /\ ask' \in [Entries -> EntryRequests] /\ ask'[i] = [ask[i] EXCEPT !.state = "failed"]
          /\ \A j \in Entries \ {i} : ask'[j] = ask[j]
      BY <1>8, <3>1, <3>2
    <3>4. /\ ask'[i].creates = ask[i].creates /\ ask'[i].before = ask[i].before
          /\ ask'[i].answer = ask[i].answer /\ ask'[i].state = "failed"
      BY <1>9, <3>3 DEF EntryRequests
    <3>5. EntrySound(i)'
      BY <1>9, <2>1, <3>2, <3>4 DEF EntrySound, Single
    <3> QED BY <1>0, <1>6, <2>1, <3>2, <3>3, <3>5 DEF SheetTypes
  <2>3. CASE entry[i] # "gone"
    <3>1. /\ entry' = [entry EXCEPT ![i] = ask[i].to]
          /\ ask' = [ask EXCEPT ![i].state = "done", ![i].answer = OfForm(Listing')]
          /\ ask[i].state = "sent"
      BY <1>16, <2>3 DEF Serve
    <3>2. ask[i].to \in {"on", "off", "gone"}
      BY <1>9 DEF EntryRequests
    <3>3. /\ entry' \in [Entries -> EntryStates] /\ entry'[i] # "absent"
          /\ \A j \in Entries \ {i} : entry'[j] = entry[j]
      BY <1>0, <3>1, <3>2 DEF SheetTypes, EntryStates
    <3>4. PICK table : table = OfForm(Listing')
      OBVIOUS
    <3>5. table \in Tables /\ Single(table)
      BY <3>3, <3>4, OneRow, OneRowEach DEF OfForm, Listing
    <3>6. PICK q : q = [ask[i] EXCEPT !.state = "done", !.answer = table]
      OBVIOUS
    <3>7. /\ q \in EntryRequests /\ q.creates = ask[i].creates /\ q.before = ask[i].before
          /\ q.answer = table
      BY <1>9, <3>5, <3>6 DEF EntryRequests
    <3>8. ask' = [ask EXCEPT ![i] = q]
      BY <1>0, <3>1, <3>4, <3>6 DEF SheetTypes, EntryRequests
    <3>9. /\ ask' \in [Entries -> EntryRequests] /\ ask'[i] = q
          /\ \A j \in Entries \ {i} : ask'[j] = ask[j]
      BY <1>8, <3>7, <3>8
    <3>10. q.state = "done"
      BY <1>9, <3>6 DEF EntryRequests
    <3>11. EntrySound(i)'
      BY <1>9, <2>1, <3>1, <3>3, <3>5, <3>7, <3>9, <3>10 DEF EntrySound, Single
    <3> QED BY <1>0, <1>6, <2>1, <3>3, <3>9, <3>11 DEF SheetTypes
  <2> QED BY <2>2, <2>3
<1>17. ASSUME NEW i \in Entries, AskFails(i) PROVE SheetInv'
  <2>1. /\ UNCHANGED <<sheet, entry, listed, draft, modal, spinning, broken, rerender, load, asks>>
        /\ ask[i].state \in {"sent", "done"}
    BY <1>17 DEF AskFails
  <2>2. sheetFaults' \in 0 .. MaxSheetFaults
    BY <1>0, <1>17, SettingsAssumption DEF AskFails, SheetTypes
  <2>3. [ask[i] EXCEPT !.state = "failed"] \in EntryRequests
    BY <1>9 DEF EntryRequests
  <2>4. ask' = [ask EXCEPT ![i] = [ask[i] EXCEPT !.state = "failed"]]
    BY <1>0, <1>17 DEF AskFails, SheetTypes
  <2>5. /\ ask' \in [Entries -> EntryRequests] /\ ask'[i] = [ask[i] EXCEPT !.state = "failed"]
        /\ \A j \in Entries \ {i} : ask'[j] = ask[j]
    BY <1>8, <2>3, <2>4
  <2>6. /\ ask'[i].creates = ask[i].creates /\ ask'[i].before = ask[i].before
        /\ ask'[i].answer = ask[i].answer /\ ask'[i].state = "failed"
    BY <1>9, <2>5 DEF EntryRequests
  <2>7. EntrySound(i)'
    BY <1>9, <2>1, <2>6 DEF EntrySound, Single
  <2> QED BY <1>0, <1>6, <2>1, <2>2, <2>5, <2>7 DEF SheetTypes
<1>18. ASSUME NEW i \in Entries, ShowFailed(i) PROVE SheetInv'
  <2>1. /\ UNCHANGED <<sheet, entry, spinning, broken, load, asks, sheetFaults>>
        /\ rerender' = TRUE /\ draft' \in {draft, FALSE} /\ ask' = [ask EXCEPT ![i] = NotAsked]
        /\ listed' = IF sheet = "repo" THEN ask[i].before ELSE listed
    BY <1>18 DEF ShowFailed
  <2>2. modal' \in [open : BOOLEAN, key : BOOLEAN, submitting : BOOLEAN]
    BY <1>0, <1>18 DEF ShowFailed, SheetTypes
  <2>3. /\ ask' \in [Entries -> EntryRequests] /\ ask'[i] = NotAsked
        /\ \A j \in Entries \ {i} : ask'[j] = ask[j]
    BY <1>a, <1>8, <2>1
  <2>4. ask[i].before \in Tables /\ Single(ask[i].before)
    BY <1>9 DEF EntryRequests, EntrySound
  <2>5. /\ listed' \in Tables
        /\ \A j \in Entries : Len(listed'[j]) \in Nat
        /\ \A j \in Entries : listed'[j] = listed[j] \/ Len(listed'[j]) <= 1
    BY <1>9, <2>1, <2>4, OneRow DEF Single, Tables
  <2>6. EntrySound(i)'
    BY <1>a, <1>9, <2>1, <2>3, <2>5 DEF EntrySound
  <2> QED BY <1>0, <1>6, <2>1, <2>2, <2>3, <2>5, <2>6 DEF SheetTypes
<1>19. ASSUME NEW i \in Entries, ShowDone(i) PROVE SheetInv'
  <2>1. /\ UNCHANGED <<sheet, entry, spinning, broken, load, asks, sheetFaults>>
        /\ rerender' = TRUE /\ draft' \in {draft, FALSE} /\ ask' = [ask EXCEPT ![i] = NotAsked]
        /\ listed' = Patch(i) /\ ask[i].state = "done"
    BY <1>19 DEF ShowDone
  <2>2. modal' \in [open : BOOLEAN, key : BOOLEAN, submitting : BOOLEAN]
    BY <1>0, <1>19 DEF ShowDone, SheetTypes
  <2>3. /\ ask' \in [Entries -> EntryRequests] /\ ask'[i] = NotAsked
        /\ \A j \in Entries \ {i} : ask'[j] = ask[j]
    BY <1>a, <1>8, <2>1
  <2>4. /\ listed' \in Tables
        /\ \A j \in Entries \ {i} : listed'[j] = listed[j] \/ Len(listed'[j]) <= 1
        /\ \/ ask[i].creates /\ Len(listed'[i]) = Len(listed[i]) + 1
           \/ Len(listed'[i]) = Len(listed[i])
           \/ Len(listed'[i]) \in Nat /\ Len(listed'[i]) <= 1
    <3>1. CASE ask[i].creates
      <4>1. PICK rows \in Shows : rows = Append(listed[i], "on") /\ Len(rows) = Len(listed[i]) + 1
        BY <1>9, OneRow
      <4>2. listed' = [listed EXCEPT ![i] = rows]
        BY <1>9, <2>1, <3>1, <4>1 DEF Patch, Tables
      <4> QED BY <1>9, <3>1, <4>1, <4>2 DEF Tables
    <3>2. CASE ~ask[i].creates /\ sheet \in {"keys", "members"}
      <4>1. PICK rows \in Shows :
              /\ rows = IF ask[i].to = "gone" THEN <<>> ELSE [n \in DOMAIN listed[i] |-> ask[i].to]
              /\ Len(rows) = 0 \/ Len(rows) = Len(listed[i])
        <5>1. <<>> \in Shows /\ Len(<<>>) = 0
          BY DEF Shows
        <5>2. ask[i].to \in {"on", "off", "gone"}
          BY <1>9 DEF EntryRequests
        <5> QED BY <1>9, <5>1, <5>2, ChangedRows
      <4>2. listed' = [listed EXCEPT ![i] = rows]
        BY <1>9, <2>1, <3>2, <4>1 DEF Patch, Tables
      <4> QED BY <1>9, <4>1, <4>2 DEF Tables
    <3>3. CASE ~ask[i].creates /\ sheet \notin {"keys", "members"}
      <4>1. listed' = ask[i].answer
        BY <2>1, <3>3 DEF Patch
      <4>2. ask[i].answer \in Tables /\ Single(ask[i].answer)
        BY <1>9 DEF EntryRequests, EntrySound
      <4>3. Len(listed'[i]) \in Nat
        BY <4>1, <4>2, OneRow DEF Tables
      <4> QED BY <4>1, <4>2, <4>3 DEF Single
    <3> QED BY <3>1, <3>2, <3>3
  <2>5. EntrySound(i)'
    BY <1>a, <1>9, <2>1, <2>3, <2>4 DEF EntrySound
  <2> QED BY <1>0, <1>6, <2>1, <2>2, <2>3, <2>4, <2>5 DEF SheetTypes
<1> QED
  BY <1>3, <1>4, <1>5, <1>12, <1>13, <1>14, <1>15, <1>16, <1>17, <1>18, <1>19
  DEF SettingsNext, SheetLoadStep, AskStep

LEMMA SheetTypesAre == SheetInv => SettingsTypeOK
<1> SUFFICES ASSUME SheetInv PROVE SettingsTypeOK
  OBVIOUS
<1>1. \A i \in Entries : Len(listed[i]) <= 2 /\ \A n \in DOMAIN listed[i] : listed[i][n] \in {"on", "off"}
  BY DEF SheetInv, SheetTypes, EntrySound, Tables, Shows
<1> QED BY <1>1 DEF SheetInv, SheetTypes, SettingsTypeOK, SheetRequests, EntryRequests

\* Every variable of a settings page keeps its type, and no entry is ever shown more than
\* twice: the load that shows a created row may come before its answer, which adds it again.
THEOREM SettingsTypes == SettingsSpec => []SettingsTypeOK
BY SheetTypesAre, SheetInitially, SheetStep, PTL DEF SettingsSpec

-----------------------------------------------------------------------------
(* A re-sync and its report (SyncProgress).                                 *)

Trackeds == [enabled : BOOLEAN, synced : 0 .. MaxTasks]
TaskStates == {"none", "queued", "active", "delayed", "failed", "removed"}
Backfills == [repo : Tracked \cup {NoTracked}, tries : 0 .. MaxTaskTries, state : TaskStates]
Polls == [step : {"idle", "rows", "jobs", "answered"}, forAll : BOOLEAN,
          rows : [Tracked -> 0 .. MaxTasks], busy : SUBSET Tracked]
Reports == [Tracked -> [known : BOOLEAN, synced : 0 .. MaxTasks, busy : BOOLEAN]]

\* Backfills that have left the queue.
Removed == {t \in Tasks : task[t].state = "removed"}

\* A repository is synced no more often than backfills were removed; a task that may run
\* has a repository and an attempt left.
ProgressInv ==
  /\ tracked \in [Tracked -> Trackeds] /\ task \in [Tasks -> Backfills]
  /\ expanded \in BOOLEAN /\ resyncing \in BOOLEAN /\ posting \in SUBSET Tracked
  /\ status \in [StatusSlots -> Polls] /\ report \in Reports
  /\ clicks \in 0 .. MaxClicks /\ lost \in 0 .. MaxLost
  /\ \A r \in Tracked : tracked[r].synced <= Cardinality(Removed)
  /\ \A t \in Tasks : task[t].state \in {"queued", "active", "delayed"} =>
       task[t].repo \in Tracked /\ task[t].tries < MaxTaskTries

LEMMA TasksFinite == IsFiniteSet(Tasks) /\ Cardinality(Tasks) = MaxTasks
BY SyncProgressAssumption, FS_Interval DEF Tasks

LEMMA ProgressInitially == SyncProgressInit => ProgressInv
<1> SUFFICES ASSUME SyncProgressInit PROVE ProgressInv
  OBVIOUS
<1>1. 0 \in 0 .. MaxTasks /\ 0 \in 0 .. MaxTaskTries /\ clicks \in 0 .. MaxClicks /\ lost \in 0 .. MaxLost
  BY SyncProgressAssumption DEF SyncProgressInit
<1>2. /\ tracked \in [Tracked -> Trackeds] /\ task \in [Tasks -> Backfills]
      /\ report \in Reports
  BY <1>1 DEF SyncProgressInit, Trackeds, Backfills, TaskStates, Reports
<1>3. status \in [StatusSlots -> Polls]
  BY <1>1 DEF SyncProgressInit, NotAsking, Polls
<1>4. Removed = {}
  BY DEF SyncProgressInit, Removed
<1>5. Cardinality(Removed) = 0
  BY <1>4, FS_EmptySet
<1>6. \A r \in Tracked : tracked[r].synced <= Cardinality(Removed)
  BY <1>5 DEF SyncProgressInit
<1>7. \A t \in Tasks : task[t].state = "none"
  BY DEF SyncProgressInit
<1>8. expanded \in BOOLEAN /\ resyncing \in BOOLEAN /\ posting \in SUBSET Tracked
  BY DEF SyncProgressInit
<1> QED BY <1>1, <1>2, <1>3, <1>6, <1>7, <1>8 DEF ProgressInv

\* A task that is removed is one more.
LEMMA OneMoreRemoved ==
  ASSUME ProgressInv, NEW t \in Tasks, task[t].state # "removed",
         task'[t].state = "removed", \A u \in Tasks \ {t} : task'[u] = task[u]
  PROVE  /\ Cardinality(Removed') = Cardinality(Removed) + 1
         /\ Cardinality(Removed) \in Nat /\ Cardinality(Removed') <= MaxTasks
<1>1. Removed' = Removed \cup {t} /\ t \notin Removed
  BY DEF Removed, Tasks
<1>2. IsFiniteSet(Removed)
  BY TasksFinite, FS_Subset DEF Removed
<1>3. Cardinality(Removed') <= Cardinality(Tasks)
  BY TasksFinite, FS_Subset DEF Removed, Tasks
<1> QED BY <1>1, <1>2, <1>3, TasksFinite, FS_AddElement, FS_CardinalityType

LEMMA ProgressStep == ProgressInv /\ [SyncProgressNext]_syncProgressVars => ProgressInv'
<1> SUFFICES ASSUME ProgressInv, [SyncProgressNext]_syncProgressVars PROVE ProgressInv'
  OBVIOUS
<1>0. /\ tracked \in [Tracked -> Trackeds] /\ task \in [Tasks -> Backfills]
      /\ expanded \in BOOLEAN /\ resyncing \in BOOLEAN /\ posting \in SUBSET Tracked
      /\ status \in [StatusSlots -> Polls] /\ report \in Reports
      /\ clicks \in 0 .. MaxClicks /\ lost \in 0 .. MaxLost
      /\ \A r \in Tracked : tracked[r].synced <= Cardinality(Removed)
      /\ \A t \in Tasks : task[t].state \in {"queued", "active", "delayed"} =>
           task[t].repo \in Tracked /\ task[t].tries < MaxTaskTries
  BY DEF ProgressInv
\* Steps of the user and of the page leave the tasks alone, and how often they synced.
<1>1. ASSUME UNCHANGED task, tracked' \in [Tracked -> Trackeds],
             \A r \in Tracked : tracked'[r].synced = tracked[r].synced,
             expanded' \in BOOLEAN, resyncing' \in BOOLEAN, posting' \in SUBSET Tracked,
             status' \in [StatusSlots -> Polls], report' \in Reports,
             clicks' \in 0 .. MaxClicks, lost' \in 0 .. MaxLost
      PROVE  ProgressInv'
  <2>1. Removed' = Removed
    BY <1>1 DEF Removed
  <2> QED BY <1>0, <1>1, <2>1 DEF ProgressInv
<1>2. ASSUME Click PROVE clicks' \in 0 .. MaxClicks
  BY <1>0, <1>2, SyncProgressAssumption DEF Click
<1>3. ASSUME Lose PROVE lost' \in 0 .. MaxLost
  BY <1>0, <1>3, SyncProgressAssumption DEF Lose
<1>4. CASE Resync \/ ToggleExpand
  <2>1. /\ UNCHANGED <<task, tracked, status, report, lost>> /\ Click
        /\ expanded' \in BOOLEAN /\ resyncing' \in BOOLEAN /\ posting' \in SUBSET Tracked
    BY <1>0, <1>4 DEF Resync, ToggleExpand
  <2> QED BY <1>0, <1>1, <1>2, <2>1
<1>5. ASSUME NEW r \in Tracked, ToggleTracked(r) PROVE ProgressInv'
  <2>1. /\ UNCHANGED <<task, expanded, resyncing, posting, status, report, lost>> /\ Click
        /\ tracked' = [tracked EXCEPT ![r].enabled = ~@]
    BY <1>5 DEF ToggleTracked
  <2>2. PICK q : q = [tracked[r] EXCEPT !.enabled = ~tracked[r].enabled]
    OBVIOUS
  <2>3. q \in Trackeds /\ q.synced = tracked[r].synced
    BY <1>0, <2>2 DEF Trackeds
  <2>4. tracked' = [tracked EXCEPT ![r] = q]
    BY <1>0, <2>1, <2>2 DEF Trackeds
  <2>5. tracked' \in [Tracked -> Trackeds] /\ \A s \in Tracked : tracked'[s].synced = tracked[s].synced
    BY <1>0, <2>3, <2>4
  <2> QED BY <1>0, <1>1, <1>2, <2>1, <2>5
<1>6. ASSUME NEW r \in Tracked, PostRefused(r) PROVE ProgressInv'
  <2>1. /\ UNCHANGED <<tracked, task, expanded, status, report, clicks>> /\ Lose
        /\ resyncing' = FALSE /\ posting' \in SUBSET Tracked
    BY <1>0, <1>6 DEF PostRefused
  <2> QED BY <1>0, <1>1, <1>3, <2>1
\* Steps of a poll.
<1>7. ASSUME NEW s \in StatusSlots, NEW q \in Polls, status' = [status EXCEPT ![s] = q],
             UNCHANGED <<tracked, task, expanded, posting, clicks>>,
             resyncing' \in BOOLEAN, report' \in Reports, lost' \in 0 .. MaxLost
      PROVE  ProgressInv'
  <2>1. status' \in [StatusSlots -> Polls]
    BY <1>0, <1>7
  <2> QED BY <1>0, <1>1, <1>7, <2>1
<1>8. NotAsking \in Polls
  BY SyncProgressAssumption DEF NotAsking, Polls
<1>9. ASSUME NEW s \in StatusSlots, StartStatus(s) PROVE ProgressInv'
  <2>1. PICK forAll \in BOOLEAN :
          status' = [status EXCEPT ![s] = [NotAsking EXCEPT !.step = "rows", !.forAll = forAll]]
    BY <1>9 DEF StartStatus
  <2>2. [NotAsking EXCEPT !.step = "rows", !.forAll = forAll] \in Polls
    BY <1>8 DEF Polls
  <2> QED BY <1>0, <1>7, <1>9, <2>1, <2>2 DEF StartStatus, cardVars
<1>10. ASSUME NEW s \in StatusSlots, ReadRows(s) PROVE ProgressInv'
  <2>1. PICK f : f = [r \in Tracked |-> tracked[r].synced]
    OBVIOUS
  <2>2. f \in [Tracked -> 0 .. MaxTasks]
    BY <1>0, <2>1 DEF Trackeds
  <2>3. [status[s] EXCEPT !.step = "jobs", !.rows = f] \in Polls
    BY <1>0, <2>2 DEF Polls
  <2>4. status' = [status EXCEPT ![s] = [status[s] EXCEPT !.step = "jobs", !.rows = f]]
    BY <1>0, <1>10, <2>1 DEF ReadRows, Polls
  <2> QED BY <1>0, <1>7, <1>10, <2>3, <2>4 DEF ReadRows, cardVars
<1>11. ASSUME NEW s \in StatusSlots, ReadJobs(s) PROVE ProgressInv'
  <2>1. PICK b : b = {task[t].repo : t \in {u \in Tasks : Pending(u)}}
    OBVIOUS
  <2>2. b \in SUBSET Tracked
    BY <1>0, <2>1 DEF Pending
  <2>3. [status[s] EXCEPT !.step = "answered", !.busy = b] \in Polls
    BY <1>0, <2>2 DEF Polls
  <2>4. status' = [status EXCEPT ![s] = [status[s] EXCEPT !.step = "answered", !.busy = b]]
    BY <1>0, <1>11, <2>1 DEF ReadJobs, Polls
  <2> QED BY <1>0, <1>7, <1>11, <2>3, <2>4 DEF ReadJobs, cardVars
<1>12. ASSUME NEW s \in StatusSlots, ShowStatus(s) PROVE ProgressInv'
  <2>1. report' \in Reports
    BY <1>0, <1>12 DEF ShowStatus, Reports, Polls
  <2>2. resyncing' \in BOOLEAN
    BY <1>12 DEF ShowStatus
  <2> QED BY <1>0, <1>7, <1>8, <1>12, <2>1, <2>2 DEF ShowStatus
<1>13. ASSUME NEW s \in StatusSlots, StatusLost(s) PROVE ProgressInv'
  BY <1>0, <1>3, <1>7, <1>8, <1>13 DEF StatusLost, cardVars
\* Steps of a task.
<1>14. ASSUME NEW t \in Tasks, NEW q \in Backfills, task' = [task EXCEPT ![t] = q],
              task[t].state # "removed", tracked' \in [Tracked -> Trackeds],
              \/ UNCHANGED tracked
              \/ /\ q.state = "removed"
                 /\ \A r \in Tracked : tracked'[r].synced \in {tracked[r].synced, tracked[r].synced + 1},
              q.state \in {"queued", "active", "delayed"} => q.repo \in Tracked /\ q.tries < MaxTaskTries,
              posting' \in SUBSET Tracked, UNCHANGED <<expanded, resyncing, clicks, status, report, lost>>
       PROVE  ProgressInv'
  <2>1. /\ task' \in [Tasks -> Backfills]
        /\ \A u \in Tasks : task'[u] = IF u = t THEN q ELSE task[u]
    BY <1>0, <1>14
  <2>2. \A r \in Tracked : tracked'[r].synced <= Cardinality(Removed')
    <3>1. CASE q.state = "removed"
      <4>1. Cardinality(Removed') = Cardinality(Removed) + 1 /\ Cardinality(Removed) \in Nat
        BY <1>14, <2>1, <3>1, OneMoreRemoved
      <4>2. \A r \in Tracked : tracked[r].synced \in Nat /\ tracked[r].synced <= Cardinality(Removed)
        BY <1>0 DEF Trackeds
      <4>3. \A r \in Tracked : tracked'[r].synced \in {tracked[r].synced, tracked[r].synced + 1}
        BY <1>14
      <4> QED BY <4>1, <4>2, <4>3
    <3>2. CASE q.state # "removed"
      <4>1. Removed' = Removed
        BY <1>14, <2>1, <3>2 DEF Removed
      <4> QED BY <1>0, <1>14, <3>2, <4>1
    <3> QED BY <3>1, <3>2
  <2> QED BY <1>0, <1>14, <2>1, <2>2 DEF ProgressInv
<1>15. ASSUME NEW r \in Tracked, EnqueueSync(r) PROVE ProgressInv'
  <2>1. PICK t \in Tasks :
          /\ task[t].state = "none"
          /\ task' = [task EXCEPT ![t] = [repo |-> r, state |-> "queued", tries |-> 0]]
    BY <1>15 DEF EnqueueSync
  <2>2. PICK q : q = [repo |-> r, state |-> "queued", tries |-> 0]
    OBVIOUS
  <2>3. q \in Backfills /\ q.repo \in Tracked /\ q.tries < MaxTaskTries
    BY <2>2, SyncProgressAssumption DEF Backfills, TaskStates
  <2>4. posting' \in SUBSET Tracked /\ UNCHANGED <<tracked, expanded, resyncing, status, report, clicks, lost>>
    BY <1>0, <1>15 DEF EnqueueSync
  <2> QED BY <1>0, <1>14, <2>1, <2>2, <2>3, <2>4
\* A task goes to another state.
<1>16. ASSUME NEW t \in Tasks, NEW st \in TaskStates
       PROVE  /\ [task[t] EXCEPT !.state = st] \in Backfills
              /\ [task[t] EXCEPT !.state = st].state = st
              /\ [task[t] EXCEPT !.state = st].repo = task[t].repo
              /\ [task[t] EXCEPT !.state = st].tries = task[t].tries
              /\ [task EXCEPT ![t].state = st] = [task EXCEPT ![t] = [task[t] EXCEPT !.state = st]]
  BY <1>0 DEF Backfills
<1>17. ASSUME NEW t \in Tasks, NEW st \in TaskStates, task' = [task EXCEPT ![t].state = st],
              task[t].state \in {"queued", "active", "delayed"},
              UNCHANGED <<tracked, expanded, resyncing, posting, clicks, status, report, lost>>
       PROVE  ProgressInv'
  <2>1. PICK q : q = [task[t] EXCEPT !.state = st]
    OBVIOUS
  <2>2. /\ q \in Backfills /\ task' = [task EXCEPT ![t] = q]
        /\ q.repo \in Tracked /\ q.tries < MaxTaskTries
    BY <1>0, <1>16, <1>17, <2>1
  <2> QED BY <1>0, <1>14, <1>17, <2>2
<1>18. ASSUME NEW t \in Tasks, TakeTask(t) PROVE ProgressInv'
  BY <1>17, <1>18 DEF TakeTask, cardVars, TaskStates
<1>19. ASSUME NEW t \in Tasks, RetryTask(t) PROVE ProgressInv'
  BY <1>17, <1>19 DEF RetryTask, cardVars, TaskStates
<1>20. ASSUME NEW t \in Tasks, FinishTask(t) PROVE ProgressInv'
  <2>1. PICK q : q = [task[t] EXCEPT !.state = "removed"]
    OBVIOUS
  <2>2. /\ q \in Backfills /\ q.state = "removed" /\ task' = [task EXCEPT ![t] = q]
        /\ task[t].state = "active" /\ task[t].repo \in Tracked
    BY <1>0, <1>16, <1>20, <2>1 DEF FinishTask, TaskStates
  <2>3. PICK r \in Tracked : r = task[t].repo
    BY <2>2
  <2>4. tracked' = [tracked EXCEPT ![r].synced = @ + 1]
    BY <1>20, <2>3 DEF FinishTask
  <2>5. /\ UNCHANGED <<expanded, resyncing, posting, clicks, status, report, lost>>
    BY <1>20 DEF FinishTask, cardVars
  <2>6. tracked[r].synced + 1 \in 0 .. MaxTasks
    <3>1. \A u \in Tasks : task'[u] = IF u = t THEN q ELSE task[u]
      BY <1>0, <2>2
    <3>2. /\ Cardinality(Removed') = Cardinality(Removed) + 1 /\ Cardinality(Removed) \in Nat
          /\ Cardinality(Removed') <= MaxTasks
      BY <2>2, <3>1, OneMoreRemoved
    <3>3. tracked[r].synced \in Nat /\ tracked[r].synced <= Cardinality(Removed)
      BY <1>0 DEF Trackeds
    <3> QED BY <3>2, <3>3, SyncProgressAssumption
  <2>7. PICK y : y = [tracked[r] EXCEPT !.synced = tracked[r].synced + 1]
    OBVIOUS
  <2>8. y \in Trackeds /\ y.synced = tracked[r].synced + 1
    BY <1>0, <2>6, <2>7 DEF Trackeds
  <2>9. tracked' = [tracked EXCEPT ![r] = y]
    BY <1>0, <2>4, <2>7 DEF Trackeds
  <2>10. /\ tracked' \in [Tracked -> Trackeds]
         /\ \A s \in Tracked : tracked'[s].synced \in {tracked[s].synced, tracked[s].synced + 1}
    BY <1>0, <2>8, <2>9
  <2> QED BY <1>0, <1>14, <2>2, <2>5, <2>10
<1>21. ASSUME NEW t \in Tasks, TaskFails(t) PROVE ProgressInv'
  <2>1. PICK st : st = IF task[t].tries + 1 = MaxTaskTries THEN "failed" ELSE "delayed"
    OBVIOUS
  <2>2. PICK n : n = task[t].tries + 1
    OBVIOUS
  <2>3. /\ task[t].state = "active" /\ task[t].repo \in Tracked
        /\ n \in 0 .. MaxTaskTries /\ st \in TaskStates
        /\ st = "failed" \/ n < MaxTaskTries
    BY <1>0, <1>21, <2>1, <2>2, SyncProgressAssumption DEF TaskFails, Backfills, TaskStates
  <2>4. PICK q : q = [task[t] EXCEPT !.tries = n, !.state = st]
    OBVIOUS
  <2>5. q \in Backfills /\ q.state = st /\ q.tries = n /\ q.repo = task[t].repo
    BY <1>0, <2>3, <2>4 DEF Backfills
  <2>6. task' = [task EXCEPT ![t] = q]
    BY <1>0, <1>21, <2>1, <2>2, <2>4 DEF TaskFails, Backfills
  <2>7. UNCHANGED <<tracked, expanded, resyncing, posting, clicks, status, report, lost>>
    BY <1>21 DEF TaskFails, cardVars
  <2>8. q.state \in {"queued", "active", "delayed"} => q.repo \in Tracked /\ q.tries < MaxTaskTries
    BY <2>3, <2>5
  <2> QED BY <1>0, <1>14, <2>3, <2>5, <2>6, <2>7, <2>8
<1>22. CASE UNCHANGED syncProgressVars
  BY <1>0, <1>1, <1>22 DEF syncProgressVars
<1> QED
  BY <1>4, <1>5, <1>6, <1>9, <1>10, <1>11, <1>12, <1>13, <1>15, <1>18, <1>19, <1>20, <1>21, <1>22
  DEF SyncProgressNext, StatusStep, TaskStep

LEMMA ProgressTypesAre == ProgressInv => SyncProgressTypeOK
BY DEF ProgressInv, SyncProgressTypeOK, Trackeds, Backfills, TaskStates, Polls, Reports

\* Every variable of a re-sync and its report keeps its type: no backfill is counted twice,
\* and none is tried more often than its queue is configured for.
THEOREM SyncProgressTypes == SyncProgressSpec => []SyncProgressTypeOK
BY ProgressTypesAre, ProgressInitially, ProgressStep, PTL DEF SyncProgressSpec

-----------------------------------------------------------------------------
(* All of it together (MCDashboard).                                       *)

\* In a behaviour of the whole, every component makes its own steps or stutters.
LEMMA EachPart ==
  DashboardSpec =>
    /\ Init /\ [][Next]_vars
    /\ LiveStreamInit /\ [][LiveStreamNext]_liveStreamVars
    /\ LiveViewInit /\ [][LiveViewNext]_liveViewVars
    /\ RunPagesInit /\ [][RunPagesNext]_runPagesVars
    /\ SettingsInit /\ [][SettingsNext]_settingsVars
    /\ SyncProgressInit /\ [][SyncProgressNext]_syncProgressVars
    /\ OnboardingInit /\ [][OnboardingNext]_onboardingVars
    /\ ApiClientInit /\ [][ApiClientNext]_authVars
<1>1. DashboardInit =>
        /\ Init /\ LiveStreamInit /\ LiveViewInit /\ RunPagesInit /\ SettingsInit
        /\ SyncProgressInit /\ OnboardingInit /\ ApiClientInit
  BY DEF DashboardInit
<1>2. [DashboardNext]_dashboardVars =>
        /\ [Next]_vars /\ [LiveStreamNext]_liveStreamVars /\ [LiveViewNext]_liveViewVars
        /\ [RunPagesNext]_runPagesVars /\ [SettingsNext]_settingsVars
        /\ [SyncProgressNext]_syncProgressVars /\ [OnboardingNext]_onboardingVars
        /\ [ApiClientNext]_authVars
  BY DEF DashboardNext, About, dashboardVars
<1> QED BY <1>1, <1>2, PTL DEF DashboardSpec

\* Every variable between GitHub and a page keeps its type, whatever the behaviour is about.
THEOREM DashboardTypesKept == DashboardSpec => []DashboardTypeOK
<1>1. LiveInv => LiveStreamTypeOK
  BY DEF LiveInv, LiveTypes, LivePages, GrantStates, StreamStates, LiveStreamTypeOK
<1>2. EarnedInv => LiveViewTypeOK
  BY DEF EarnedInv
<1>3. SelectionInv => SelectionTypeOK
  BY DEF SelectionInv
<1>4. SelectionTypeOK /\ WizardTypes /\ [OnboardingNext]_onboardingVars => WizardTypes'
  BY WizardTypesKept
<1>5. /\ TypeOK /\ LiveStreamTypeOK /\ LiveViewTypeOK /\ RunPagesTypeOK
      /\ SettingsTypeOK /\ SyncProgressTypeOK /\ OnboardingTypeOK /\ ApiClientTypeOK
      => DashboardTypeOK
  BY DEF DashboardTypeOK
<1>6. SheetInv => SettingsTypeOK
  BY SheetTypesAre
<1>7. ProgressInv => SyncProgressTypeOK
  BY ProgressTypesAre
<1> QED
  BY <1>1, <1>2, <1>3, <1>4, <1>5, <1>6, <1>7, EachPart, PollingTypesKept, RunPagesInvariant,
     LiveInitial, LiveStep, ViewInitially, ViewStep, SheetInitially, SheetStep,
     ProgressInitially, ProgressStep, SelectionInit, SelectionStep, WizardInitially, WizardTypesAre,
     ApiClientInitType, ApiClientNextType, PTL
  DEF Spec, RunPagesSpec

\* In a behaviour of the whole a list shows each run once, what the wizard says it stored is
\* stored, a session is not lost while its token is renewed, a page has one connection, and
\* what is green has passed or has a status the code does not know.
THEOREM EachPartIsSafe ==
  DashboardSpec =>
    /\ [](EachRunOnce /\ SelectionStored /\ SessionKept)
    /\ [](OneConnection /\ GreenIsEarned)
<1>1. EarnedInv => GreenIsEarned
  BY DEF EarnedInv, GreenIsEarned, Earned, MayBeGreen
<1> QED
  BY <1>1, EachPart, ListedOnce, SelectionInit, SelectionStep, SelectionKeptTo,
     ApiClientInitType, ApiClientNextType, SessionInvInit, SessionInvStep, SessionInvKeeps,
     LiveInitial, LiveStep, OneConnectionOf, ViewInitially, ViewStep, PTL
  DEF RunPagesSpec

\* What the liveness properties settle on is a state of rest that is right, in a behaviour of
\* the whole too: no skeleton without its load, no call without its refresh, the token of
\* the cookie, and a stream for each page that stays.
THEOREM EachPartRests ==
  DashboardSpec => [](NoIdleSkeleton /\ RestsWithToken /\ PagesServed)
<1>1. WizardTypes => WizardFetches
  BY DEF WizardTypes, WizardFetches
<1>2. SelectionInv => SelectionTypeOK
  BY DEF SelectionInv
<1> QED
  BY <1>1, <1>2, EachPart, SelectionInit, SelectionStep, WizardInitially, WizardTypesKept,
     SkeletonInit, SkeletonStep, ApiClientInitType, ApiClientNextType, TokenRestInit,
     NobodyForgottenStep, MemoryFollowsStep, TokenRests, LiveInitial, LiveStep,
     PagesConnectInit, PagesConnectStep, ServedAtRest, PTL

\* In a behaviour of the whole with PATCHes one at a time, the jobs of a repository are
\* those of its row, and a PATCH after faults repairs them.
THEOREM SerialPartIsSafe ==
  ASSUME OneAtATime PROVE DashboardSpec => [](SerialSyncExact /\ SerialSyncRepairs)
BY EachPart, SerialExact, SerialRepairs, PTL DEF Spec

=============================================================================
