------------------------- MODULE PlanLimits_proofs --------------------------
(***************************************************************************)
(* For any number of repositories, workspaces and requests and any limits: what *)
(* a plan allows is exceeded only by the requests that overlap.            *)
(*                                                                         *)
(* The limits are not inductive: a request that has counted will write, whatever *)
(* happens meanwhile.  Each invariant therefore counts what is about to be *)
(* written with what is there.                                             *)
(***************************************************************************)
EXTENDS RepoLimit, Workspaces, FiniteSetTheorems, TLAPS

-----------------------------------------------------------------------------
(* Repositories (RepoLimit).                                                *)

USE RepoLimitAssumption

PatchRecords == [step : {"idle", "plan", "count", "write"}, repo : Repos \cup {NoRepo},
                 enable : BOOLEAN, plan : Plan]

\* A request in progress is about a repository.
PatchesNamed == \A q \in Patches : ~PatchIs(q, "idle") => patch[q].repo \in Repos

RepoLimitTypes == RepoLimitTypeOK /\ PatchesNamed

\* The enabled repositories and those about to be, and the limits in use.
ReposReckoned ==
  /\ Cardinality(enabled \cup Pending) <= allowance + Overshoot
  /\ Cardinality(Enabling) <= peak
  /\ RepoCap[plan] <= allowance
  /\ \A q \in Patches : PatchIs(q, "count") => RepoCap[patch[q].plan] <= allowance

-----------------------------------------------------------------------------

LEMMA RepoCount == Cardinality(Repos) \in Nat
BY FS_CardinalityType

LEMMA CapType == \A p \in Plan : RepoCap[p] \in Nat
BY RepoCount DEF RepoCap, Plan

\* The image of a finite set is no larger.
LEMMA ImageSize ==
  ASSUME NEW S, IsFiniteSet(S), NEW g
  PROVE  /\ IsFiniteSet({g[x] : x \in S})
         /\ Cardinality({g[x] : x \in S}) <= Cardinality(S)
<1> DEFINE T == {g[x] : x \in S}
           f == [x \in S |-> g[x]]
<1>1. f \in Surjection(S, T)
  BY DEF Surjection
<1> HIDE DEF f, T
<1>2. IsFiniteSet(T) /\ Cardinality(T) <= Cardinality(S)
  BY <1>1, FS_Surjection
<1> QED BY <1>2 DEF T

\* Both sets are finite, and no more repositories are pending than requests.
LEMMA PendingSize ==
  ASSUME RepoLimitTypes
  PROVE  /\ IsFiniteSet(Enabling) /\ Cardinality(Enabling) \in Nat
         /\ IsFiniteSet(Pending) /\ Cardinality(Pending) \in Nat
         /\ Cardinality(Pending) <= Cardinality(Enabling)
         /\ Pending \subseteq Repos
<1>1. IsFiniteSet(Enabling)
  BY FS_Subset DEF Enabling
<1> DEFINE g == [q \in Patches |-> patch[q].repo]
<1>2. Pending = {g[q] : q \in Enabling}
  BY DEF Pending, Enabling
<1>3. IsFiniteSet({g[q] : q \in Enabling}) /\ Cardinality({g[q] : q \in Enabling}) <= Cardinality(Enabling)
  <2> HIDE DEF g
  <2> QED BY <1>1, ImageSize
<1>4. Pending \subseteq Repos
  BY DEF Pending, Enabling, RepoLimitTypes, PatchesNamed, PatchIs
<1> QED BY <1>1, <1>2, <1>3, <1>4, FS_CardinalityType

PendingBounded ==
  /\ IsFiniteSet(Pending) /\ Cardinality(Pending) \in Nat
  /\ Cardinality(Pending) <= Cardinality(Enabling)
  /\ Pending \subseteq Repos

LEMMA NextPendingSize == RepoLimitTypes' => PendingBounded'
<1>1. RepoLimitTypes => PendingBounded
  BY PendingSize DEF PendingBounded
<1> QED BY <1>1, PTL

\* A set of repositories is finite, and the larger for what it contains.
LEMMA RepoSets ==
  \A S \in SUBSET Repos :
    /\ IsFiniteSet(S) /\ Cardinality(S) \in Nat /\ Cardinality(S) <= Cardinality(Repos)
    /\ \A T \in SUBSET S : Cardinality(T) <= Cardinality(S)
<1> TAKE S \in SUBSET Repos
<1>1. IsFiniteSet(S) /\ Cardinality(S) <= Cardinality(Repos)
  BY FS_Subset
<1>2. Cardinality(S) \in Nat
  BY <1>1, FS_CardinalityType
<1>3. \A T \in SUBSET S : Cardinality(T) <= Cardinality(S)
  BY <1>1, FS_Subset
<1> QED BY <1>1, <1>2, <1>3

\* A repository more.
LEMMA OneMore ==
  \A S \in SUBSET Repos, r \in Repos : Cardinality(S \cup {r}) <= Cardinality(S) + 1
<1> TAKE S \in SUBSET Repos, r \in Repos
<1>1. IsFiniteSet(S) /\ Cardinality(S) \in Nat
  BY RepoSets
<1>2. Cardinality(S \cup {r}) = IF r \in S THEN Cardinality(S) ELSE Cardinality(S) + 1
  BY <1>1, FS_AddElement, Zenon
<1> QED BY <1>1, <1>2

-----------------------------------------------------------------------------

LEMMA RepoLimitStart == RepoLimitInit => RepoLimitTypes
<1> SUFFICES ASSUME RepoLimitInit PROVE RepoLimitTypes
  OBVIOUS
<1>1. NoPatch \in PatchRecords
  BY DEF NoPatch, PatchRecords, Plan, NoRepo
<1>2. patch \in [Patches -> PatchRecords] /\ \A q \in Patches : patch[q].step = "idle"
  BY <1>1 DEF RepoLimitInit, NoPatch
<1>3. RepoLimitTypeOK
  <2>1. known \in SUBSET Repos /\ enabled \in SUBSET known
    BY DEF RepoLimitInit
  <2>2. plan \in Plan /\ allowance \in Nat /\ peak \in Nat
    BY DEF RepoLimitInit, Plan
  <2> QED BY <1>2, <2>1, <2>2 DEF RepoLimitTypeOK, PatchRecords
<1> QED BY <1>2, <1>3 DEF RepoLimitTypes, PatchesNamed, PatchIs

LEMMA WritingType ==
  ASSUME RepoLimitTypes, patch' \in [Patches -> PatchRecords], Writing
  PROVE  /\ peak' \in Nat /\ peak' >= peak /\ Cardinality(Enabling') <= peak'
         /\ Cardinality(Enabling') \in Nat
<1>1. IsFiniteSet(Enabling')
  BY FS_Subset DEF Enabling
<1>2. Cardinality(Enabling') \in Nat
  BY <1>1, FS_CardinalityType
<1> QED BY <1>2 DEF Writing, Larger, RepoLimitTypes, RepoLimitTypeOK

LEMMA ReckonType ==
  ASSUME RepoLimitTypes, NEW n \in Nat, enabled' \subseteq Repos, Reckon(n)
  PROVE  allowance' \in Nat /\ peak' \in Nat /\ n <= allowance'
<1>1. Cardinality(enabled') \in Nat /\ Cardinality(Repos) \in Nat
  BY RepoSets, RepoCount
<1>2. enabled' \ enabled \in SUBSET Repos
  OBVIOUS
<1>3. Cardinality(enabled' \ enabled) \in Nat
  BY <1>2, RepoSets
<1> QED BY <1>1, <1>3 DEF Reckon, Larger, Smaller, RepoLimitTypes, RepoLimitTypeOK

LEMMA RepoLimitNextTypes == RepoLimitTypes /\ [RepoLimitNext]_repoLimitVars => RepoLimitTypes'
<1> SUFFICES ASSUME RepoLimitTypes, [RepoLimitNext]_repoLimitVars PROVE RepoLimitTypes'
  OBVIOUS
<1>a. /\ known \in SUBSET Repos /\ enabled \in SUBSET known /\ plan \in Plan
      /\ patch \in [Patches -> PatchRecords] /\ allowance \in Nat /\ peak \in Nat
  BY DEF RepoLimitTypes, RepoLimitTypeOK, PatchRecords
<1>b. NoPatch \in PatchRecords /\ NoPatch.step = "idle"
  BY DEF NoPatch, PatchRecords, Plan
<1>c. SUFFICES /\ known' \in SUBSET Repos /\ enabled' \in SUBSET known' /\ plan' \in Plan
               /\ patch' \in [Patches -> PatchRecords] /\ allowance' \in Nat /\ peak' \in Nat
               /\ PatchesNamed'
  BY DEF RepoLimitTypes, RepoLimitTypeOK, PatchRecords
\* One request's record is replaced by one that is idle or keeps or has its repository.
<1>d. ASSUME NEW q \in Patches, NEW v \in PatchRecords, patch' = [patch EXCEPT ![q] = v],
             v.step = "idle" \/ v.repo \in Repos
      PROVE  patch' \in [Patches -> PatchRecords] /\ PatchesNamed'
  <2>1. patch' \in [Patches -> PatchRecords] /\ patch'[q] = v
    BY <1>a, <1>d
  <2>2. \A p \in Patches \ {q} : patch'[p] = patch[p]
    BY <1>a, <1>d
  <2> QED BY <2>1, <2>2, <1>d DEF RepoLimitTypes, PatchesNamed, PatchIs
<1>1. ASSUME NEW q \in Patches, ReadRow(q) PROVE <1>c!1
  <2>1. PICK r \in known, want \in BOOLEAN :
          patch' = [patch EXCEPT ![q] =
            [step |-> IF want /\ r \notin enabled THEN "plan" ELSE "write",
             repo |-> r, enable |-> want, plan |-> "free"]]
    BY <1>1 DEF ReadRow
  <2> DEFINE v == [step |-> IF want /\ r \notin enabled THEN "plan" ELSE "write",
                   repo |-> r, enable |-> want, plan |-> "free"]
  <2>2. v \in PatchRecords /\ v.repo \in Repos
    BY <1>a DEF PatchRecords, Plan
  <2>3. patch' = [patch EXCEPT ![q] = v]
    BY <2>1
  <2> HIDE DEF v
  <2>4. patch' \in [Patches -> PatchRecords] /\ PatchesNamed'
    BY <1>d, <2>2, <2>3
  <2> QED BY <1>1, <1>a, <2>4, WritingType DEF ReadRow
<1>2. ASSUME NEW q \in Patches, ReadPlan(q) PROVE <1>c!1
  <2> DEFINE v == [patch[q] EXCEPT !.step = "count", !.plan = plan]
  <2>1. v \in PatchRecords /\ v.repo = patch[q].repo
    BY <1>a DEF PatchRecords
  <2>2. patch' = [patch EXCEPT ![q] = v]
    BY <1>2, <1>a DEF ReadPlan
  <2>3. patch[q].repo \in Repos
    BY <1>2 DEF ReadPlan, RepoLimitTypes, PatchesNamed, PatchIs
  <2> HIDE DEF v
  <2>4. patch' \in [Patches -> PatchRecords] /\ PatchesNamed'
    BY <1>d, <2>1, <2>2, <2>3
  <2> QED BY <1>2, <1>a, <2>4 DEF ReadPlan
<1>3. ASSUME NEW q \in Patches, CountRepos(q) PROVE <1>c!1
  <2> DEFINE v == IF Cardinality(enabled \ {patch[q].repo}) >= RepoCap[patch[q].plan]
                    THEN NoPatch ELSE [patch[q] EXCEPT !.step = "write"]
  <2>1. patch[q].repo \in Repos
    BY <1>3 DEF CountRepos, RepoLimitTypes, PatchesNamed, PatchIs
  <2>2. v \in PatchRecords /\ (v.step = "idle" \/ v.repo \in Repos)
    BY <1>a, <1>b, <2>1 DEF PatchRecords
  <2>3. patch' = [patch EXCEPT ![q] = v]
    BY <1>3, <1>a DEF CountRepos
  <2> HIDE DEF v
  <2>4. patch' \in [Patches -> PatchRecords] /\ PatchesNamed'
    BY <1>d, <2>2, <2>3
  <2> QED BY <1>3, <1>a, <2>4, WritingType DEF CountRepos
<1>4. ASSUME NEW q \in Patches, WriteRow(q) PROVE <1>c!1
  <2>1. patch' \in [Patches -> PatchRecords] /\ PatchesNamed'
    BY <1>4, <1>b, <1>d DEF WriteRow
  <2>2. enabled' \in SUBSET known
    BY <1>4, <1>a DEF WriteRow
  <2> QED BY <1>4, <1>a, <2>1, <2>2 DEF WriteRow
<1>e. ASSUME UNCHANGED patch PROVE PatchesNamed'
  BY <1>e DEF RepoLimitTypes, PatchesNamed, PatchIs
<1>5. ASSUME NEW r \in Repos, Discover(r) PROVE <1>c!1
  <2>1. known' \in SUBSET Repos /\ enabled' \in SUBSET known'
    BY <1>5, <1>a DEF Discover
  <2>2. allowance' \in Nat /\ peak' \in Nat
    BY <1>5, <1>a, <2>1, CapType, ReckonType DEF Discover
  <2> QED BY <1>5, <1>a, <1>e, <2>1, <2>2 DEF Discover
<1>6. ASSUME NEW r \in Repos, RemoveRepo(r) PROVE <1>c!1
  <2>1. known' \in SUBSET Repos /\ enabled' \in SUBSET known'
    BY <1>6, <1>a DEF RemoveRepo
  <2> QED BY <1>6, <1>a, <1>e, <2>1 DEF RemoveRepo
<1>7. ASSUME NEW p \in Plan, PlanChanges(p) PROVE <1>c!1
  <2>1. allowance' \in Nat /\ peak' \in Nat
    BY <1>7, <1>a, CapType, ReckonType DEF PlanChanges
  <2> QED BY <1>7, <1>a, <1>e, <2>1 DEF PlanChanges
<1>8. CASE UNCHANGED repoLimitVars
  BY <1>8, <1>a, <1>e DEF repoLimitVars
<1> QED BY <1>1, <1>2, <1>3, <1>4, <1>5, <1>6, <1>7, <1>8 DEF RepoLimitNext

\* Every variable keeps its type.
THEOREM RepoLimitTypesKept == RepoLimitSpec => []RepoLimitTypeOK
<1>1. RepoLimitTypes => RepoLimitTypeOK
  BY DEF RepoLimitTypes
<1> QED BY RepoLimitStart, RepoLimitNextTypes, <1>1, PTL DEF RepoLimitSpec

-----------------------------------------------------------------------------

LEMMA ReposReckonedAtFirst == RepoLimitInit => ReposReckoned
<1> SUFFICES ASSUME RepoLimitInit PROVE ReposReckoned
  OBVIOUS
<1>1. Enabling = {}
  BY DEF RepoLimitInit, Enabling, NoPatch
<1>2. enabled \cup Pending = {}
  BY <1>1 DEF RepoLimitInit, Pending
<1>3. Cardinality({}) = 0
  BY FS_EmptySet
<1>4. \A q \in Patches : ~PatchIs(q, "count")
  BY DEF RepoLimitInit, PatchIs, NoPatch
<1>5. RepoCap[plan] = FreeRepos
  BY DEF RepoLimitInit, RepoCap, Plan
<1> QED BY <1>1, <1>2, <1>3, <1>4, <1>5 DEF ReposReckoned, Overshoot, RepoLimitInit

\* A step that enables, schedules and counts nothing new, under the same reckoning.
LEMMA NothingMore ==
  ASSUME RepoLimitTypes, RepoLimitTypes', ReposReckoned,
         enabled' \cup Pending' \subseteq enabled \cup Pending,
         Cardinality(Enabling') <= peak', peak' >= peak,
         allowance' = allowance, RepoCap[plan'] <= allowance',
         \A q \in Patches : PatchIs(q, "count")' => RepoCap[patch'[q].plan] <= allowance'
  PROVE  ReposReckoned'
<1>1. enabled \cup Pending \in SUBSET Repos
  BY PendingSize DEF RepoLimitTypes, RepoLimitTypeOK
<1>2. enabled' \cup Pending' \in SUBSET Repos
  BY <1>1
<1>3. /\ Cardinality(enabled' \cup Pending') <= Cardinality(enabled \cup Pending)
      /\ Cardinality(enabled' \cup Pending') \in Nat
      /\ Cardinality(enabled \cup Pending) \in Nat
  BY <1>1, <1>2, RepoSets
<1>4. allowance \in Nat /\ peak \in Nat /\ peak' \in Nat
  BY DEF RepoLimitTypes, RepoLimitTypeOK
<1>5. Cardinality(enabled' \cup Pending') <= allowance' + Overshoot'
  BY <1>3, <1>4 DEF ReposReckoned, Overshoot
<1> QED BY <1>5 DEF ReposReckoned, PatchIs

\* A request that passed the count: what was enabled is below the limit, and the
\* requests about to write are its own and those of the overshoot.
LEMMA CountKeeps ==
  ASSUME RepoLimitTypes, RepoLimitTypes', ReposReckoned, NEW q \in Patches, CountRepos(q)
  PROVE  ReposReckoned'
<1> USE DEF PatchIs
<1>a. /\ enabled \in SUBSET Repos /\ patch \in [Patches -> PatchRecords]
      /\ allowance \in Nat /\ peak \in Nat /\ plan \in Plan
  BY DEF RepoLimitTypes, RepoLimitTypeOK, PatchRecords
<1>b. /\ patch[q].step = "count" /\ patch[q].plan \in Plan /\ patch[q].repo \in Repos
      /\ UNCHANGED <<known, enabled, plan, allowance>>
  BY <1>a DEF CountRepos, RepoLimitTypes, PatchesNamed, PatchRecords
<1>c. \A p \in Patches \ {q} : patch'[p] = patch[p]
  BY <1>a DEF CountRepos
<1>d. patch' \in [Patches -> PatchRecords]
  BY DEF RepoLimitTypes, RepoLimitTypeOK, PatchRecords
<1>e. peak' \in Nat /\ peak' >= peak /\ Cardinality(Enabling') <= peak' /\ Cardinality(Enabling') \in Nat
  BY <1>d, WritingType DEF CountRepos
<1>1. CASE Cardinality(enabled \ {patch[q].repo}) >= RepoCap[patch[q].plan]
  <2>1. patch'[q] = NoPatch
    BY <1>1, <1>a DEF CountRepos
  <2>2. Enabling' = Enabling
    BY <1>b, <1>c, <2>1 DEF Enabling, NoPatch
  <2>3. Pending' = Pending
    BY <1>b, <1>c, <2>1, <2>2 DEF Pending, Enabling
  <2>4. \A p \in Patches : patch'[p].step = "count" => patch'[p].plan = patch[p].plan /\ patch[p].step = "count"
    BY <1>c, <2>1 DEF NoPatch
  <2>5. \A p \in Patches : patch'[p].step = "count" => RepoCap[patch'[p].plan] <= allowance'
    BY <1>b, <2>4 DEF ReposReckoned
  <2> QED BY <1>b, <1>e, <2>3, <2>5, NothingMore DEF ReposReckoned
<1>2. CASE ~(Cardinality(enabled \ {patch[q].repo}) >= RepoCap[patch[q].plan])
  <2> DEFINE rest == enabled \ {patch[q].repo}
  <2>1. patch'[q] = [patch[q] EXCEPT !.step = "write"]
    BY <1>2, <1>a DEF CountRepos
  <2>2. patch'[q].step = "write" /\ patch'[q].repo = patch[q].repo
    BY <1>a, <2>1 DEF PatchRecords
  <2>3. \A p \in Patches : patch'[p].step = "count" => patch'[p].plan = patch[p].plan /\ patch[p].step = "count"
    BY <1>c, <2>2
  <2>4. \A p \in Patches : patch'[p].step = "count" => RepoCap[patch'[p].plan] <= allowance'
    BY <1>b, <2>3 DEF ReposReckoned
  <2>5. /\ IsFiniteSet(Pending') /\ Cardinality(Pending') \in Nat
        /\ Cardinality(Pending') <= Cardinality(Enabling') /\ Pending' \subseteq Repos
    BY NextPendingSize DEF PendingBounded
  <2>6. CASE patch[q].enable
    <3>1. q \in Enabling'
      BY <1>a, <2>1, <2>2, <2>6 DEF Enabling, PatchRecords
    <3>2. patch[q].repo \in Pending'
      BY <2>2, <3>1 DEF Pending
    <3>3. enabled' \cup Pending' = rest \cup Pending'
      BY <1>b, <3>2
    <3>4. IsFiniteSet(rest) /\ Cardinality(rest) \in Nat
      <4>1. rest \in SUBSET Repos
        BY <1>a
      <4> QED BY <4>1, RepoSets
    <3>5. rest \cup Pending' \in SUBSET Repos /\ rest \cap Pending' \in SUBSET Repos
      BY <1>a, <2>5
    <3>6. Cardinality(rest \cup Pending') \in Nat /\ Cardinality(rest \cap Pending') \in Nat
      BY <3>5, RepoSets
    <3>7. Cardinality(rest \cup Pending') = Cardinality(rest) + Cardinality(Pending') - Cardinality(rest \cap Pending')
      BY <2>5, <3>4, FS_Union
    <3>8. Cardinality(rest) < RepoCap[patch[q].plan] /\ RepoCap[patch[q].plan] <= allowance
      BY <1>2, <1>b, <3>4, CapType DEF ReposReckoned
    <3>9. Cardinality(Enabling') # 0
      <4>1. IsFiniteSet(Enabling')
        BY FS_Subset DEF Enabling
      <4> QED BY <3>1, <4>1, FS_EmptySet
    <3>10. Cardinality(rest \cup Pending') <= allowance + (peak' - 1)
      <4> HIDE DEF rest
      <4> QED BY <1>a, <1>b, <1>e, <2>5, <3>4, <3>6, <3>7, <3>8, CapType
    <3>11. Cardinality(enabled' \cup Pending') <= allowance' + Overshoot'
      <4>1. Overshoot' = peak' - 1
        <5>1. peak' # 0
          BY <1>e, <3>9
        <5> QED BY <5>1 DEF Overshoot
      <4>2. allowance' = allowance
        BY <1>b
      <4> HIDE DEF rest
      <4> QED BY <3>3, <3>10, <4>1, <4>2
    <3> QED BY <1>b, <1>e, <2>4, <3>11 DEF ReposReckoned
  <2>7. CASE ~patch[q].enable
    <3>1. ~patch'[q].enable
      BY <1>a, <2>1, <2>7 DEF PatchRecords
    <3>2. Enabling' = Enabling
      BY <1>c, <2>7, <3>1 DEF Enabling
    <3>3. q \notin Enabling
      BY <1>b DEF Enabling
    <3>4. \A p \in Enabling : patch'[p].repo = patch[p].repo
      BY <1>c, <3>3 DEF Enabling
    <3>5. Pending' = Pending
      BY <3>2, <3>4 DEF Pending
    <3> QED BY <1>b, <1>e, <2>4, <3>5, NothingMore DEF ReposReckoned
  <2> QED BY <1>a, <2>6, <2>7 DEF PatchRecords
<1> QED BY <1>1, <1>2

\* The other steps of a request: of one row read as enabled, the update adds nothing
\* to what is reckoned, and of one to be checked nothing is pending yet.
LEMMA PatchKeeps ==
  ASSUME RepoLimitTypes, RepoLimitTypes', ReposReckoned, NEW q \in Patches,
         ReadRow(q) \/ ReadPlan(q) \/ WriteRow(q)
  PROVE  ReposReckoned'
<1> USE DEF PatchIs
<1>a. /\ enabled \in SUBSET Repos /\ patch \in [Patches -> PatchRecords]
      /\ allowance \in Nat /\ peak \in Nat /\ plan \in Plan
      /\ patch' \in [Patches -> PatchRecords]
  BY DEF RepoLimitTypes, RepoLimitTypeOK, PatchRecords
<1>1. CASE ReadRow(q)
  <2>1. PICK r \in known, want \in BOOLEAN :
          patch' = [patch EXCEPT ![q] =
            [step |-> IF want /\ r \notin enabled THEN "plan" ELSE "write",
             repo |-> r, enable |-> want, plan |-> "free"]]
    BY <1>1 DEF ReadRow
  <2>2. /\ patch'[q].step = (IF want /\ r \notin enabled THEN "plan" ELSE "write")
        /\ patch'[q].repo = r /\ patch'[q].enable = want
    BY <1>a, <2>1
  <2>3. \A p \in Patches \ {q} : patch'[p] = patch[p]
    BY <1>a, <2>1
  <2>4. q \in Enabling' => r \in enabled
    BY <2>2 DEF Enabling
  <2>5. \A p \in Enabling' : p # q => p \in Enabling
    BY <2>3 DEF Enabling
  <2>6. \A x \in Pending' : x \in enabled \cup Pending
    <3> TAKE x \in Pending'
    <3>1. PICK p \in Enabling' : x = patch'[p].repo
      BY DEF Pending
    <3>2. CASE p = q
      BY <2>2, <2>4, <3>1, <3>2
    <3>3. CASE p # q
      <4>1. p \in Enabling /\ patch'[p] = patch[p]
        BY <2>3, <2>5, <3>1, <3>3 DEF Enabling
      <4> QED BY <3>1, <4>1 DEF Pending
    <3> QED BY <3>2, <3>3
  <2>7. \A p \in Patches : patch'[p].step = "count" => patch'[p].plan = patch[p].plan /\ patch[p].step = "count"
    BY <2>2, <2>3
  <2>8. \A p \in Patches : patch'[p].step = "count" => RepoCap[patch'[p].plan] <= allowance'
    BY <1>1, <2>7 DEF ReposReckoned, ReadRow
  <2>9. peak' >= peak /\ Cardinality(Enabling') <= peak'
    BY <1>1, <1>a, WritingType DEF ReadRow
  <2>10. UNCHANGED <<enabled, plan, allowance>>
    BY <1>1 DEF ReadRow
  <2>11. enabled' \cup Pending' \subseteq enabled \cup Pending
    BY <2>6, <2>10
  <2>12. RepoCap[plan'] <= allowance'
    BY <2>10 DEF ReposReckoned
  <2> QED BY <2>8, <2>9, <2>10, <2>11, <2>12, NothingMore
<1>2. CASE ReadPlan(q)
  <2>1. patch'[q] = [patch[q] EXCEPT !.step = "count", !.plan = plan]
    BY <1>2, <1>a DEF ReadPlan
  <2>2. patch'[q].step = "count" /\ patch'[q].plan = plan /\ patch[q].step = "plan"
    BY <1>2, <1>a, <2>1 DEF ReadPlan, PatchRecords
  <2>3. \A p \in Patches \ {q} : patch'[p] = patch[p]
    BY <1>2, <1>a DEF ReadPlan
  <2>4. Enabling' = Enabling
    BY <2>2, <2>3 DEF Enabling
  <2>5. Pending' = Pending
    BY <2>2, <2>3, <2>4 DEF Pending, Enabling
  <2>6. UNCHANGED <<enabled, plan, allowance, peak>>
    BY <1>2 DEF ReadPlan
  <2>7. ASSUME NEW p \in Patches, patch'[p].step = "count"
        PROVE  RepoCap[patch'[p].plan] <= allowance'
    <3>1. CASE p = q
      BY <2>2, <2>6, <3>1 DEF ReposReckoned
    <3>2. CASE p # q
      BY <2>3, <2>6, <2>7, <3>2 DEF ReposReckoned
    <3> QED BY <3>1, <3>2
  <2>8. Cardinality(Enabling') <= peak' /\ RepoCap[plan'] <= allowance' /\ peak' >= peak
    BY <1>a, <2>4, <2>6 DEF ReposReckoned
  <2> QED BY <2>5, <2>6, <2>7, <2>8, NothingMore
<1>3. CASE WriteRow(q)
  <2>1. patch'[q].step = "idle" /\ patch[q].step = "write"
    BY <1>3, <1>a DEF WriteRow, NoPatch
  <2>2. \A p \in Patches \ {q} : patch'[p] = patch[p]
    BY <1>3, <1>a DEF WriteRow
  <2>3. Enabling' = Enabling \ {q}
    BY <2>1, <2>2 DEF Enabling
  <2>4. \A x \in Pending' : x \in Pending
    <3> TAKE x \in Pending'
    <3>1. PICK p \in Enabling' : x = patch'[p].repo
      BY DEF Pending
    <3>2. p \in Enabling /\ patch'[p] = patch[p]
      BY <2>2, <2>3, <3>1 DEF Enabling
    <3> QED BY <3>1, <3>2 DEF Pending
  <2>5. \A x \in enabled' : x \in enabled \cup Pending
    <3>1. CASE patch[q].enable
      <4>1. patch[q].repo \in Pending
        BY <2>1, <3>1 DEF Pending, Enabling
      <4> QED BY <1>3, <3>1, <4>1 DEF WriteRow
    <3>2. CASE ~patch[q].enable
      BY <1>3, <3>2 DEF WriteRow
    <3> QED BY <3>1, <3>2
  <2>6. UNCHANGED <<plan, allowance, peak>>
    BY <1>3 DEF WriteRow
  <2>7. \A p \in Patches : patch'[p].step = "count" => patch'[p].plan = patch[p].plan /\ patch[p].step = "count"
    BY <2>1, <2>2
  <2>8. \A p \in Patches : patch'[p].step = "count" => RepoCap[patch'[p].plan] <= allowance'
    BY <2>6, <2>7 DEF ReposReckoned
  <2>9. Cardinality(Enabling') <= peak'
    <3>1. IsFiniteSet(Enabling) /\ Cardinality(Enabling) \in Nat
      BY PendingSize
    <3>2. Enabling' \in SUBSET Enabling
      BY <2>3
    <3>3. IsFiniteSet(Enabling') /\ Cardinality(Enabling') <= Cardinality(Enabling)
      BY <3>1, <3>2, FS_Subset
    <3>4. Cardinality(Enabling') \in Nat
      BY <3>3, FS_CardinalityType
    <3> QED BY <1>a, <2>6, <3>1, <3>3, <3>4 DEF ReposReckoned
  <2>10. RepoCap[plan'] <= allowance' /\ peak' >= peak /\ enabled' \cup Pending' \subseteq enabled \cup Pending
    BY <1>a, <2>4, <2>5, <2>6 DEF ReposReckoned
  <2> QED BY <2>6, <2>8, <2>9, <2>10, NothingMore
<1> QED BY <1>1, <1>2, <1>3

\* A new reckoning covers what it finds enabled, and what is still to be written.
LEMMA ReckonKeeps ==
  ASSUME RepoLimitTypes, RepoLimitTypes', ReposReckoned, NEW n \in Nat, Reckon(n), n = RepoCap[plan'],
         UNCHANGED patch, Cardinality(enabled' \ enabled) <= 1,
         Cardinality(enabled' \cup Pending') <=
           Cardinality(enabled \cup Pending) + Cardinality(enabled' \ enabled)
  PROVE  ReposReckoned'
<1> USE DEF PatchIs
<1>a. allowance \in Nat /\ peak \in Nat /\ enabled \in SUBSET Repos /\ enabled' \in SUBSET Repos
  BY DEF RepoLimitTypes, RepoLimitTypeOK
<1>b. allowance' \in Nat /\ peak' \in Nat /\ n <= allowance'
  BY <1>a, ReckonType
<1>c. Enabling' = Enabling /\ Pending' = Pending
  BY DEF Enabling, Pending
<1>d. enabled \cup Pending \in SUBSET Repos /\ enabled' \cup Pending' \in SUBSET Repos
  BY <1>a, <1>c, PendingSize
<1>e. /\ Cardinality(enabled \cup Pending) \in Nat /\ Cardinality(enabled' \cup Pending') \in Nat
      /\ Cardinality(enabled' \cup Pending') <= Cardinality(Repos)
      /\ Cardinality(enabled') \in Nat /\ Cardinality(Repos) \in Nat
  BY <1>a, <1>d, RepoSets, RepoCount
<1>f. Cardinality(enabled' \ enabled) \in Nat
  <2>1. enabled' \ enabled \in SUBSET Repos
    BY <1>a
  <2> QED BY <2>1, RepoSets
<1>1. CASE Enabling = {} /\ \A q \in Patches : patch[q].step # "count"
  <2>1. allowance' = Larger(n, Cardinality(enabled')) /\ peak' = 0
    BY <1>1 DEF Reckon
  <2>2. Pending' = {}
    BY <1>1, <1>c DEF Pending
  <2>3. enabled' \cup Pending' = enabled'
    BY <2>2
  <2>4. Cardinality(enabled') <= allowance'
    BY <1>e, <2>1 DEF Larger
  <2>5. Cardinality(Enabling') = 0
    BY <1>1, <1>c, FS_EmptySet
  <2>6. Overshoot' = 0
    BY <2>1 DEF Overshoot
  <2>7. Cardinality(enabled' \cup Pending') <= allowance' + Overshoot'
    BY <1>b, <1>e, <2>3, <2>4, <2>6
  <2>8. RepoCap[plan'] <= allowance' /\ Cardinality(Enabling') <= peak'
    BY <1>b, <2>1, <2>5
  <2>9. \A q \in Patches : patch'[q].step # "count"
    BY <1>1
  <2> QED BY <2>7, <2>8, <2>9 DEF ReposReckoned
<1>2. CASE ~(Enabling = {} /\ \A q \in Patches : patch[q].step # "count")
  <2>1. /\ peak' = peak
        /\ allowance' = Larger(Larger(allowance, n),
             Smaller(allowance + Cardinality(enabled' \ enabled), Cardinality(Repos)))
    BY <1>2 DEF Reckon
  <2>2. allowance' >= allowance
    BY <1>a, <1>e, <1>f, <2>1 DEF Larger, Smaller
  <2>3. \/ allowance' >= allowance + Cardinality(enabled' \ enabled)
        \/ allowance' >= Cardinality(Repos)
    BY <1>a, <1>e, <1>f, <2>1 DEF Larger, Smaller
  <2>4. Overshoot' = Overshoot /\ Overshoot \in Nat
    BY <1>a, <2>1 DEF Overshoot
  <2>5. Cardinality(enabled' \cup Pending') <= allowance' + Overshoot'
    BY <1>a, <1>b, <1>e, <1>f, <2>3, <2>4 DEF ReposReckoned
  <2>6. \A q \in Patches : patch'[q].step = "count" => RepoCap[patch'[q].plan] <= allowance'
    <3> TAKE q \in Patches
    <3>1. patch[q].plan \in Plan
      BY DEF RepoLimitTypes, RepoLimitTypeOK
    <3>2. RepoCap[patch[q].plan] \in Nat
      BY <3>1, CapType
    <3> QED BY <1>a, <1>b, <2>2, <3>2 DEF ReposReckoned
  <2> QED BY <1>b, <1>c, <2>1, <2>5, <2>6 DEF ReposReckoned
<1> QED BY <1>1, <1>2

LEMMA NextReckoned == RepoLimitTypes /\ RepoLimitTypes' /\ ReposReckoned /\ [RepoLimitNext]_repoLimitVars => ReposReckoned'
<1> SUFFICES ASSUME RepoLimitTypes, RepoLimitTypes', ReposReckoned, [RepoLimitNext]_repoLimitVars
             PROVE  ReposReckoned'
  OBVIOUS
<1>a. /\ known \in SUBSET Repos /\ enabled \in SUBSET known /\ plan \in Plan /\ plan' \in Plan
      /\ allowance \in Nat /\ peak \in Nat
  BY DEF RepoLimitTypes, RepoLimitTypeOK
<1>b. RepoCap[plan'] \in Nat
  BY <1>a, CapType
<1>1. ASSUME NEW r \in Repos, Discover(r) PROVE ReposReckoned'
  <2>1. enabled' = enabled \cup {r} /\ UNCHANGED <<plan, patch>> /\ Reckon(RepoCap[plan])
    BY <1>1 DEF Discover
  <2>2. r \notin enabled
    BY <1>1, <1>a DEF Discover
  <2>3. enabled' \ enabled = {r}
    BY <2>1, <2>2
  <2>4. Cardinality(enabled' \ enabled) = 1
    BY <2>3, FS_Singleton
  <2>5. enabled' \cup Pending' = (enabled \cup Pending) \cup {r}
    BY <2>1 DEF Pending, Enabling
  <2>6. enabled \cup Pending \in SUBSET Repos
    BY <1>a, PendingSize
  <2>7. Cardinality(enabled' \cup Pending') <= Cardinality(enabled \cup Pending) + 1
    BY <2>5, <2>6, OneMore
  <2>8. /\ Cardinality(enabled' \ enabled) <= 1 /\ patch' = patch /\ plan' = plan
        /\ Cardinality(enabled' \cup Pending') <=
             Cardinality(enabled \cup Pending) + Cardinality(enabled' \ enabled)
    BY <2>1, <2>4, <2>7
  <2>9. RepoCap[plan] \in Nat /\ Reckon(RepoCap[plan]) /\ RepoCap[plan] = RepoCap[plan']
    BY <1>b, <2>1, <2>8
  <2> QED BY <2>8, <2>9, ReckonKeeps
<1>2. ASSUME NEW p \in Plan, PlanChanges(p) PROVE ReposReckoned'
  <2>1. enabled' = enabled /\ plan' = p /\ patch' = patch /\ Reckon(RepoCap[p])
    BY <1>2 DEF PlanChanges
  <2>2. Cardinality(enabled' \ enabled) = 0
    <3>1. enabled' \ enabled = {}
      BY <2>1
    <3> QED BY <3>1, FS_EmptySet
  <2>3. enabled' \cup Pending' = enabled \cup Pending
    BY <2>1 DEF Pending, Enabling
  <2>4. Cardinality(enabled \cup Pending) \in Nat
    <3>1. enabled \cup Pending \in SUBSET Repos
      BY <1>a, PendingSize
    <3> QED BY <3>1, RepoSets
  <2> QED BY <1>b, <2>1, <2>2, <2>3, <2>4, ReckonKeeps
<1>c. ASSUME UNCHANGED <<plan, patch, allowance, peak>>, enabled' \subseteq enabled PROVE ReposReckoned'
  <2>1. Enabling' = Enabling /\ Pending' = Pending
    BY <1>c DEF Enabling, Pending
  <2>2. enabled' \cup Pending' \subseteq enabled \cup Pending
    BY <1>c, <2>1
  <2>3. \A q \in Patches : PatchIs(q, "count")' => RepoCap[patch'[q].plan] <= allowance'
    BY <1>c DEF ReposReckoned, PatchIs
  <2>4. Cardinality(Enabling') <= peak' /\ RepoCap[plan'] <= allowance' /\ peak' >= peak
    BY <1>a, <1>c, <2>1 DEF ReposReckoned
  <2> QED BY <1>c, <2>2, <2>3, <2>4, NothingMore
<1>3. ASSUME NEW r \in Repos, RemoveRepo(r) PROVE ReposReckoned'
  BY <1>3, <1>c DEF RemoveRepo
<1>4. CASE UNCHANGED repoLimitVars
  BY <1>4, <1>c DEF repoLimitVars
<1> QED BY <1>1, <1>2, <1>3, <1>4, CountKeeps, PatchKeeps DEF RepoLimitNext

\* The enabled repositories of a workspace are never more than its plan - or what a
\* discovery or a downgrade found enabled - allows, plus the requests that overlap.
THEOREM ReposLimited == RepoLimitSpec => []ReposWithinPlan
<1>1. RepoLimitTypes /\ ReposReckoned => ReposWithinPlan
  <2> SUFFICES ASSUME RepoLimitTypes, ReposReckoned PROVE ReposWithinPlan
    OBVIOUS
  <2>1. enabled \cup Pending \in SUBSET Repos /\ enabled \in SUBSET Repos
    BY PendingSize DEF RepoLimitTypes, RepoLimitTypeOK
  <2>2. /\ Cardinality(enabled) <= Cardinality(enabled \cup Pending)
        /\ Cardinality(enabled) \in Nat /\ Cardinality(enabled \cup Pending) \in Nat
    BY <2>1, RepoSets
  <2>3. allowance \in Nat /\ Overshoot \in Nat
    BY DEF RepoLimitTypes, RepoLimitTypeOK, Overshoot
  <2> QED BY <2>2, <2>3 DEF ReposReckoned, ReposWithinPlan
<1> QED BY RepoLimitStart, RepoLimitNextTypes, ReposReckonedAtFirst, NextReckoned, <1>1, PTL DEF RepoLimitSpec

HIDE RepoLimitAssumption

-----------------------------------------------------------------------------
(* Workspaces (Workspaces): their limit, their slugs, and the last one of a user. *)

USE WorkspaceAssumption

SpaceRoles == {"none", "member", "owner"}
SpaceRows == [slug : Slugs \cup {NoSlug}, plan : Tiers, role : SpaceRoles]
RequestRecords ==
  [step : {"idle", "count", "limit", "probe", "insert", "rename", "last", "delete"},
   slug : Slugs \cup {NoSlug}, row : Ids \cup {NoSlug}, count : 0 .. Cardinality(Ids)]

\* Types, without the slugs' being distinct.
SpaceTypes ==
  /\ cloud \in BOOLEAN
  /\ rows \in [Ids -> SpaceRows]
  /\ request \in [Requests -> RequestRecords]
  /\ room \in Nat /\ crowd \in Nat
  /\ bereft \in BOOLEAN

\* A request that has been counted will make the user own one more, if its count is
\* below the limit - this one or one that comes before it is compared.
Passing(limit) ==
  {q \in Requests : \/ request[q].step \in {"probe", "insert"}
                    \/ request[q].step = "limit" /\ request[q].count < limit}

Owned == Cardinality(Of({"owner"}))
Excess == IF crowd = 0 THEN 0 ELSE crowd - 1

SpacesReckoned ==
  \/ Cardinality(Ids) <= room
  \/ /\ Limit <= room
     /\ \A n \in Nat : Limit <= n =>
          Owned + Cardinality(Passing(n)) <= room + (n - Limit) + Excess

CrowdCounted == Cardinality(Counted) <= crowd

\* The community edition looks for any workspace instead of counting.
CommunityCounts == ~cloud => \A q \in Requests : ~RequestAt(q, "limit")

OwnedInv == SpaceTypes /\ SpacesReckoned /\ CrowdCounted /\ CommunityCounts

-----------------------------------------------------------------------------

LEMMA SpaceSets ==
  /\ \A S \in SUBSET Ids : IsFiniteSet(S) /\ Cardinality(S) \in 0 .. Cardinality(Ids)
  /\ \A R, S \in SUBSET Ids : R \subseteq S => Cardinality(R) <= Cardinality(S)
  /\ \A S \in SUBSET Requests : IsFiniteSet(S) /\ Cardinality(S) \in Nat
  /\ \A R, S \in SUBSET Requests : R \subseteq S => Cardinality(R) <= Cardinality(S)
  /\ Cardinality(Ids) \in Nat
<1>1. Cardinality(Ids) \in Nat
  BY FS_CardinalityType
<1>2. \A S \in SUBSET Ids : IsFiniteSet(S) /\ Cardinality(S) <= Cardinality(Ids)
  BY FS_Subset
<1>3. \A S \in SUBSET Requests : IsFiniteSet(S)
  BY FS_Subset
<1>4. \A S : IsFiniteSet(S) => Cardinality(S) \in Nat
  BY FS_CardinalityType
<1>5. \A S : IsFiniteSet(S) => \A R \in SUBSET S : Cardinality(R) <= Cardinality(S)
  BY FS_Subset
<1>6. \A S \in SUBSET Ids : IsFiniteSet(S) /\ Cardinality(S) \in 0 .. Cardinality(Ids)
  BY <1>1, <1>2, <1>4
<1> QED BY <1>1, <1>2, <1>3, <1>4, <1>5, <1>6

LEMMA MostOfTwo ==
  \A m, n \in Nat : /\ MostOf({m, n}) \in Nat
                    /\ MostOf({m, n}) = (IF m <= n THEN n ELSE m)
                    /\ LeastOf({m, n}) = (IF m <= n THEN m ELSE n)
<1> SUFFICES ASSUME NEW m \in Nat, NEW n \in Nat
             PROVE  /\ MostOf({m, n}) = (IF m <= n THEN n ELSE m)
                    /\ LeastOf({m, n}) = (IF m <= n THEN m ELSE n)
  OBVIOUS
<1> DEFINE Most(x) == x \in {m, n} /\ \A y \in {m, n} : y <= x
           Least(x) == x \in {m, n} /\ \A y \in {m, n} : x <= y
<1>1. Most(IF m <= n THEN n ELSE m) /\ Least(IF m <= n THEN m ELSE n)
  OBVIOUS
<1>2. \A x : (Most(x) => x = IF m <= n THEN n ELSE m) /\ (Least(x) => x = IF m <= n THEN m ELSE n)
  OBVIOUS
<1>3. MostOf({m, n}) = CHOOSE x : Most(x)
  BY DEF MostOf
<1>4. LeastOf({m, n}) = CHOOSE x : Least(x)
  BY DEF LeastOf
<1> HIDE DEF Most, Least
<1>5. Most(CHOOSE x : Most(x)) /\ Least(CHOOSE x : Least(x))
  BY <1>1
<1> QED BY <1>2, <1>3, <1>4, <1>5

LEMMA SpaceCapType == \A p \in Tiers : SpaceCap[p] \in {FreeSpaces, ProSpaces, Cardinality(Ids)}
BY DEF SpaceCap, Tiers

\* Of three numbers at most there is a greatest.
LEMMA MostExists ==
  ASSUME NEW a \in Nat, NEW b \in Nat, NEW c \in Nat, NEW S \in SUBSET {a, b, c}, a \in S
  PROVE  MostOf(S) \in S /\ \A m \in S : m <= MostOf(S)
<1>1. \E n \in S : \A m \in S : m <= n
  <2>1. CASE c \in S /\ a <= c /\ (b <= c \/ b \notin S)
    BY <2>1
  <2>2. CASE b \in S /\ a <= b /\ (c <= b \/ c \notin S)
    BY <2>2
  <2>3. CASE (b <= a \/ b \notin S) /\ (c <= a \/ c \notin S)
    BY <2>3
  <2> QED BY <2>1, <2>2, <2>3
<1> DEFINE Most(n) == n \in S /\ \A m \in S : m <= n
<1>2. MostOf(S) = CHOOSE n : Most(n)
  BY DEF MostOf
<1>3. \E n : Most(n)
  BY <1>1
<1> HIDE DEF Most
<1>4. Most(CHOOSE n : Most(n))
  BY <1>3
<1>5. Most(MostOf(S))
  BY <1>2, <1>4
<1> QED BY <1>5 DEF Most

BestLimitGreatest ==
  /\ BestLimit \in Nat /\ FreeSpaces <= BestLimit
  /\ \A i \in Of({"owner"}) : SpaceCap[rows[i].plan] <= BestLimit
  /\ BestLimit = FreeSpaces \/ \E i \in Of({"owner"}) : BestLimit = SpaceCap[rows[i].plan]

RowTypes == rows \in [Ids -> SpaceRows]

LEMMA BestLimitIs == RowTypes => BestLimitGreatest
<1> SUFFICES ASSUME RowTypes PROVE BestLimitGreatest
  OBVIOUS
<1> DEFINE S == {SpaceCap["free"]} \cup {SpaceCap[rows[i].plan] : i \in Of({"owner"})}
<1>1. SpaceCap["free"] = FreeSpaces
  BY DEF SpaceCap, Tiers
<1>2. \A i \in Of({"owner"}) : SpaceCap[rows[i].plan] \in {FreeSpaces, ProSpaces, Cardinality(Ids)}
  BY SpaceCapType DEF RowTypes, Of, SpaceRows
<1>3. S \in SUBSET {FreeSpaces, ProSpaces, Cardinality(Ids)} /\ FreeSpaces \in S
  BY <1>1, <1>2
<1>4. MostOf(S) \in S /\ \A m \in S : m <= MostOf(S)
  <2> HIDE DEF S
  <2> QED BY <1>3, MostExists, SpaceSets
<1>5. BestLimit = MostOf(S)
  BY DEF BestLimit
<1> QED BY <1>1, <1>3, <1>4, <1>5, SpaceSets DEF BestLimitGreatest

LimitKnown ==
  /\ BestLimit \in Nat /\ Limit \in Nat /\ (cloud => Limit = BestLimit) /\ (~cloud => Limit = 1)
  /\ \A n \in Nat : Cardinality(Passing(n)) \in Nat
  /\ \A m, n \in Nat : m <= n => Cardinality(Passing(m)) <= Cardinality(Passing(n))
  /\ Owned \in 0 .. Cardinality(Ids) /\ Cardinality(Counted) \in Nat
  /\ Excess \in Nat

LEMMA NowKnown == SpaceTypes => LimitKnown
<1> SUFFICES ASSUME SpaceTypes PROVE LimitKnown
  OBVIOUS
<1>1. BestLimit \in Nat /\ Limit \in Nat /\ (cloud => Limit = BestLimit) /\ (~cloud => Limit = 1)
  BY BestLimitIs DEF Limit, BestLimitGreatest, SpaceTypes, RowTypes
<1>2. \A n : Passing(n) \in SUBSET Requests
  BY DEF Passing
<1>3. Of({"owner"}) \in SUBSET Ids /\ Counted \in SUBSET Requests
  BY DEF Of, Counted
<1>4. \A m, n \in Nat : m <= n => Passing(m) \subseteq Passing(n)
  BY DEF Passing, SpaceTypes, RequestRecords
<1>5. \A n : Cardinality(Passing(n)) \in Nat
  BY <1>2, SpaceSets
<1>6. \A m, n \in Nat : m <= n => Cardinality(Passing(m)) <= Cardinality(Passing(n))
  BY <1>2, <1>4, SpaceSets
<1>7. Owned \in 0 .. Cardinality(Ids) /\ Cardinality(Counted) \in Nat
  BY <1>3, SpaceSets DEF Owned
<1>8. Excess \in Nat
  BY DEF Excess, SpaceTypes
<1> QED BY <1>1, <1>5, <1>6, <1>7, <1>8 DEF LimitKnown

LEMMA ThenKnown == SpaceTypes' => LimitKnown'
BY NowKnown, PTL

\* What others give, by a role or a limit, is more room.
LEMMA MoreRoom ==
  ASSUME OwnedInv, SpaceTypes', NEW d \in Nat, NEW e \in Nat,
         Limit' <= Limit + e, Excess <= Excess', room + d + e <= room' \/ Cardinality(Ids) <= room',
         \A n \in Nat : Limit <= n =>
           Owned' + Cardinality(Passing(n)') <= Owned + Cardinality(Passing(n)) + d
  PROVE  SpacesReckoned'
<1>1. LimitKnown /\ LimitKnown' /\ room \in Nat /\ room' \in Nat
  BY NowKnown, ThenKnown DEF OwnedInv, SpaceTypes
<1>2. CASE Cardinality(Ids) <= room'
  BY <1>2 DEF SpacesReckoned
<1>3. CASE ~(Cardinality(Ids) <= room')
  <2>1. room + d + e <= room' /\ ~(Cardinality(Ids) <= room)
    BY <1>1, <1>3, SpaceSets
  <2>2. Limit <= room
    BY <2>1 DEF OwnedInv, SpacesReckoned
  <2>3. ASSUME NEW n \in Nat, Limit <= n
        PROVE  Owned + Cardinality(Passing(n)) <= room + (n - Limit) + Excess
    BY <2>1, <2>3 DEF OwnedInv, SpacesReckoned
  <2>4. Limit' <= room'
    BY <1>1, <2>1, <2>2 DEF LimitKnown
  <2>5. ASSUME NEW n \in Nat, Limit' <= n
        PROVE  Owned' + Cardinality(Passing(n)') <= room' + (n - Limit') + Excess'
    <3>0. /\ Limit \in Nat /\ Limit' \in Nat /\ Owned \in Nat /\ Owned' \in Nat
          /\ Excess \in Nat /\ Excess' \in Nat
      BY <1>1, SpaceSets DEF LimitKnown
    <3>1. CASE Limit <= n
      <4>1. Cardinality(Passing(n)) \in Nat /\ Cardinality(Passing(n)') \in Nat
        BY <1>1 DEF LimitKnown
      <4>2. Owned' + Cardinality(Passing(n)') <= Owned + Cardinality(Passing(n)) + d
        BY <3>1
      <4>3. Owned + Cardinality(Passing(n)) <= room + (n - Limit) + Excess
        BY <2>3, <3>1
      <4> QED BY <1>1, <2>1, <3>0, <4>1, <4>2, <4>3
    <3>2. CASE n < Limit
      <4>1. PICK l \in Nat : l = Limit
        BY <3>0
      <4>2. Cardinality(Passing(l)) \in Nat /\ Cardinality(Passing(l)') \in Nat
        BY <1>1 DEF LimitKnown
      <4>3. Cardinality(Passing(n)') \in Nat /\ Cardinality(Passing(n)') <= Cardinality(Passing(l)')
        BY <1>1, <3>2, <4>1 DEF LimitKnown
      <4>4. Owned' + Cardinality(Passing(l)') <= Owned + Cardinality(Passing(l)) + d
        BY <4>1
      <4>5. Owned + Cardinality(Passing(l)) <= room + Excess
        BY <1>1, <2>3, <3>0, <4>1
      <4> QED BY <1>1, <2>1, <2>5, <3>0, <3>2, <4>1, <4>2, <4>3, <4>4, <4>5
    <3> QED BY <3>0, <3>1, <3>2
  <2> QED BY <2>4, <2>5 DEF SpacesReckoned
<1> QED BY <1>2, <1>3

\* One request goes on, and nothing else changes.
OneRequest(q, step) ==
  /\ request' \in [Requests -> RequestRecords]
  /\ \A p \in Requests \ {q} : request'[p] = request[p]
  /\ request'[q].step = step

LEMMA RequestValues ==
  /\ NoRequest \in RequestRecords
  /\ \A x \in RequestRecords :
       /\ \A s \in {"idle", "count", "limit", "probe", "insert", "rename", "last", "delete"} :
            [x EXCEPT !.step = s] \in RequestRecords
       /\ \A s \in Slugs : [x EXCEPT !.slug = s] \in RequestRecords
       /\ \A i \in Ids : [x EXCEPT !.row = i] \in RequestRecords
       /\ \A n \in 0 .. Cardinality(Ids) : [x EXCEPT !.count = n] \in RequestRecords
<1>1. NoRequest \in RequestRecords
  BY SpaceSets DEF NoRequest, RequestRecords
<1> QED BY <1>1 DEF RequestRecords

LEMMA StepTaken ==
  ASSUME SpaceTypes, NEW q \in Requests,
         NEW s \in {"idle", "count", "limit", "probe", "insert", "rename", "last", "delete"},
         Step(q, s)
  PROVE  OneRequest(q, s) /\ request'[q] = [request[q] EXCEPT !.step = s]
<1>1. [request[q] EXCEPT !.step = s] \in RequestRecords
  BY RequestValues DEF SpaceTypes
<1>2. request' = [request EXCEPT ![q] = [request[q] EXCEPT !.step = s]]
  BY DEF Step
<1>3. [request[q] EXCEPT !.step = s].step = s
  BY DEF SpaceTypes, RequestRecords
<1> QED BY <1>1, <1>2, <1>3 DEF SpaceTypes, OneRequest

LEMMA RequestGone ==
  ASSUME SpaceTypes, NEW q \in Requests, RequestEnds(q)
  PROVE  OneRequest(q, "idle")
BY RequestValues DEF RequestEnds, SpaceTypes, OneRequest, NoRequest

LEMMA RequestSet ==
  ASSUME SpaceTypes, NEW q \in Requests, NEW x \in RequestRecords, request' = [request EXCEPT ![q] = x]
  PROVE  OneRequest(q, x.step) /\ request'[q] = x
BY DEF SpaceTypes, OneRequest

\* A step of a request that adds none to those that pass leaves the reckoning as it is.
LEMMA RequestStep ==
  ASSUME OwnedInv, NEW q \in Requests, NEW s, OneRequest(q, s), SpaceTypes',
         UNCHANGED <<cloud, rows, room, crowd>>,
         s \notin {"limit", "insert", "probe"} \/ (s = "insert" /\ RequestAt(q, "probe"))
           \/ (s = "probe" /\ RequestAt(q, "probe"))
           \/ (s = "probe" /\ RequestAt(q, "limit") /\ cloud /\ request[q].count < BestLimit)
  PROVE  OwnedInv'
<1>1. LimitKnown /\ LimitKnown'
  BY NowKnown, ThenKnown DEF OwnedInv
<1>2. Limit' = Limit /\ Owned' = Owned /\ Excess' = Excess
  BY DEF Limit, BestLimit, Owned, Of, Excess
<1>3. ASSUME NEW n \in Nat, Limit <= n PROVE Passing(n)' \subseteq Passing(n)
  <2> SUFFICES ASSUME NEW p \in Requests, p \in Passing(n)' PROVE p \in Passing(n)
    BY DEF Passing
  <2>1. CASE p # q
    BY <2>1 DEF Passing, OneRequest
  <2>2. CASE p = q
    <3>1. CASE RequestAt(q, "probe")
      BY <2>2, <3>1 DEF Passing, RequestAt
    <3>2. CASE s = "probe" /\ RequestAt(q, "limit") /\ cloud /\ request[q].count < BestLimit
      <4>1. request[q].count \in Nat /\ BestLimit = Limit /\ Limit \in Nat
        BY <1>1, <3>2, SpaceSets DEF OwnedInv, SpaceTypes, RequestRecords, LimitKnown
      <4>2. request[q].count < n
        BY <1>3, <3>2, <4>1
      <4> QED BY <2>2, <3>2, <4>2 DEF Passing, RequestAt
    <3>3. CASE s \notin {"limit", "insert", "probe"}
      BY <2>2, <3>3 DEF Passing, OneRequest
    <3> QED BY <3>1, <3>2, <3>3
  <2> QED BY <2>1, <2>2
<1>4. \A n : Passing(n) \subseteq Requests /\ Passing(n)' \subseteq Requests
  BY DEF Passing
<1>5. ASSUME NEW n \in Nat, Limit <= n
      PROVE  Owned' + Cardinality(Passing(n)') <= Owned + Cardinality(Passing(n)) + 0
  <2>1. Cardinality(Passing(n)') <= Cardinality(Passing(n))
    BY <1>3, <1>4, <1>5, SpaceSets
  <2> QED BY <1>1, <1>2, <2>1, SpaceSets DEF LimitKnown
<1>6. SpacesReckoned'
  <2>1. Limit' <= Limit + 0 /\ Excess <= Excess' /\ room + 0 + 0 <= room'
    BY <1>1, <1>2 DEF LimitKnown, OwnedInv, SpaceTypes
  <2> QED BY <1>5, <2>1, MoreRoom
<1>7. CrowdCounted'
  <2>1. Counted' \subseteq Counted /\ Counted \subseteq Requests
    BY DEF Counted, OneRequest, RequestAt
  <2>2. Cardinality(Counted') <= Cardinality(Counted)
    BY <2>1, SpaceSets
  <2> QED BY <1>1, <2>2 DEF OwnedInv, CrowdCounted, LimitKnown, SpaceTypes
<1>8. CommunityCounts'
  BY DEF OwnedInv, CommunityCounts, OneRequest, RequestAt
<1> QED BY <1>6, <1>7, <1>8 DEF OwnedInv

LEMMA ExcessGrows ==
  \A m, n \in Nat : m <= n =>
    /\ (IF m = 0 THEN 0 ELSE m - 1) <= (IF n = 0 THEN 0 ELSE n - 1)
    /\ n > 0 => (IF n = 0 THEN 0 ELSE n - 1) = n - 1
OBVIOUS

\* A request is counted: below the limit it will make the user own one more.
LEMMA CountStep ==
  ASSUME OwnedInv, NEW q \in Requests, CountSpaces(q)
  PROVE  OwnedInv'
<1>0. SpaceTypes /\ RequestAt(q, "count") /\ UNCHANGED <<cloud, rows, room, bereft>> /\ Crowding
  BY DEF OwnedInv, CountSpaces
<1>1. LimitKnown
  BY <1>0, NowKnown
<1>2. PICK x \in RequestRecords :
        /\ request' = [request EXCEPT ![q] = x]
        /\ \/ cloud /\ x.step = "limit" /\ x.count = Owned
           \/ ~cloud /\ x.step = "probe" /\ Owned = 0
           \/ x.step = "idle"
  <2>1. request[q] \in RequestRecords
    BY <1>0 DEF SpaceTypes
  <2>2. CASE cloud
    <3> DEFINE y == [request[q] EXCEPT !.step = "limit"]
               x == [y EXCEPT !.count = Owned]
    <3>0. y \in RequestRecords
      BY <2>1, RequestValues
    <3>1. y \in RequestRecords /\ y.step = "limit"
      BY <2>1, <3>0 DEF RequestRecords
    <3>2. request' = [request EXCEPT ![q] = x]
      BY <1>0, <2>2 DEF CountSpaces, Owned, SpaceTypes
    <3> HIDE DEF y
    <3>3. x \in RequestRecords
      BY <1>1, <3>1, RequestValues DEF LimitKnown
    <3>4. x.step = "limit" /\ x.count = Owned
      BY <3>1 DEF RequestRecords
    <3> QED BY <2>2, <3>2, <3>3, <3>4
  <2>3. CASE ~cloud /\ Of({"member", "owner"}) = {}
    <3> DEFINE y == [request[q] EXCEPT !.step = "probe"]
               x == [y EXCEPT !.slug = 1]
    <3>0. y \in RequestRecords
      BY <2>1, RequestValues
    <3>1. y \in RequestRecords /\ y.step = "probe"
      BY <2>1, <3>0 DEF RequestRecords
    <3>2. request' = [request EXCEPT ![q] = x]
      BY <1>0, <2>3 DEF CountSpaces, SpaceTypes
    <3> HIDE DEF y
    <3>6. 1 \in Slugs
      BY DEF Slugs
    <3>7. x \in RequestRecords
      BY <3>1, <3>6, RequestValues
    <3>3. x \in RequestRecords /\ x.step = "probe"
      BY <3>1, <3>7 DEF RequestRecords
    <3>4. Of({"owner"}) = {}
      BY <2>3 DEF Of
    <3>5. Owned = 0
      BY <3>4, FS_EmptySet DEF Owned
    <3> QED BY <2>3, <3>2, <3>3, <3>5
  <2>4. CASE ~cloud /\ Of({"member", "owner"}) # {}
    BY <1>0, <2>4, RequestValues DEF CountSpaces, RequestEnds, NoRequest
  <2> QED BY <2>2, <2>3, <2>4
<1>3. OneRequest(q, x.step) /\ request'[q] = x
  BY <1>0, <1>2, RequestSet
<1>4. Cardinality(Counted') \in Nat
  <2>1. Counted' \subseteq Requests
    BY DEF Counted
  <2> QED BY <2>1, SpaceSets
<1>5. crowd' \in Nat /\ crowd <= crowd' /\ Cardinality(Counted') <= crowd'
  BY <1>0, <1>4, MostOfTwo DEF Crowding, SpaceTypes
<1>6. SpaceTypes'
  BY <1>0, <1>3, <1>5 DEF SpaceTypes, OneRequest
<1>7. LimitKnown'
  BY <1>6, ThenKnown
<1>8. Limit' = Limit /\ Owned' = Owned /\ Excess <= Excess' /\ (crowd' > 0 => Excess' = crowd' - 1)
  <2>1. Limit' = Limit /\ Owned' = Owned
    BY <1>0 DEF Limit, BestLimit, Owned, Of
  <2>2. Excess <= Excess' /\ (crowd' > 0 => Excess' = crowd' - 1)
    <3>1. crowd \in Nat /\ crowd' \in Nat /\ crowd <= crowd'
      BY <1>0, <1>5 DEF SpaceTypes
    <3> QED BY <3>1, ExcessGrows DEF Excess
  <2> QED BY <2>1, <2>2
<1>9. CommunityCounts'
  BY <1>0, <1>2, <1>3 DEF OwnedInv, CommunityCounts, OneRequest, RequestAt
<1>10. SpacesReckoned'
  <2>1. CASE Cardinality(Ids) <= room
    BY <1>0, <2>1 DEF SpacesReckoned
  <2>2. CASE ~(Cardinality(Ids) <= room)
    <3>1. Limit <= room /\ room' = room
      BY <1>0, <2>2 DEF OwnedInv, SpacesReckoned
    <3>2. ASSUME NEW n \in Nat, Limit <= n
          PROVE  Owned + Cardinality(Passing(n)') <= room + (n - Limit) + Excess'
      <4>1. /\ Limit \in Nat /\ Owned \in Nat /\ Excess \in Nat /\ Excess' \in Nat /\ room \in Nat
            /\ Cardinality(Passing(n)) \in Nat /\ Cardinality(Passing(n)') \in Nat
        BY <1>0, <1>1, <1>7, SpaceSets DEF LimitKnown, SpaceTypes
      <4>2. Owned + Cardinality(Passing(n)) <= room + (n - Limit) + Excess
        BY <2>2, <3>2 DEF OwnedInv, SpacesReckoned
      <4>3. CASE x.step = "idle" \/ (x.step = "limit" /\ ~(Owned < n))
        <5>1. Passing(n)' \subseteq Passing(n) /\ Passing(n) \subseteq Requests
          BY <1>2, <1>3, <4>3 DEF Passing, OneRequest
        <5>2. Cardinality(Passing(n)') <= Cardinality(Passing(n))
          BY <5>1, SpaceSets
        <5> QED BY <1>8, <4>1, <4>2, <5>2
      <4>4. CASE x.step \in {"limit", "probe"} /\ Owned < n
        <5>1. Passing(n)' \subseteq Counted' /\ q \in Counted' /\ Counted' \subseteq Requests
          BY <1>3, <4>4 DEF Passing, Counted, OneRequest
        <5>2. Cardinality(Passing(n)') <= Cardinality(Counted')
          BY <5>1, SpaceSets
        <5>3. Cardinality(Counted') # 0
          BY <5>1, SpaceSets, FS_EmptySet
        <5>4. crowd' > 0 /\ Cardinality(Passing(n)') <= crowd'
          BY <1>4, <1>5, <4>1, <5>2, <5>3
        <5>5. Excess' = crowd' - 1
          BY <1>8, <5>4
        <5> QED BY <1>5, <3>1, <4>1, <4>4, <5>4, <5>5
      <4>5. x.step = "probe" => Owned < n
        <5>1. CASE x.step = "probe"
          BY <1>1, <1>2, <3>2, <4>1, <5>1 DEF LimitKnown
        <5> QED BY <5>1
      <4> QED BY <1>2, <4>3, <4>4, <4>5
    <3> QED BY <1>8, <3>1, <3>2 DEF SpacesReckoned
  <2> QED BY <2>1, <2>2
<1> QED BY <1>5, <1>6, <1>9, <1>10 DEF OwnedInv, CrowdCounted

\* Without a better plan that is owned the limit does not rise.
LEMMA LimitFalls ==
  ASSUME SpaceTypes, SpaceTypes', UNCHANGED cloud,
         \A j \in Ids : rows'[j].role = "owner" =>
           rows'[j].plan = "free" \/ (rows[j].role = "owner" /\ rows'[j].plan = rows[j].plan)
  PROVE  Limit' <= Limit
<1>1. LimitKnown /\ LimitKnown'
  BY NowKnown, ThenKnown
<1>2. CASE ~cloud
  BY <1>1, <1>2 DEF LimitKnown
<1>3. CASE cloud
  <2>1. /\ FreeSpaces <= BestLimit
        /\ \A i \in Of({"owner"}) : SpaceCap[rows[i].plan] <= BestLimit
    BY BestLimitIs DEF BestLimitGreatest, SpaceTypes, RowTypes
  <2>2. BestLimit' = FreeSpaces \/ \E i \in Of({"owner"})' : BestLimit' = SpaceCap[rows'[i].plan]
    <3>1. RowTypes' => BestLimitGreatest'
      BY BestLimitIs, PTL
    <3> QED BY <3>1 DEF BestLimitGreatest, SpaceTypes, RowTypes
  <2>3. SpaceCap["free"] = FreeSpaces
    BY DEF SpaceCap, Tiers
  <2>4. BestLimit' <= BestLimit
    <3>1. ASSUME NEW i \in Of({"owner"})' PROVE SpaceCap[rows'[i].plan] <= BestLimit
      BY <2>1, <2>3, <3>1 DEF Of
    <3> QED BY <2>1, <2>2, <3>1
  <2> QED BY <1>1, <1>3, <2>4 DEF LimitKnown
<1> QED BY <1>2, <1>3

\* The user comes to own one more at most.
LEMMA OneMoreOwned ==
  ASSUME NEW i \in Ids, \A j \in Ids \ {i} : rows'[j].role = rows[j].role
  PROVE  /\ Owned' <= Owned + 1 /\ Owned \in Nat /\ Owned' \in Nat
         /\ rows'[i].role # "owner" \/ rows[i].role = "owner" => Owned' <= Owned
<1>1. Of({"owner"}) \in SUBSET Ids /\ Of({"owner"})' \in SUBSET Ids
  BY DEF Of
<1>2. Of({"owner"})' \subseteq Of({"owner"}) \cup {i} /\ Of({"owner"}) \cup {i} \in SUBSET Ids
  BY <1>1 DEF Of
<1>3. IsFiniteSet(Of({"owner"})) /\ Cardinality(Of({"owner"})) \in Nat /\ Cardinality(Of({"owner"})') \in Nat
  BY <1>1, SpaceSets
<1>4. Cardinality(Of({"owner"}) \cup {i}) <= Cardinality(Of({"owner"})) + 1
  <2> DEFINE S == Of({"owner"})
  <2>1. Cardinality(S \cup {i}) = IF i \in S THEN Cardinality(S) ELSE Cardinality(S) + 1
    <3>1. IsFiniteSet(S)
      BY <1>3
    <3> HIDE DEF S
    <3> QED BY <3>1, FS_AddElement
  <2> HIDE DEF S
  <2>2. Cardinality(S) \in Nat
    BY <1>3 DEF S
  <2>3. Cardinality(S \cup {i}) <= Cardinality(S) + 1
    BY <2>1, <2>2
  <2> QED BY <2>3 DEF S
<1>5. Cardinality(Of({"owner"})') <= Cardinality(Of({"owner"}) \cup {i})
  BY <1>1, <1>2, SpaceSets
<1>6. Cardinality(Of({"owner"}) \cup {i}) \in Nat
  BY <1>2, SpaceSets
<1>7. CASE rows'[i].role # "owner" \/ rows[i].role = "owner"
  <2>1. Of({"owner"})' \subseteq Of({"owner"})
    BY <1>7 DEF Of
  <2>2. Cardinality(Of({"owner"})') <= Cardinality(Of({"owner"}))
    BY <1>1, <2>1, SpaceSets
  <2> QED BY <1>3, <1>4, <1>5, <1>6, <2>2 DEF Owned
<1> QED BY <1>3, <1>4, <1>5, <1>6, <1>7 DEF Owned

LEMMA RowValues ==
  /\ NoRow \in SpaceRows
  /\ \A x \in SpaceRows :
       /\ \A s \in Slugs : [x EXCEPT !.slug = s] \in SpaceRows
       /\ \A r \in SpaceRoles : [x EXCEPT !.role = r] \in SpaceRows
       /\ \A p \in Tiers : [x EXCEPT !.plan = p] \in SpaceRows
BY DEF NoRow, SpaceRows, SpaceRoles, Tiers

\* A request that has looked for a slug has one.
SlugChosen == \A q \in Requests : request[q].step \in {"probe", "insert", "rename"} => request[q].slug \in Slugs

\* What request steps and others leave of the reckoning when rows lose owners or
\* keep them, but for the one that a request inserts.
LEMMA RowStep ==
  ASSUME OwnedInv, SpaceTypes', NEW i \in Ids, UNCHANGED <<cloud, room, crowd>>,
         \A j \in Ids \ {i} : rows'[j].role = rows[j].role /\ rows'[j].plan = rows[j].plan,
         rows'[i].role = "owner" =>
           rows'[i].plan = "free" \/ (rows[i].role = "owner" /\ rows'[i].plan = rows[i].plan),
         \/ /\ rows'[i].role = "owner" => rows[i].role = "owner"
            /\ \A n \in Nat : Passing(n)' \subseteq Passing(n)
         \/ \E q \in Requests : RequestAt(q, "insert") /\ \A n \in Nat : Passing(n)' \subseteq Passing(n) \ {q},
         Counted' \subseteq Counted, CommunityCounts'
  PROVE  OwnedInv'
<1>1. LimitKnown /\ LimitKnown'
  BY NowKnown, ThenKnown DEF OwnedInv
<1>2. Limit' <= Limit
  BY LimitFalls DEF OwnedInv
<1>3. \A n : Passing(n) \subseteq Requests /\ Passing(n)' \subseteq Requests
  BY DEF Passing
<1>4. ASSUME NEW n \in Nat
      PROVE  Owned' + Cardinality(Passing(n)') <= Owned + Cardinality(Passing(n)) + 0
  <2>0. Cardinality(Passing(n)) \in Nat /\ Cardinality(Passing(n)') \in Nat
    BY <1>1 DEF LimitKnown
  <2>1. CASE (rows'[i].role = "owner" => rows[i].role = "owner") /\ Passing(n)' \subseteq Passing(n)
    <3>1. Cardinality(Passing(n)') <= Cardinality(Passing(n))
      BY <1>3, <2>1, SpaceSets
    <3>2. Owned' <= Owned /\ Owned \in Nat /\ Owned' \in Nat
      BY <2>1, OneMoreOwned
    <3> QED BY <2>0, <3>1, <3>2
  <2>2. ASSUME NEW q \in Requests, RequestAt(q, "insert"), Passing(n)' \subseteq Passing(n) \ {q}
        PROVE  Owned' + Cardinality(Passing(n)') <= Owned + Cardinality(Passing(n)) + 0
    <3>1. q \in Passing(n) /\ IsFiniteSet(Passing(n)) /\ Passing(n) \ {q} \in SUBSET Requests
      BY <1>3, <2>2, SpaceSets DEF Passing, RequestAt
    <3>2. Cardinality(Passing(n) \ {q}) = Cardinality(Passing(n)) - 1
      BY <3>1, FS_RemoveElement
    <3>3. Cardinality(Passing(n)') <= Cardinality(Passing(n) \ {q})
      BY <1>3, <2>2, <3>1, SpaceSets
    <3>4. Owned' <= Owned + 1 /\ Owned \in Nat /\ Owned' \in Nat
      BY OneMoreOwned
    <3> QED BY <2>0, <3>2, <3>3, <3>4
  <2> QED BY <2>1, <2>2
<1>5. SpacesReckoned'
  <2>1. Limit' <= Limit + 0 /\ Excess <= Excess' /\ room + 0 + 0 <= room'
    BY <1>1, <1>2 DEF LimitKnown, OwnedInv, SpaceTypes, Excess
  <2> QED BY <1>4, <2>1, MoreRoom
<1>6. CrowdCounted'
  <2>1. Counted \subseteq Requests
    BY DEF Counted
  <2>2. Cardinality(Counted') <= Cardinality(Counted)
    BY <2>1, SpaceSets
  <2> QED BY <1>1, <2>2 DEF OwnedInv, CrowdCounted, LimitKnown, SpaceTypes
<1> QED BY <1>5, <1>6 DEF OwnedInv

LEMMA InsertStep ==
  ASSUME OwnedInv, SlugChosen, NEW q \in Requests, InsertSpace(q)
  PROVE  OwnedInv'
<1>0. SpaceTypes /\ RequestAt(q, "insert") /\ UNCHANGED <<cloud, room, crowd, bereft>>
  BY DEF OwnedInv, InsertSpace
<1>1. OneRequest(q, "idle")
  BY <1>0, RequestGone DEF InsertSpace
<1>2. \A n \in Nat : Passing(n)' \subseteq Passing(n) \ {q}
  BY <1>1 DEF Passing, OneRequest
<1>3. Counted' \subseteq Counted
  BY <1>1 DEF Counted, OneRequest
<1>4. CommunityCounts'
  BY <1>0, <1>1 DEF OwnedInv, CommunityCounts, OneRequest, RequestAt
<1>5. CASE UNCHANGED rows
  <2>2. SpaceTypes'
    BY <1>0, <1>1, <1>5 DEF SpaceTypes, OneRequest
  <2> QED BY <1>0, <1>1, <1>5, <2>2, RequestStep
<1>6. ASSUME NEW i \in Ids, rows[i] = NoRow,
             rows' = [rows EXCEPT ![i] = [slug |-> request[q].slug, plan |-> "free", role |-> "owner"]]
      PROVE  OwnedInv'
  <2>1. [slug |-> request[q].slug, plan |-> "free", role |-> "owner"] \in SpaceRows
    BY <1>0 DEF SlugChosen, RequestAt, SpaceRows, SpaceRoles, Tiers
  <2>2. SpaceTypes'
    BY <1>0, <1>1, <1>6, <2>1 DEF SpaceTypes, OneRequest
  <2>3. /\ \A j \in Ids \ {i} : rows'[j] = rows[j]
        /\ rows'[i].plan = "free"
    BY <1>0, <1>6, <2>1 DEF SpaceTypes
  <2> QED BY <1>0, <1>2, <1>3, <1>4, <2>2, <2>3, RowStep
<1> QED BY <1>5, <1>6 DEF InsertSpace

SlugsDistinct ==
  \A i, j \in Ids : i # j /\ rows[i].slug = rows[j].slug => rows[i].slug = NoSlug

Member == Of({"member", "owner"})

\* A deletion of the community edition has seen another workspace, which stays as
\* long as nothing but requests one after the other takes workspaces from the user.
AnotherStays ==
  ~cloud /\ ~bereft =>
    \A q \in Requests : RequestAt(q, "delete") => \E i, j \in Member : i # j

WorkspaceInv == OwnedInv /\ SlugChosen /\ SlugsDistinct /\ AnotherStays

\* What a request step leaves of the rest of the invariant, when rows stay.
LEMMA RestKept ==
  ASSUME WorkspaceInv, NEW q \in Requests, NEW s, OneRequest(q, s), UNCHANGED <<cloud, rows, bereft>>,
         s \in {"probe", "insert", "rename"} => request'[q].slug \in Slugs,
         s = "delete" => cloud \/ \E i, j \in Member : i # j
  PROVE  SlugChosen' /\ SlugsDistinct' /\ AnotherStays'
<1>1. SlugChosen'
  BY DEF WorkspaceInv, SlugChosen, OneRequest
<1>2. SlugsDistinct'
  BY DEF WorkspaceInv, SlugsDistinct
<1>3. AnotherStays'
  BY DEF WorkspaceInv, AnotherStays, OneRequest, RequestAt, Member, Of
<1> QED BY <1>1, <1>2, <1>3

LEMMA StartCreateKeeps ==
  ASSUME WorkspaceInv, NEW q \in Requests, StartCreate(q)
  PROVE  WorkspaceInv'
<1>1. SpaceTypes /\ OwnedInv /\ UNCHANGED <<cloud, rows, room, crowd, bereft>>
  BY DEF WorkspaceInv, OwnedInv, StartCreate
<1>2. OneRequest(q, "count")
  BY <1>1, StepTaken DEF StartCreate
<1>3. SpaceTypes'
  BY <1>1, <1>2 DEF SpaceTypes, OneRequest
<1> QED BY <1>1, <1>2, <1>3, RequestStep, RestKept DEF WorkspaceInv

LEMMA CountSpacesKeeps ==
  ASSUME WorkspaceInv, NEW q \in Requests, CountSpaces(q)
  PROVE  WorkspaceInv'
<1>1. OwnedInv'
  BY CountStep DEF WorkspaceInv
<1>2. SpaceTypes /\ UNCHANGED <<cloud, rows, bereft>>
  BY DEF WorkspaceInv, OwnedInv, CountSpaces
<1>3. request' \in [Requests -> RequestRecords]
  BY <1>1 DEF OwnedInv, SpaceTypes
<1>4. /\ \A p \in Requests \ {q} : request'[p] = request[p]
      /\ request'[q].step = "limit" \/ request'[q].step = "idle"
           \/ (request'[q].step = "probe" /\ request'[q].slug = 1)
  <2>1. CASE cloud
    BY <1>2, <2>1 DEF CountSpaces, SpaceTypes, RequestRecords
  <2>2. CASE ~cloud /\ Of({"member", "owner"}) = {}
    BY <1>2, <2>2 DEF CountSpaces, SpaceTypes, RequestRecords
  <2>3. CASE ~cloud /\ Of({"member", "owner"}) # {}
    BY <1>2, <2>3 DEF CountSpaces, SpaceTypes, RequestEnds, NoRequest
  <2> QED BY <2>1, <2>2, <2>3
<1>5. 1 \in Slugs
  BY DEF Slugs
<1>6. OneRequest(q, request'[q].step)
  BY <1>3, <1>4 DEF OneRequest
<1> QED BY <1>1, <1>2, <1>4, <1>5, <1>6, RestKept DEF WorkspaceInv

LEMMA CheckLimitKeeps ==
  ASSUME WorkspaceInv, NEW q \in Requests, CheckLimit(q)
  PROVE  WorkspaceInv'
<1>1. SpaceTypes /\ OwnedInv /\ UNCHANGED <<cloud, rows, room, crowd, bereft>> /\ RequestAt(q, "limit")
  BY DEF WorkspaceInv, OwnedInv, CheckLimit
<1>2. CASE request[q].count >= BestLimit
  <2>1. OneRequest(q, "idle")
    BY <1>1, <1>2, RequestGone DEF CheckLimit
  <2>2. SpaceTypes'
    BY <1>1, <2>1 DEF SpaceTypes, OneRequest
  <2> QED BY <1>1, <2>1, <2>2, RequestStep, RestKept DEF WorkspaceInv
<1>3. CASE ~(request[q].count >= BestLimit)
  <2> DEFINE y == [request[q] EXCEPT !.step = "probe"]
             x == [y EXCEPT !.slug = 1]
  <2>1. y \in RequestRecords
    BY <1>1, RequestValues DEF SpaceTypes
  <2>2. y.step = "probe"
    BY <1>1 DEF SpaceTypes, RequestRecords
  <2>3. request' = [request EXCEPT ![q] = x]
    BY <1>1, <1>3 DEF CheckLimit, SpaceTypes
  <2> HIDE DEF y
  <2>4. 1 \in Slugs
    BY DEF Slugs
  <2>5. x \in RequestRecords
    BY <2>1, <2>4, RequestValues
  <2>6. x.step = "probe" /\ x.slug = 1
    BY <2>1, <2>2 DEF RequestRecords
  <2>7. OneRequest(q, "probe") /\ request'[q] = x
    BY <1>1, <2>3, <2>5, <2>6, RequestSet
  <2>8. SpaceTypes'
    BY <1>1, <2>7 DEF SpaceTypes, OneRequest
  <2>9. cloud /\ request[q].count < BestLimit
    <3>1. BestLimit \in Nat /\ request[q].count \in Nat
      BY <1>1, NowKnown, SpaceSets DEF LimitKnown, SpaceTypes, RequestRecords
    <3> QED BY <1>1, <1>3, <3>1 DEF OwnedInv, CommunityCounts
  <2>10. OwnedInv'
    BY <1>1, <2>7, <2>8, <2>9, RequestStep
  <2> QED BY <1>1, <2>4, <2>6, <2>7, <2>10, RestKept DEF WorkspaceInv
<1> QED BY <1>2, <1>3

LEMMA ProbeKeeps ==
  ASSUME WorkspaceInv, NEW q \in Requests, Probe(q)
  PROVE  WorkspaceInv'
<1>1. /\ SpaceTypes /\ OwnedInv /\ UNCHANGED <<cloud, rows, room, crowd, bereft>>
      /\ RequestAt(q, "probe") /\ request[q].slug \in Slugs
  BY DEF WorkspaceInv, OwnedInv, Probe, SlugChosen, RequestAt
<1>2. CASE Taken(request[q].slug)
  <2> DEFINE x == [request[q] EXCEPT !.slug = request[q].slug + 1]
  <2>1. request[q].slug + 1 \in Slugs
    BY <1>1, <1>2 DEF Probe, Slugs
  <2>2. x \in RequestRecords
    BY <1>1, <2>1, RequestValues DEF SpaceTypes
  <2>3. x.step = "probe" /\ x.slug = request[q].slug + 1
    BY <1>1 DEF SpaceTypes, RequestRecords, RequestAt
  <2>4. request' = [request EXCEPT ![q] = x]
    BY <1>1, <1>2 DEF Probe, SpaceTypes
  <2>5. OneRequest(q, "probe") /\ request'[q] = x
    BY <1>1, <2>2, <2>3, <2>4, RequestSet
  <2>6. SpaceTypes'
    BY <1>1, <2>5 DEF SpaceTypes, OneRequest
  <2>7. OwnedInv'
    BY <1>1, <2>5, <2>6, RequestStep
  <2> QED BY <1>1, <2>1, <2>3, <2>5, <2>7, RestKept DEF WorkspaceInv
<1>3. CASE ~Taken(request[q].slug)
  <2>1. OneRequest(q, "insert") /\ request'[q] = [request[q] EXCEPT !.step = "insert"]
    BY <1>1, <1>3, StepTaken DEF Probe
  <2>2. request'[q].slug \in Slugs
    BY <1>1, <2>1 DEF SpaceTypes, RequestRecords
  <2>3. SpaceTypes'
    BY <1>1, <2>1 DEF SpaceTypes, OneRequest
  <2>4. OwnedInv'
    BY <1>1, <2>1, <2>3, RequestStep
  <2> QED BY <1>1, <2>1, <2>2, <2>4, RestKept DEF WorkspaceInv
<1> QED BY <1>2, <1>3

LEMMA OtherRequest ==
  ASSUME NEW z, NEW s, NEW i
  PROVE  /\ [NoRequest EXCEPT !.step = z, !.slug = s, !.row = i]
              = [step |-> z, slug |-> s, row |-> i, count |-> 0]
         /\ [NoRequest EXCEPT !.step = z, !.row = i]
              = [step |-> z, slug |-> NoSlug, row |-> i, count |-> 0]
<1> DEFINE a == [NoRequest EXCEPT !.step = z]
           b == [a EXCEPT !.slug = s]
<1>1. /\ [NoRequest EXCEPT !.step = z, !.slug = s, !.row = i] = [b EXCEPT !.row = i]
      /\ [NoRequest EXCEPT !.step = z, !.row = i] = [a EXCEPT !.row = i]
  OBVIOUS
<1>2. a = [step |-> z, slug |-> NoSlug, row |-> NoSlug, count |-> 0]
  BY DEF NoRequest
<1> HIDE DEF a
<1>3. b = [step |-> z, slug |-> s, row |-> NoSlug, count |-> 0]
  BY <1>2
<1> HIDE DEF b
<1>4. [a EXCEPT !.row = i] = [step |-> z, slug |-> NoSlug, row |-> i, count |-> 0]
  BY <1>2
<1>5. [b EXCEPT !.row = i] = [step |-> z, slug |-> s, row |-> i, count |-> 0]
  BY <1>3
<1> QED BY <1>1, <1>4, <1>5

\* A rename or a deletion begins: the row is one that the user owns.
LEMMA OtherStarts ==
  ASSUME WorkspaceInv, NEW q \in Requests, CheckSlug(q) \/ StartDelete(q)
  PROVE  WorkspaceInv'
<1>1. /\ SpaceTypes /\ OwnedInv /\ UNCHANGED <<cloud, rows, room, crowd, bereft>>
  BY DEF WorkspaceInv, OwnedInv, CheckSlug, StartDelete
<1>2. PICK x \in RequestRecords :
        /\ request' = [request EXCEPT ![q] = x]
        /\ x.step \in {"rename", "delete", "last"}
        /\ x.step = "rename" => x.slug \in Slugs
        /\ x.step = "delete" => cloud
  <2>1. ASSUME NEW i \in Of({"owner"}), NEW s \in Slugs,
               request' = [request EXCEPT ![q] = [NoRequest EXCEPT !.step = "rename", !.slug = s, !.row = i]]
        PROVE  \E x \in RequestRecords :
                 /\ request' = [request EXCEPT ![q] = x]
                 /\ x.step = "rename" /\ x.slug \in Slugs
    <3> DEFINE z == "rename"
               x == [step |-> z, slug |-> s, row |-> i, count |-> 0]
    <3>1. [NoRequest EXCEPT !.step = z, !.slug = s, !.row = i] = x
      <4> HIDE DEF z
      <4> QED BY OtherRequest
    <3>2. x \in RequestRecords
      BY SpaceSets DEF RequestRecords, Of
    <3>3. x.step = "rename" /\ x.slug = s
      OBVIOUS
    <3> HIDE DEF x
    <3> QED BY <2>1, <3>1, <3>2, <3>3
  <2>2. ASSUME NEW i \in Of({"owner"}),
               request' = [request EXCEPT ![q] =
                 [NoRequest EXCEPT !.step = IF cloud THEN "delete" ELSE "last", !.row = i]]
        PROVE  \E x \in RequestRecords :
                 /\ request' = [request EXCEPT ![q] = x]
                 /\ x.step = (IF cloud THEN "delete" ELSE "last")
    <3> DEFINE z == IF cloud THEN "delete" ELSE "last"
               x == [step |-> z, slug |-> NoSlug, row |-> i, count |-> 0]
    <3>1. [NoRequest EXCEPT !.step = z, !.row = i] = x
      BY OtherRequest
    <3>2. x \in RequestRecords
      BY SpaceSets DEF RequestRecords, Of
    <3>3. x.step = z
      OBVIOUS
    <3> HIDE DEF x
    <3> QED BY <2>2, <3>1, <3>2, <3>3
  <2>3. CASE CheckSlug(q)
    BY <2>1, <2>3 DEF CheckSlug
  <2>4. CASE StartDelete(q)
    BY <2>2, <2>4 DEF StartDelete
  <2> QED BY <2>3, <2>4
<1>3. OneRequest(q, x.step) /\ request'[q] = x
  BY <1>1, <1>2, RequestSet
<1>4. SpaceTypes'
  BY <1>1, <1>3 DEF SpaceTypes, OneRequest
<1>5. OwnedInv'
  BY <1>1, <1>2, <1>3, <1>4, RequestStep
<1> QED BY <1>1, <1>2, <1>3, <1>5, RestKept DEF WorkspaceInv

LEMMA CountBeforeDeleteKeeps ==
  ASSUME WorkspaceInv, NEW q \in Requests, CountBeforeDelete(q)
  PROVE  WorkspaceInv'
<1>1. SpaceTypes /\ OwnedInv /\ UNCHANGED <<cloud, rows, room, crowd, bereft>>
  BY DEF WorkspaceInv, OwnedInv, CountBeforeDelete
<1>2. CASE Cardinality(Member) <= 1
  <2>1. OneRequest(q, "idle")
    BY <1>1, <1>2, RequestGone DEF CountBeforeDelete, Member
  <2>2. SpaceTypes'
    BY <1>1, <2>1 DEF SpaceTypes, OneRequest
  <2> QED BY <1>1, <2>1, <2>2, RequestStep, RestKept DEF WorkspaceInv
<1>3. CASE ~(Cardinality(Member) <= 1)
  <2>1. OneRequest(q, "delete")
    BY <1>1, <1>3, StepTaken DEF CountBeforeDelete, Member
  <2>2. SpaceTypes'
    BY <1>1, <2>1 DEF SpaceTypes, OneRequest
  <2>3. \E i, j \in Member : i # j
    <3>1. IsFiniteSet(Member) /\ Cardinality(Member) \in Nat
      BY SpaceSets DEF Member, Of
    <3>2. Member # {}
      BY <1>3, FS_EmptySet
    <3>3. PICK i \in Member : TRUE
      BY <3>2
    <3>4. Member # {i}
      <4>1. Cardinality({i}) = 1
        BY FS_Singleton
      <4>2. ASSUME Member = {i} PROVE FALSE
        BY <1>3, <4>1, <4>2
      <4> QED BY <4>2
    <3> QED BY <3>3, <3>4
  <2>4. OwnedInv'
    BY <1>1, <2>1, <2>2, RequestStep
  <2> QED BY <1>1, <2>1, <2>3, <2>4, RestKept DEF WorkspaceInv
<1> QED BY <1>2, <1>3

LEMMA InsertSpaceKeeps ==
  ASSUME WorkspaceInv, NEW q \in Requests, InsertSpace(q)
  PROVE  WorkspaceInv' /\ Member \subseteq Member'
<1>1. /\ SpaceTypes /\ RequestAt(q, "insert") /\ UNCHANGED <<cloud, bereft>>
      /\ request[q].slug \in Slugs
  BY DEF WorkspaceInv, OwnedInv, InsertSpace, SlugChosen, RequestAt
<1>2. OwnedInv'
  BY InsertStep DEF WorkspaceInv
<1>3. OneRequest(q, "idle")
  BY <1>1, RequestGone DEF InsertSpace
<1>4. SlugChosen'
  BY <1>3 DEF WorkspaceInv, SlugChosen, OneRequest
<1>5. CASE UNCHANGED rows
  BY <1>1, <1>2, <1>3, <1>5, RestKept DEF WorkspaceInv, Member, Of
<1>6. ASSUME NEW i \in Ids, rows[i] = NoRow, ~Taken(request[q].slug),
             rows' = [rows EXCEPT ![i] = [slug |-> request[q].slug, plan |-> "free", role |-> "owner"]]
      PROVE  SlugsDistinct' /\ AnotherStays' /\ Member \subseteq Member'
  <2>1. /\ \A j \in Ids \ {i} : rows'[j] = rows[j]
        /\ rows'[i].slug = request[q].slug /\ rows'[i].role = "owner"
    BY <1>1, <1>6 DEF SpaceTypes
  <2>2. SlugsDistinct'
    BY <1>6, <2>1 DEF WorkspaceInv, SlugsDistinct, Taken
  <2>3. Member \subseteq Member'
    BY <2>1 DEF Member, Of
  <2>4. AnotherStays'
    BY <1>1, <1>3, <2>3 DEF WorkspaceInv, AnotherStays, OneRequest, RequestAt
  <2> QED BY <2>2, <2>3, <2>4
<1> QED BY <1>2, <1>4, <1>5, <1>6 DEF InsertSpace, WorkspaceInv

\* A rename, or a slug taken by another workspace, leaves plans and roles.
LEMMA SlugStep ==
  ASSUME WorkspaceInv, NEW i \in Ids, NEW s \in Slugs, ~Taken(s),
         rows' = [rows EXCEPT ![i].slug = s], UNCHANGED <<cloud, room, crowd, bereft>>,
         \/ UNCHANGED request \/ \E q \in Requests : OneRequest(q, "idle")
  PROVE  WorkspaceInv' /\ Member \subseteq Member'
<1>1. SpaceTypes /\ OwnedInv
  BY DEF WorkspaceInv, OwnedInv
<1>2. [rows[i] EXCEPT !.slug = s] \in SpaceRows
  BY <1>1, RowValues DEF SpaceTypes
<1>3. /\ \A j \in Ids \ {i} : rows'[j] = rows[j]
      /\ rows'[i].slug = s /\ rows'[i].role = rows[i].role /\ rows'[i].plan = rows[i].plan
  BY <1>1 DEF SpaceTypes, SpaceRows
<1>4. SpaceTypes'
  <2>1. rows' \in [Ids -> SpaceRows]
    BY <1>1, <1>2 DEF SpaceTypes
  <2> QED BY <1>1, <2>1 DEF SpaceTypes, OneRequest
<1>5. \A q \in Requests : request'[q] = request[q] \/ request'[q].step = "idle"
  BY DEF OneRequest
<1>6. Counted' \subseteq Counted /\ CommunityCounts' /\ SlugChosen' /\ \A n \in Nat : Passing(n)' \subseteq Passing(n)
  BY <1>5 DEF Counted, CommunityCounts, SlugChosen, Passing, RequestAt, WorkspaceInv, OwnedInv
<1>7. OwnedInv'
  BY <1>1, <1>3, <1>4, <1>6, RowStep
<1>8. Member' = Member
  BY <1>3 DEF Member, Of
<1>9. SlugsDistinct'
  BY <1>3 DEF WorkspaceInv, SlugsDistinct, Taken
<1>10. AnotherStays'
  BY <1>5, <1>8 DEF WorkspaceInv, AnotherStays, RequestAt
<1> QED BY <1>6, <1>7, <1>8, <1>9, <1>10 DEF WorkspaceInv

LEMMA RenameKeeps ==
  ASSUME WorkspaceInv, NEW q \in Requests, Rename(q)
  PROVE  WorkspaceInv' /\ Member \subseteq Member'
<1>1. /\ SpaceTypes /\ OwnedInv /\ RequestAt(q, "rename") /\ UNCHANGED <<cloud, room, crowd, bereft>>
      /\ request[q].slug \in Slugs
  BY DEF WorkspaceInv, OwnedInv, Rename, SlugChosen, RequestAt
<1>2. OneRequest(q, "idle")
  BY <1>1, RequestGone DEF Rename
<1>3. CASE UNCHANGED rows
  <2>1. SpaceTypes'
    BY <1>1, <1>2, <1>3 DEF SpaceTypes, OneRequest
  <2> QED BY <1>1, <1>2, <1>3, <2>1, RequestStep, RestKept DEF WorkspaceInv, Member, Of
<1>4. CASE rows' # rows
  <2>1. ~Taken(request[q].slug) /\ rows' = [rows EXCEPT ![request[q].row].slug = request[q].slug]
    BY <1>4 DEF Rename
  <2>2. request[q].row \in Ids
    BY <1>1, <1>4, <2>1 DEF SpaceTypes
  <2> QED BY <1>1, <1>2, <2>1, <2>2, SlugStep
<1> QED BY <1>3, <1>4

LEMMA OtherSpaceKeeps ==
  ASSUME WorkspaceInv, NEW i \in Ids, NEW s \in Slugs, OtherSpace(i, s)
  PROVE  WorkspaceInv' /\ Member \subseteq Member'
BY SlugStep DEF OtherSpace

\* Of two workspaces a deletion takes one.
LEMMA DeleteSpaceKeeps ==
  ASSUME WorkspaceInv, NEW q \in Requests, DeleteSpace(q)
  PROVE  /\ WorkspaceInv'
         /\ ~cloud /\ ~bereft' => Member' # {}
<1>1. /\ SpaceTypes /\ OwnedInv /\ RequestAt(q, "delete") /\ UNCHANGED <<cloud, room, crowd>>
      /\ rows' = [rows EXCEPT ![request[q].row] = NoRow]
      /\ bereft' = (bereft \/ \E p \in Requests \ {q} : RequestAt(p, "delete"))
  BY DEF WorkspaceInv, OwnedInv, DeleteSpace
<1>2. OneRequest(q, "idle")
  BY <1>1, RequestGone DEF DeleteSpace
<1>3. bereft' \in BOOLEAN
  BY <1>1, Zenon DEF SpaceTypes
<1>4. SpaceTypes'
  <2>1. rows' \in [Ids -> SpaceRows]
    BY <1>1, RowValues DEF SpaceTypes
  <2> QED BY <1>1, <1>2, <1>3, <2>1 DEF SpaceTypes, OneRequest
<1>5. Counted' \subseteq Counted /\ CommunityCounts' /\ SlugChosen' /\ \A n \in Nat : Passing(n)' \subseteq Passing(n)
  BY <1>1, <1>2 DEF Counted, CommunityCounts, SlugChosen, Passing, RequestAt, WorkspaceInv, OwnedInv, OneRequest
<1>6. OwnedInv'
  <2>1. CASE UNCHANGED rows
    BY <1>1, <1>2, <1>4, <2>1, RequestStep
  <2>2. CASE rows' # rows
    <3>1. PICK i \in Ids : i = request[q].row
      BY <1>1, <2>2 DEF SpaceTypes
    <3>2. rows'[i] = NoRow /\ \A j \in Ids \ {i} : rows'[j] = rows[j]
      BY <1>1, <3>1 DEF SpaceTypes
    <3>3. rows'[i].role # "owner"
      BY <3>2 DEF NoRow
    <3> QED BY <1>1, <1>4, <1>5, <3>2, <3>3, RowStep
  <2> QED BY <2>1, <2>2
<1>7. SlugsDistinct'
  <2>1. \A j \in Ids : rows'[j] = rows[j] \/ rows'[j].slug = NoSlug
    BY <1>1 DEF SpaceTypes, NoRow
  <2> QED BY <2>1 DEF WorkspaceInv, SlugsDistinct
<1>8. ASSUME ~cloud, ~bereft' PROVE Member' # {} /\ \A p \in Requests : ~RequestAt(p, "delete")'
  <2>1. ~bereft /\ \A p \in Requests \ {q} : ~RequestAt(p, "delete")
    BY <1>1, <1>8
  <2>2. \A p \in Requests : ~RequestAt(p, "delete")'
    BY <1>2, <2>1 DEF RequestAt, OneRequest
  <2>3. PICK i, j \in Member : i # j
    BY <1>1, <1>8, <2>1 DEF WorkspaceInv, AnotherStays
  <2>4. \A k \in Member : k # request[q].row => k \in Member'
    BY <1>1 DEF Member, Of, SpaceTypes
  <2> QED BY <2>2, <2>3, <2>4
<1>9. AnotherStays'
  BY <1>1, <1>8 DEF AnotherStays
<1> QED BY <1>5, <1>6, <1>7, <1>8, <1>9 DEF WorkspaceInv

\* Roles and plans that others change: what they give is added to the room.
LEMMA RoomAdded ==
  ASSUME OwnedInv, NEW i \in Ids, UNCHANGED <<cloud, request>>, NewRoom,
         rows' \in [Ids -> SpaceRows], bereft' \in BOOLEAN,
         \A j \in Ids \ {i} : rows'[j].role = rows[j].role
  PROVE  OwnedInv'
<1> DEFINE gained == Of({"owner"})' \ Of({"owner"})
           d == Cardinality(gained)
           e == IF Limit' > Limit THEN Limit' - Limit ELSE 0
<1>0. SpaceTypes /\ LimitKnown
  BY NowKnown DEF OwnedInv
<1>1. Owned \in Nat /\ Owned' \in Nat /\ d \in Nat /\ Owned' <= Owned + d
  <2>1. gained \in SUBSET Ids
    BY DEF Of
  <2>2. d \in Nat
    BY <2>1, SpaceSets
  <2>3. Owned \in Nat /\ Owned' \in Nat /\ Owned' <= Owned + 1
    BY OneMoreOwned
  <2>4. CASE rows'[i].role # "owner" \/ rows[i].role = "owner"
    <3>1. Owned' <= Owned
      BY <2>4, OneMoreOwned
    <3> QED BY <2>2, <2>3, <3>1
  <2>5. CASE rows'[i].role = "owner" /\ rows[i].role # "owner"
    <3>1. i \in gained
      BY <2>5 DEF Of
    <3>2. d # 0
      <4> HIDE DEF gained
      <4> QED BY <2>1, <3>1, SpaceSets, FS_EmptySet
    <3> QED BY <2>2, <2>3, <3>2
  <2> QED BY <2>4, <2>5
<1>2. Limit \in Nat /\ Limit' \in Nat /\ e \in Nat /\ Limit' <= Limit + e
  <2>1. RowTypes' => BestLimitGreatest'
    BY BestLimitIs, PTL
  <2>2. Limit' \in Nat
    BY <2>1 DEF Limit, BestLimitGreatest, RowTypes
  <2>3. Limit \in Nat
    BY <1>0 DEF LimitKnown
  <2>4. \A m, n \in Nat : LET x == IF n > m THEN n - m ELSE 0 IN x \in Nat /\ n <= m + x
    OBVIOUS
  <2> QED BY <2>2, <2>3, <2>4
<1>3. /\ room \in Nat /\ room' \in Nat /\ crowd' \in Nat /\ Cardinality(Ids) \in Nat
      /\ Counted = {} => crowd' = 0 /\ Limit' <= room' /\ Owned' <= room'
      /\ Counted # {} => crowd' = crowd /\ (room + d + e <= room' \/ Cardinality(Ids) <= room')
  <2>0. room \in Nat /\ crowd \in Nat /\ Cardinality(Ids) \in Nat
    BY <1>0, SpaceSets DEF SpaceTypes
  <2>1. CASE Counted = {}
    <3>1. room' = MostOf({Limit', Owned'}) /\ crowd' = 0
      BY <2>1 DEF NewRoom, Owned
    <3>2. room' = (IF Limit' <= Owned' THEN Owned' ELSE Limit')
      BY <1>1, <1>2, <3>1, MostOfTwo
    <3> QED BY <1>1, <1>2, <2>0, <2>1, <3>1, <3>2
  <2>2. CASE Counted # {}
    <3> DEFINE most == LeastOf({room + (d + e), Cardinality(Ids)})
    <3>1. room' = MostOf({room, most}) /\ crowd' = crowd
      BY <2>2 DEF NewRoom
    <3>2. most = IF room + (d + e) <= Cardinality(Ids) THEN room + (d + e) ELSE Cardinality(Ids)
      <4>1. room + (d + e) \in Nat
        BY <1>1, <1>2, <2>0
      <4> QED BY <2>0, <4>1, MostOfTwo
    <3>3. most \in Nat
      BY <1>1, <1>2, <2>0, <3>2
    <3>4. room' = IF room <= most THEN most ELSE room
      <4> HIDE DEF most
      <4> QED BY <2>0, <3>1, <3>3, MostOfTwo
    <3>5. d \in Nat /\ e \in Nat
      BY <1>1, <1>2
    <3> HIDE DEF most, d, e
    <3>6. room' \in Nat
      BY <2>0, <3>3, <3>4
    <3>7. room + d + e <= room' \/ Cardinality(Ids) <= room'
      BY <2>0, <3>2, <3>3, <3>4, <3>5
    <3> QED BY <2>0, <2>2, <3>1, <3>6, <3>7
  <2> QED BY <2>1, <2>2
<1>4. SpaceTypes'
  BY <1>0, <1>3 DEF SpaceTypes
<1>5. LimitKnown'
  BY <1>4, ThenKnown
<1>6. SpacesReckoned'
  <2>1. CASE Counted = {}
    <3>1. \A n \in Nat : Cardinality(Passing(n)') = 0
      <4>1. \A n \in Nat : Passing(n)' = {}
        BY <2>1 DEF Counted, Passing
      <4> QED BY <4>1, FS_EmptySet
    <3>2. Excess' = 0
      BY <1>3, <2>1 DEF Excess
    <3>3. Limit' <= room' /\ Owned' <= room'
      BY <1>3, <2>1
    <3>4. \A n \in Nat : Limit' <= n => Owned' + 0 <= room' + (n - Limit') + 0
      <4>1. Owned' \in Nat /\ Limit' \in Nat /\ room' \in Nat
        BY <1>1, <1>2, <1>3
      <4>2. \A a, b, c, n \in Nat : b <= c /\ a <= c /\ b <= n => a + 0 <= c + (n - b) + 0
        OBVIOUS
      <4> QED BY <3>3, <4>1, <4>2
    <3> QED BY <3>1, <3>2, <3>3, <3>4 DEF SpacesReckoned
  <2>2. CASE Counted # {}
    <3>1. Excess <= Excess'
      BY <1>3, <1>5, <2>2 DEF Excess, LimitKnown
    <3>2. \A n \in Nat : Cardinality(Passing(n)') = Cardinality(Passing(n)) /\ Cardinality(Passing(n)) \in Nat
      BY <1>0 DEF Passing, LimitKnown
    <3>3. \A n \in Nat : Owned' + Cardinality(Passing(n)') <= Owned + Cardinality(Passing(n)) + d
      <4> HIDE DEF d
      <4> QED BY <1>1, <3>2
    <3> HIDE DEF d, e
    <3> QED BY <1>1, <1>2, <1>3, <1>4, <2>2, <3>1, <3>3, MoreRoom
  <2> QED BY <2>1, <2>2
<1>7. CrowdCounted'
  <2>1. Counted' = Counted
    BY DEF Counted
  <2>2. CASE Counted = {}
    BY <1>3, <2>1, <2>2, FS_EmptySet DEF CrowdCounted
  <2>3. CASE Counted # {}
    BY <1>3, <2>1, <2>3 DEF OwnedInv, CrowdCounted
  <2> QED BY <2>2, <2>3
<1>8. CommunityCounts'
  BY DEF OwnedInv, CommunityCounts, RequestAt
<1> QED BY <1>4, <1>6, <1>7, <1>8 DEF OwnedInv

LEMMA RoleChangesKeeps ==
  ASSUME WorkspaceInv, NEW i \in Ids, NEW role \in SpaceRoles, RoleChanges(i, role)
  PROVE  WorkspaceInv' /\ (~bereft' => Member' # {})
<1>1. /\ SpaceTypes /\ OwnedInv /\ UNCHANGED <<cloud, request>> /\ NewRoom
      /\ rows' = [rows EXCEPT ![i].role = role] /\ bereft' = (bereft \/ role = "none")
  BY DEF WorkspaceInv, OwnedInv, RoleChanges
<1>2. [rows[i] EXCEPT !.role = role] \in SpaceRows
  BY <1>1, RowValues DEF SpaceTypes
<1>3. /\ rows' \in [Ids -> SpaceRows]
      /\ \A j \in Ids \ {i} : rows'[j] = rows[j]
      /\ rows'[i].slug = rows[i].slug /\ rows'[i].role = role
  BY <1>1, <1>2 DEF SpaceTypes, SpaceRows
<1>4. bereft' \in BOOLEAN
  BY <1>1, Zenon DEF SpaceTypes
<1>5. OwnedInv'
  BY <1>1, <1>3, <1>4, RoomAdded
<1>6. SlugChosen' /\ SlugsDistinct'
  BY <1>1, <1>3 DEF WorkspaceInv, SlugChosen, SlugsDistinct
<1>7. ~bereft' => Member \subseteq Member' /\ i \in Member'
  BY <1>1, <1>3 DEF Member, Of, SpaceRoles
<1>8. AnotherStays'
  BY <1>1, <1>7 DEF WorkspaceInv, AnotherStays, RequestAt
<1> QED BY <1>5, <1>6, <1>7, <1>8 DEF WorkspaceInv

LEMMA PlanOfKeeps ==
  ASSUME WorkspaceInv, NEW i \in Ids, NEW p \in Tiers, PlanOf(i, p)
  PROVE  WorkspaceInv' /\ Member \subseteq Member'
<1>1. /\ SpaceTypes /\ OwnedInv /\ UNCHANGED <<cloud, request, bereft>> /\ NewRoom
      /\ rows' = [rows EXCEPT ![i].plan = p]
  BY DEF WorkspaceInv, OwnedInv, PlanOf
<1>2. [rows[i] EXCEPT !.plan = p] \in SpaceRows
  BY <1>1, RowValues DEF SpaceTypes
<1>3. /\ rows' \in [Ids -> SpaceRows]
      /\ \A j \in Ids : rows'[j].slug = rows[j].slug /\ rows'[j].role = rows[j].role
  BY <1>1, <1>2 DEF SpaceTypes, SpaceRows
<1>4. OwnedInv'
  BY <1>1, <1>3, RoomAdded DEF SpaceTypes
<1>5. SlugChosen' /\ SlugsDistinct'
  BY <1>1, <1>3 DEF WorkspaceInv, SlugChosen, SlugsDistinct
<1>6. Member' = Member
  BY <1>3 DEF Member, Of
<1>7. AnotherStays'
  BY <1>1, <1>6 DEF WorkspaceInv, AnotherStays, RequestAt
<1> QED BY <1>4, <1>5, <1>6, <1>7 DEF WorkspaceInv

-----------------------------------------------------------------------------

LEMMA WorkspaceStart == WorkspaceInit => WorkspaceInv
<1> SUFFICES ASSUME WorkspaceInit PROVE WorkspaceInv
  OBVIOUS
<1>1. SpaceTypes
  <2>1. cloud \in BOOLEAN /\ bereft \in BOOLEAN
    BY Zenon DEF WorkspaceInit
  <2>2. rows \in [Ids -> SpaceRows] /\ request \in [Requests -> RequestRecords]
    BY RowValues, RequestValues DEF WorkspaceInit
  <2>3. room \in Nat /\ crowd \in Nat
    BY DEF WorkspaceInit
  <2> QED BY <2>1, <2>2, <2>3 DEF SpaceTypes
<1>2. /\ \A i \in Ids : rows[i].role = "none" /\ rows[i].slug = NoSlug
      /\ \A q \in Requests : request[q].step = "idle"
  BY DEF WorkspaceInit, NoRow, NoRequest
<1>3. Of({"owner"}) = {} /\ Counted = {} /\ \A n \in Nat : Passing(n) = {}
  BY <1>2 DEF Of, Counted, Passing
<1>4. Limit = room
  <2>1. BestLimitGreatest
    BY <1>1, BestLimitIs DEF SpaceTypes, RowTypes
  <2>2. BestLimit = FreeSpaces
    BY <1>3, <2>1 DEF BestLimitGreatest
  <2> QED BY <2>2 DEF Limit, WorkspaceInit
<1>5. Owned = 0 /\ Cardinality(Counted) = 0 /\ (\A n \in Nat : Cardinality(Passing(n)) = 0) /\ Excess = 0
  BY <1>3, FS_EmptySet DEF Owned, Excess, WorkspaceInit
<1>6. SpacesReckoned
  <2>1. \A n \in Nat : Limit <= n => 0 + 0 <= room + (n - Limit) + 0
    BY <1>1, <1>4 DEF SpaceTypes
  <2> QED BY <1>1, <1>4, <1>5, <2>1 DEF SpacesReckoned, SpaceTypes
<1>7. CrowdCounted /\ CommunityCounts
  BY <1>1, <1>2, <1>5 DEF CrowdCounted, CommunityCounts, RequestAt, WorkspaceInit
<1>8. SlugChosen /\ SlugsDistinct /\ AnotherStays
  BY <1>2 DEF SlugChosen, SlugsDistinct, AnotherStays, RequestAt
<1> QED BY <1>1, <1>6, <1>7, <1>8 DEF WorkspaceInv, OwnedInv

LEMMA WorkspaceStep ==
  WorkspaceInv /\ [WorkspaceNext]_workspaceVars =>
    /\ WorkspaceInv'
    /\ ~cloud /\ ~bereft' /\ Member # {} => Member' # {}
<1> SUFFICES ASSUME WorkspaceInv, [WorkspaceNext]_workspaceVars
             PROVE  /\ WorkspaceInv'
                    /\ ~cloud /\ ~bereft' => Member \subseteq Member' \/ Member' # {}
  OBVIOUS
<1>1. CASE UNCHANGED workspaceVars
  <2>1. WorkspaceInv'
    BY <1>1 DEF workspaceVars, WorkspaceInv, OwnedInv, SpaceTypes, SpacesReckoned, CrowdCounted,
                CommunityCounts, SlugChosen, SlugsDistinct, AnotherStays, RequestAt, Member, Of,
                Owned, Excess, Limit, BestLimit, Passing, Counted
  <2> QED BY <1>1, <2>1 DEF workspaceVars, Member, Of
<1>2. ASSUME NEW q \in Requests,
             \/ StartCreate(q) \/ CountSpaces(q) \/ CheckLimit(q) \/ Probe(q)
             \/ CheckSlug(q) \/ StartDelete(q) \/ CountBeforeDelete(q)
      PROVE  WorkspaceInv' /\ Member \subseteq Member'
  <2>1. Member' = Member
    BY <1>2 DEF StartCreate, CountSpaces, CheckLimit, Probe, CheckSlug, StartDelete,
                CountBeforeDelete, Member, Of
  <2>2. WorkspaceInv'
    BY <1>2, StartCreateKeeps, CountSpacesKeeps, CheckLimitKeeps, ProbeKeeps, OtherStarts,
       CountBeforeDeleteKeeps
  <2> QED BY <2>1, <2>2
<1>3. ASSUME NEW q \in Requests, InsertSpace(q) \/ Rename(q)
      PROVE  WorkspaceInv' /\ Member \subseteq Member'
  BY <1>3, InsertSpaceKeeps, RenameKeeps
<1>4. ASSUME NEW q \in Requests, DeleteSpace(q)
      PROVE  WorkspaceInv' /\ (~cloud /\ ~bereft' => Member' # {})
  BY <1>4, DeleteSpaceKeeps
<1>5. ASSUME NEW i \in Ids, NEW s \in Slugs, OtherSpace(i, s)
      PROVE  WorkspaceInv' /\ Member \subseteq Member'
  BY <1>5, OtherSpaceKeeps
<1>6. ASSUME NEW i \in Ids, NEW role \in {"none", "member", "owner"}, RoleChanges(i, role)
      PROVE  WorkspaceInv' /\ (~bereft' => Member' # {})
  BY <1>6, RoleChangesKeeps DEF SpaceRoles
<1>7. ASSUME NEW i \in Ids, NEW p \in Tiers, PlanOf(i, p)
      PROVE  WorkspaceInv' /\ Member \subseteq Member'
  BY <1>7, PlanOfKeeps
<1> QED BY <1>1, <1>2, <1>3, <1>4, <1>5, <1>6, <1>7 DEF WorkspaceNext

LEMMA WorkspaceInvariant == WorkspaceSpec => []WorkspaceInv
<1>1. WorkspaceInv /\ [WorkspaceNext]_workspaceVars => WorkspaceInv'
  BY WorkspaceStep
<1> QED BY <1>1, WorkspaceStart, PTL DEF WorkspaceSpec

\* The rows and the requests keep their types, and no two workspaces have a slug.
THEOREM WorkspaceTypesKept == WorkspaceSpec => []WorkspaceTypeOK
<1>1. WorkspaceInv => WorkspaceTypeOK
  BY Zenon DEF WorkspaceInv, OwnedInv, SpaceTypes, SlugsDistinct, WorkspaceTypeOK, SpaceRows,
     SpaceRoles, RequestRecords
<1> QED BY <1>1, WorkspaceInvariant, PTL

\* Creations that overlap exceed the plan by no more than they overlap
\* (createWorkspace).
THEOREM OwnedBounded == WorkspaceSpec => []OwnedWithinPlan
<1>1. WorkspaceInv => OwnedWithinPlan
  <2> SUFFICES ASSUME WorkspaceInv PROVE Owned <= room + Excess
    BY DEF OwnedWithinPlan, Owned, Excess
  <2>1. /\ LimitKnown /\ room \in Nat /\ SpacesReckoned
    BY NowKnown DEF WorkspaceInv, OwnedInv, SpaceTypes
  <2>2. PICK l \in Nat : l = Limit
    BY <2>1 DEF LimitKnown
  <2>3. Cardinality(Passing(l)) \in Nat /\ Owned \in 0 .. Cardinality(Ids) /\ Excess \in Nat
    BY <2>1 DEF LimitKnown
  <2>4. CASE Cardinality(Ids) <= room
    BY <2>1, <2>3, <2>4, SpaceSets
  <2>5. CASE Owned + Cardinality(Passing(l)) <= room + (l - Limit) + Excess
    BY <2>1, <2>2, <2>3, <2>5, SpaceSets
  <2> QED BY <2>1, <2>2, <2>4, <2>5 DEF SpacesReckoned
<1> QED BY <1>1, WorkspaceInvariant, PTL

\* "Cannot delete your only workspace in this edition" (deleteWorkspace).
THEOREM LastWorkspaceStays == WorkspaceSpec => LastWorkspaceKept
<1>1. WorkspaceInv /\ [WorkspaceNext]_workspaceVars =>
        [~cloud /\ ~bereft' /\ Of({"member", "owner"}) # {}
           => Of({"member", "owner"})' # {}]_workspaceVars
  BY WorkspaceStep DEF Member
<1> QED BY <1>1, WorkspaceInvariant, PTL DEF WorkspaceSpec, LastWorkspaceKept

HIDE WorkspaceAssumption

=============================================================================
