-------------------------- MODULE Discovery_proofs --------------------------
(***************************************************************************)
(* For any installation, any number of callbacks and workers and any number of *)
(* faults: the types, and that a job that completes has seen to everything. *)
(*                                                                         *)
(* The invariant follows a repository through what is known of it: the page *)
(* saved in the job, what each worker has read and not yet stored, and what was *)
(* handled.  Repositories that are added only push others back; one that is *)
(* lost moves others past the reader, and "shifted" tells of it.  Whoever has *)
(* the job of an integration in hand is followed too: none is forgotten.   *)
(***************************************************************************)
EXTENDS Discovery, SequenceTheorems, FiniteSetTheorems, TLAPS

USE DiscoveryAssumption

\* A sequence with one more, or one less.
WithInserted(t, s, i, e) ==
  /\ t \in Seq(Found)
  /\ Len(t) = Len(s) + 1
  /\ \A k \in 1 .. Len(s) + 1 : t[k] = IF k < i THEN s[k] ELSE IF k = i THEN e ELSE s[k - 1]

LEMMA InsertedAt ==
  ASSUME NEW s \in Seq(Found), NEW i \in 1 .. Len(s) + 1, NEW e \in Found
  PROVE  WithInserted(InsertAt(s, i, e), s, i, e)
<1> DEFINE a == SubSeq(s, 1, i - 1)
           b == <<e>>
           c == SubSeq(s, i, Len(s))
           ab == a \o b
<1>1. Len(s) \in Nat /\ \A k \in 1 .. Len(s) : s[k] \in Found
  BY ElementOfSeq, LenProperties
<1>2. a \in Seq(Found) /\ Len(a) = i - 1 /\ \A k \in 1 .. i - 1 : a[k] = s[k]
  BY <1>1, SubSeqProperties
<1>3. c \in Seq(Found) /\ Len(c) = Len(s) - i + 1
      /\ \A k \in 1 .. Len(s) - i + 1 : c[k] = s[i + k - 1]
  BY <1>1, SubSeqProperties
<1>4. b \in Seq(Found) /\ Len(b) = 1 /\ b[1] = e
  OBVIOUS
<1> HIDE DEF a, b, c
<1>5. ab \in Seq(Found) /\ Len(ab) = i /\ \A k \in 1 .. i : ab[k] = IF k < i THEN s[k] ELSE e
  <2>1. /\ ab \in Seq(Found) /\ Len(ab) = Len(a) + Len(b)
        /\ \A k \in 1 .. Len(a) + Len(b) : ab[k] = IF k <= Len(a) THEN a[k] ELSE b[k - Len(a)]
    BY <1>2, <1>4, ConcatProperties
  <2> HIDE DEF ab
  <2>2. ASSUME NEW k \in 1 .. i PROVE ab[k] = IF k < i THEN s[k] ELSE e
    <3>1. CASE k < i
      BY <1>2, <1>4, <2>1, <3>1
    <3>2. CASE k = i
      BY <1>2, <1>4, <2>1, <3>2
    <3> QED BY <3>1, <3>2
  <2> QED BY <1>2, <1>4, <2>1, <2>2
<1>6. InsertAt(s, i, e) = ab \o c
  BY DEF InsertAt, a, b, c
<1> HIDE DEF ab
<1> DEFINE t == ab \o c
<1>7. /\ t \in Seq(Found) /\ Len(t) = Len(ab) + Len(c)
      /\ \A k \in 1 .. Len(ab) + Len(c) : t[k] = IF k <= Len(ab) THEN ab[k] ELSE c[k - Len(ab)]
  BY <1>3, <1>5, ConcatProperties
<1> HIDE DEF t
<1>8. ASSUME NEW k \in 1 .. Len(s) + 1
      PROVE  t[k] = IF k < i THEN s[k] ELSE IF k = i THEN e ELSE s[k - 1]
  <2>1. CASE k <= i
    BY <1>1, <1>3, <1>5, <1>7, <2>1
  <2>2. CASE k > i
    <3>1. t[k] = c[k - i] /\ k - i \in 1 .. Len(s) - i + 1
      BY <1>1, <1>3, <1>5, <1>7, <2>2
    <3>2. c[k - i] = s[i + (k - i) - 1]
      BY <1>3, <3>1
    <3> QED BY <1>1, <2>2, <3>1, <3>2
  <2> QED BY <2>1, <2>2
<1> QED BY <1>1, <1>3, <1>5, <1>6, <1>7, <1>8 DEF t, WithInserted

LEMMA RemovedAt ==
  ASSUME NEW s \in Seq(Found), NEW i \in 1 .. Len(s)
  PROVE  /\ RemoveAt(s, i) \in Seq(Found)
         /\ Len(RemoveAt(s, i)) = Len(s) - 1
         /\ \A k \in 1 .. Len(s) - 1 : RemoveAt(s, i)[k] = IF k < i THEN s[k] ELSE s[k + 1]
<1> DEFINE a == SubSeq(s, 1, i - 1)
           c == SubSeq(s, i + 1, Len(s))
<1>1. Len(s) \in Nat /\ \A k \in 1 .. Len(s) : s[k] \in Found
  BY ElementOfSeq, LenProperties
<1>2. a \in Seq(Found) /\ Len(a) = i - 1 /\ \A k \in 1 .. i - 1 : a[k] = s[k]
  BY <1>1, SubSeqProperties
<1>3. c \in Seq(Found) /\ Len(c) = Len(s) - i
      /\ \A k \in 1 .. Len(s) - i : c[k] = s[i + k]
  BY <1>1, SubSeqProperties
<1>4. RemoveAt(s, i) = a \o c
  BY DEF RemoveAt
<1> HIDE DEF a, c
<1> DEFINE t == a \o c
<1>5. /\ t \in Seq(Found) /\ Len(t) = Len(a) + Len(c)
      /\ \A k \in 1 .. Len(a) + Len(c) : t[k] = IF k <= Len(a) THEN a[k] ELSE c[k - Len(a)]
  BY <1>2, <1>3, ConcatProperties
<1> HIDE DEF t
<1>7. /\ Len(t) = Len(s) - 1
      /\ \A k \in 1 .. Len(s) - 1 : t[k] = IF k <= i - 1 THEN a[k] ELSE c[k - (i - 1)]
  <2>1. Len(a) + Len(c) = Len(s) - 1
    BY <1>1, <1>2, <1>3
  <2> QED BY <1>2, <1>5, <2>1
<1>6. ASSUME NEW k \in 1 .. Len(s) - 1
      PROVE  t[k] = IF k < i THEN s[k] ELSE s[k + 1]
  <2>1. CASE k < i
    BY <1>1, <1>2, <1>7, <2>1
  <2>2. CASE k >= i
    <3>1. t[k] = c[k - (i - 1)] /\ k - (i - 1) \in 1 .. Len(s) - i
      BY <1>1, <1>2, <1>7, <2>2
    <3>2. c[k - (i - 1)] = s[i + (k - (i - 1))]
      BY <1>3, <3>1
    <3> QED BY <1>1, <2>2, <3>1, <3>2
  <2> QED BY <2>1, <2>2
<1> QED BY <1>4, <1>5, <1>6, <1>7 DEF t

\* A set put in some order, each of its members once.
LEMMA SetInOrder ==
  ASSUME NEW S \in SUBSET Found
  PROVE  SetToSeq(S) \in Seq(Found) /\ IsInjective(SetToSeq(S))
<1>1. IsFiniteSet(S)
  BY FS_Subset
<1>2. Cardinality(S) \in Nat /\ ExistsBijection(1 .. Cardinality(S), S)
  BY <1>1, FS_CardinalityType
<1>3. PICK b : b \in [1 .. Cardinality(S) -> S] /\ IsInjective(b)
  BY <1>2 DEF ExistsBijection, Bijection, Injection
<1>4. SetToSeq(S) \in [1 .. Cardinality(S) -> S] /\ IsInjective(SetToSeq(S))
  BY <1>3, Zenon DEF SetToSeq
<1>5. SetToSeq(S) \in [1 .. Cardinality(S) -> Found]
  BY <1>4
<1> QED BY <1>2, <1>4, <1>5, SeqDef

-----------------------------------------------------------------------------
\* The inductive invariant.

WalkSteps == {"idle", "load", "fetch", "upsert", "queue", "advance", "clear", "finish"}
WalkRecords == [job : Finds \cup {NoFind}, page : Nat \ {0}, batch : Seq(Found),
                full : BOOLEAN, step : WalkSteps]
CallRecords == [step : {"idle", "update", "insert", "queue", "done"},
                space : Spaces \cup {NoSpace}, link : Links \cup {NoLink}]
FindRecords == [state : {"none", "waiting", "active", "completed", "failed"},
                link : Links \cup {NoLink}, page : Nat \ {0}, tries : 0 .. MaxTries,
                lock : Walkers \cup {NoWalker}]
FoundRows == [Found -> {"none", "on", "off"}]

\* What no job and no walk changes.
RestTypes ==
  /\ link \in [Links -> Spaces \cup {NoSpace, "gone"}]
  /\ unqueued \in SUBSET Links
  /\ edits \in 0 .. MaxEdits

DiscoveryTypes ==
  /\ RestTypes
  /\ installed \in Seq(Found) /\ IsInjective(installed)
  /\ found \in [Links -> FoundRows]
  /\ callback \in [Callbacks -> CallRecords]
  /\ find \in [Finds -> FindRecords]
  /\ walk \in [Walkers -> WalkRecords]
  /\ must \in [Finds -> SUBSET Found] /\ handled \in [Finds -> SUBSET Found]
  /\ shifted \in SUBSET Finds
  /\ walkFaults \in 0 .. MaxWalkFaults

\* A callback that has yet to queue its job knows the row it updates, and its job is new.
CallReady(x) == x.step \in {"update", "queue"} => x.link \in Links
CallsReady ==
  \A c \in Callbacks : CallReady(callback[c]) /\ (callback[c].step # "done" => find[c] = AbsentFind)

\* A job is of an integration, is locked while it is active only, and has attempts left
\* while it waits.
FindReady(y) ==
  /\ y.state # "none" => y.link \in Links
  /\ y.lock # NoWalker => y.state = "active"
  /\ y.state \in {"waiting", "active"} => y.tries < MaxTries

\* A worker that does anything does it for a job that was queued, and holds
\* repositories of a page while it stores them.
WalkReady(x) ==
  /\ Len(x.batch) <= PageOf
  /\ x.step \in {"upsert", "queue"} <=> x.batch # <<>>
  /\ x.step = "idle" => x = Idle
  /\ x.step # "idle" => x.job \in Finds

WalksReady ==
  \A w \in Walkers :
    /\ WalkReady(walk[w])
    /\ walk[w].step # "idle" => find[walk[w].job].state # "none"

\* Of the first n repositories, and of all, those the job must see to are seen to,
\* but for those in B.
SeenBut(f, n, B) ==
  \A i \in 1 .. Len(installed) :
    i <= n /\ installed[i] \in must[f] => installed[i] \in handled[f] \cup B
AllBut(f, B) == must[f] \subseteq handled[f] \cup B

UpTo(p) == (p - 1) * PageOf
PageEnd(p) == p * PageOf

\* What the saved page of a job says of what the job has seen to ...
SavedPage(f, y) == SeenBut(f, UpTo(y.page), {}) /\ (y.state = "completed" => AllBut(f, {}))

\* ... and what the step of a walk does.
WalkSaw(x) ==
  LET f == x.job IN
  /\ x.step = "fetch" => SeenBut(f, UpTo(x.page), {})
  /\ x.step \in {"upsert", "queue"} /\ x.full => SeenBut(f, PageEnd(x.page), Range(x.batch))
  /\ x.step \in {"upsert", "queue"} /\ ~x.full => AllBut(f, Range(x.batch))
  /\ x.step = "advance" => SeenBut(f, PageEnd(x.page), {})
  /\ x.step \in {"clear", "finish"} => AllBut(f, {})

MustInstalled == \A f \in Finds : must[f] \subseteq Range(installed)
JobsSaw == \A f \in Finds \ shifted : SavedPage(f, find[f])
WalksSaw == \A w \in Walkers : walk[w].step # "idle" /\ walk[w].job \notin shifted => WalkSaw(walk[w])

DiscoveryInv ==
  DiscoveryTypes /\ CallsReady /\ (\A f \in Finds : FindReady(find[f])) /\ WalksReady
  /\ MustInstalled /\ JobsSaw /\ WalksSaw

-----------------------------------------------------------------------------

LEMMA DiscoveryTypesAre == DiscoveryTypes /\ WalksReady => DiscoveryTypeOK
BY Zenon DEF DiscoveryTypes, RestTypes, DiscoveryTypeOK, WalkRecords, WalkSteps, CallRecords,
             FindRecords, FoundRows, WalksReady, WalkReady

LEMMA LiteralRecords ==
  /\ Idle \in WalkRecords /\ WalkReady(Idle) /\ Idle.step = "idle"
  /\ Answered \in CallRecords /\ CallReady(Answered) /\ Answered.step = "done"
  /\ AbsentFind \in FindRecords /\ FindReady(AbsentFind) /\ AbsentFind.state = "none"
  /\ AbsentFind.page = 1 /\ AbsentFind.tries = 0
<1>1. <<>> \in Seq(Found) /\ Len(<<>>) = 0
  BY EmptySeq
<1>2. Idle \in WalkRecords /\ WalkReady(Idle) /\ Idle.step = "idle"
  BY <1>1 DEF Idle, WalkRecords, WalkReady, WalkSteps
<1>3. Answered \in CallRecords /\ CallReady(Answered) /\ Answered.step = "done"
  BY DEF Answered, CallRecords, CallReady
<1>4. /\ AbsentFind \in FindRecords /\ FindReady(AbsentFind) /\ AbsentFind.state = "none"
      /\ AbsentFind.page = 1 /\ AbsentFind.tries = 0
  BY DEF AbsentFind, FindRecords, FindReady
<1> QED BY <1>2, <1>3, <1>4

LEMMA PagesFollow ==
  ASSUME NEW p \in Nat \ {0}
  PROVE  /\ UpTo(p) \in Nat /\ PageEnd(p) \in Nat
         /\ PageEnd(p) = UpTo(p) + PageOf /\ UpTo(p + 1) = PageEnd(p) /\ UpTo(1) = 0
<1>1. \A m, n \in Nat : m * n \in Nat
  OBVIOUS
<1>2. \A m, n \in Nat : (m + 1) * n = m * n + n
  OBVIOUS
<1>3. PICK q \in Nat : p = q + 1
  <2> WITNESS p - 1 \in Nat
  <2> QED OBVIOUS
<1>4. (q + 1) - 1 = q /\ ((q + 1) + 1) - 1 = q + 1 /\ 1 - 1 = 0 /\ 0 * PageOf = 0
  OBVIOUS
<1> QED BY <1>1, <1>2, <1>3, <1>4 DEF UpTo, PageEnd

\* A job of which nothing has been read, and one of which all has been seen to.
LEMMA NothingRead == ASSUME NEW f PROVE SeenBut(f, 0, {})
BY DEF SeenBut

LEMMA DiscoveryStart == DiscoveryInit => DiscoveryInv
<1> SUFFICES ASSUME DiscoveryInit PROVE DiscoveryInv
  OBVIOUS
<1>1. installed \in Seq(Found) /\ IsInjective(installed)
  BY SetInOrder DEF DiscoveryInit
<1>2. callback = [c \in Callbacks |-> [Answered EXCEPT !.step = "idle"]]
      /\ [Answered EXCEPT !.step = "idle"] \in CallRecords
      /\ CallReady([Answered EXCEPT !.step = "idle"])
  BY DEF DiscoveryInit, Answered, CallRecords, CallReady
<1>3. find = [f \in Finds |-> AbsentFind] /\ walk = [w \in Walkers |-> Idle]
      /\ must = [f \in Finds |-> {}]
  BY DEF DiscoveryInit
<1>4. found \in [Links -> FoundRows]
  BY DEF DiscoveryInit, FoundRows
<1>5. RestTypes
  BY DEF DiscoveryInit, RestTypes
<1>6. /\ must \in [Finds -> SUBSET Found] /\ handled \in [Finds -> SUBSET Found]
      /\ shifted \in SUBSET Finds /\ walkFaults \in 0 .. MaxWalkFaults
  BY DEF DiscoveryInit
<1>7. DiscoveryTypes
  BY <1>1, <1>2, <1>3, <1>4, <1>5, <1>6, LiteralRecords DEF DiscoveryTypes
<1>8. CallsReady /\ (\A f \in Finds : FindReady(find[f])) /\ WalksReady
  BY <1>2, <1>3, LiteralRecords DEF CallsReady, WalksReady, Finds
<1>9. MustInstalled /\ JobsSaw /\ WalksSaw
  BY <1>3, LiteralRecords DEF MustInstalled, JobsSaw, WalksSaw, SavedPage, SeenBut
<1> QED BY <1>7, <1>8, <1>9 DEF DiscoveryInv

\* What has been seen to stays so while the installation keeps its repositories.
LEMMA SeenStays ==
  ASSUME installed' = installed, must' = must, \A f \in Finds : handled[f] \subseteq handled'[f]
  PROVE  /\ \A f \in Finds : \A n, B : SeenBut(f, n, B) => SeenBut(f, n, B)'
         /\ \A f \in Finds : \A B : AllBut(f, B) => AllBut(f, B)'
BY DEF SeenBut, AllBut

\* What a saved page or a walk's step says stays true with what has been seen to.
LEMMA ClaimsStay ==
  ASSUME installed' = installed, must' = must, \A f \in Finds : handled[f] \subseteq handled'[f]
  PROVE  /\ \A f \in Finds, y \in FindRecords : SavedPage(f, y) => SavedPage(f, y)'
         /\ \A x \in WalkRecords : x.job \in Finds /\ WalkSaw(x) => WalkSaw(x)'
<1>1. ASSUME NEW f \in Finds, NEW y \in FindRecords, SavedPage(f, y) PROVE SavedPage(f, y)'
  BY <1>1, SeenStays DEF SavedPage
<1>2. ASSUME NEW x \in WalkRecords, x.job \in Finds, WalkSaw(x) PROVE WalkSaw(x)'
  BY <1>2, SeenStays DEF WalkSaw
<1> QED BY <1>1, <1>2

\* A step of a worker: its own state and that of one job.
LEMMA WalkChange ==
  ASSUME DiscoveryInv, NEW w \in Walkers, NEW x \in WalkRecords, NEW f \in Finds,
         NEW y \in FindRecords,
         walk' = [walk EXCEPT ![w] = x], find' = [find EXCEPT ![f] = y],
         UNCHANGED <<installed, link, callback, must, shifted, unqueued, edits>>,
         found' \in [Links -> FoundRows], walkFaults' \in 0 .. MaxWalkFaults,
         handled' \in [Finds -> SUBSET Found], \A g \in Finds : handled[g] \subseteq handled'[g],
         find[f].state # "none", y.state # "none", FindReady(y), WalkReady(x),
         x.step # "idle" => find[x.job].state # "none",
         x.step # "idle" /\ x.job \notin shifted => WalkSaw(x)',
         f \notin shifted => SavedPage(f, y)'
  PROVE  DiscoveryInv'
<1>1. \A v \in Walkers : walk'[v] = IF v = w THEN x ELSE walk[v]
  BY DEF DiscoveryInv, DiscoveryTypes
<1>2. \A g \in Finds : find'[g] = IF g = f THEN y ELSE find[g]
  BY DEF DiscoveryInv, DiscoveryTypes
<1>3. DiscoveryTypes'
  BY DEF DiscoveryInv, DiscoveryTypes, RestTypes
<1>4. CallsReady'
  BY <1>2, LiteralRecords DEF DiscoveryInv, CallsReady, Finds
<1>5. (\A g \in Finds : FindReady(find[g]))'
  BY <1>2 DEF DiscoveryInv
<1>6. \A g \in Finds : find[g].state # "none" => find'[g].state # "none"
  BY <1>2
<1>7. WalksReady'
  BY <1>1, <1>6 DEF DiscoveryInv, WalksReady, WalkReady
<1>8. MustInstalled'
  BY DEF DiscoveryInv, MustInstalled
<1>9. JobsSaw'
  <2>1. \A g \in Finds \ shifted : g # f => SavedPage(g, find[g])'
    <3>1. ASSUME NEW g \in Finds \ shifted, g # f PROVE SavedPage(g, find[g])'
      <4>1. PICK z \in FindRecords : z = find[g]
        BY DEF DiscoveryInv, DiscoveryTypes
      <4>2. find'[g] = z
        BY <1>2, <3>1, <4>1
      <4>3. SavedPage(g, z)'
        BY <4>1, ClaimsStay DEF DiscoveryInv, JobsSaw
      <4> QED BY <4>2, <4>3
    <3> QED BY <3>1
  <2>2. f \notin shifted => SavedPage(f, find[f])'
    BY <1>2
  <2> QED BY <2>1, <2>2 DEF JobsSaw
<1>10. WalksSaw'
  <2> SUFFICES ASSUME NEW v \in Walkers, walk'[v].step # "idle", walk'[v].job \notin shifted
               PROVE  WalkSaw(walk[v])'
    BY DEF WalksSaw
  <2>1. CASE v = w
    BY <1>1, <2>1
  <2>2. CASE v # w
    <3>1. PICK z \in WalkRecords : z = walk[v]
      BY DEF DiscoveryInv, DiscoveryTypes
    <3>2. walk'[v] = z
      BY <1>1, <2>2, <3>1
    <3>3. WalkSaw(z) /\ z.job \in Finds
      BY <3>1, <3>2 DEF DiscoveryInv, WalksSaw, WalksReady, WalkReady
    <3>4. WalkSaw(z)'
      BY <3>3, ClaimsStay
    <3> QED BY <3>2, <3>4
  <2> QED BY <2>1, <2>2
<1> QED BY <1>3, <1>4, <1>5, <1>7, <1>8, <1>9, <1>10 DEF DiscoveryInv

\* A worker that is at work, its job, and what the types say of both.
LEMMA AtWork ==
  ASSUME DiscoveryInv, NEW w \in Walkers, walk[w].step # "idle"
  PROVE  /\ walk[w] \in WalkRecords /\ WalkReady(walk[w])
         /\ walk[w].job \in Finds /\ find[walk[w].job] \in FindRecords
         /\ find[walk[w].job].state # "none" /\ FindReady(find[walk[w].job])
         /\ walk[w].job \notin shifted =>
              WalkSaw(walk[w]) /\ SavedPage(walk[w].job, find[walk[w].job])
         /\ found \in [Links -> FoundRows] /\ handled \in [Finds -> SUBSET Found]
         /\ walkFaults \in 0 .. MaxWalkFaults
BY DEF DiscoveryInv, DiscoveryTypes, WalksReady, WalkReady, WalksSaw, JobsSaw

\* The attempt of a worker fails.
LEMMA ThrowsKeeps ==
  ASSUME DiscoveryInv, NEW w \in Walkers, walk[w].step # "idle", Throws(w),
         UNCHANGED <<dataVars, callback, observed, edits>>,
         walkFaults' \in 0 .. MaxWalkFaults
  PROVE  DiscoveryInv'
<1> USE DEF dataVars, observed
<1>1. PICK f \in Finds, z \in FindRecords :
        /\ f = walk[w].job /\ z = find[f] /\ z.state # "none" /\ FindReady(z)
        /\ f \notin shifted => SavedPage(f, z)
  BY AtWork
<1>2. \A g \in Finds : handled[g] \subseteq handled'[g]
  OBVIOUS
<1>3. walk' = [walk EXCEPT ![w] = Idle]
  BY DEF Throws
<1>4. f \notin shifted => SavedPage(f, z)'
  BY <1>1, <1>2, ClaimsStay
<1>5. CASE Holds(w)
  <2> DEFINE y == [z EXCEPT !.tries = z.tries + 1, !.lock = NoWalker,
                            !.state = IF z.tries + 1 >= MaxTries THEN "failed" ELSE "waiting"]
  <2>1. z.state = "active" /\ z.tries < MaxTries
    BY <1>1, <1>5 DEF Holds, FindReady
  <2>5. find' = [find EXCEPT ![f] = y]
    BY <1>1, <1>5 DEF Throws
  <2>2. y \in FindRecords /\ FindReady(y) /\ y.state \notin {"none", "completed"} /\ y.page = z.page
    <3> DEFINE a == [z EXCEPT !.tries = z.tries + 1]
               b == [a EXCEPT !.lock = NoWalker]
               c == [b EXCEPT !.state = IF z.tries + 1 >= MaxTries THEN "failed" ELSE "waiting"]
    <3>1. y = c
      OBVIOUS
    <3>2. /\ a \in FindRecords /\ a.state = z.state /\ a.link = z.link /\ a.page = z.page
          /\ a.tries = z.tries + 1
      BY <2>1 DEF FindRecords
    <3> HIDE DEF a
    <3>3. /\ b \in FindRecords /\ b.link = z.link /\ b.page = z.page
          /\ b.tries = z.tries + 1 /\ b.lock = NoWalker
      BY <3>2 DEF FindRecords
    <3> HIDE DEF b
    <3>4. /\ c \in FindRecords /\ c.link = z.link /\ c.page = z.page
          /\ c.tries = z.tries + 1 /\ c.lock = NoWalker
          /\ c.state = IF z.tries + 1 >= MaxTries THEN "failed" ELSE "waiting"
      BY <3>3 DEF FindRecords
    <3> HIDE DEF c, y
    <3>5. z.tries + 1 < MaxTries \/ z.tries + 1 >= MaxTries
      BY DEF FindRecords
    <3> QED BY <1>1, <3>1, <3>4, <3>5 DEF FindReady
  <2> HIDE DEF y
  <2>6. PICK t \in FindRecords : t = y
    BY <2>2
  <2>7. f \notin shifted => SavedPage(f, t)'
    BY <1>4, <2>2, <2>6 DEF SavedPage
  <2> QED BY <1>1, <1>2, <1>3, <2>2, <2>5, <2>6, <2>7, LiteralRecords, AtWork, WalkChange
<1>6. CASE ~Holds(w)
  <2>1. find' = [find EXCEPT ![f] = z]
    BY <1>1, <1>6 DEF Throws, DiscoveryInv, DiscoveryTypes
  <2> QED BY <1>1, <1>2, <1>3, <1>4, <2>1, LiteralRecords, AtWork, WalkChange
<1> QED BY <1>5, <1>6

LEMMA TakeFindKeeps ==
  ASSUME DiscoveryInv, NEW w \in Walkers, TakeFind(w)
  PROVE  DiscoveryInv'
<1> USE DEF dataVars, observed
<1>1. PICK f \in Finds :
        /\ find[f].state = "waiting"
        /\ find' = [find EXCEPT ![f].state = "active", ![f].lock = w]
        /\ walk' = [walk EXCEPT ![w].job = f, ![w].step = "load"]
  BY DEF TakeFind
<1>2. PICK z \in FindRecords : z = find[f] /\ FindReady(z) /\ z.state = "waiting"
                               /\ (f \notin shifted => SavedPage(f, z))
  BY <1>1 DEF DiscoveryInv, DiscoveryTypes, JobsSaw
<1> DEFINE a == [z EXCEPT !.state = "active"]
           y == [a EXCEPT !.lock = w]
           b == [Idle EXCEPT !.job = f]
           x == [b EXCEPT !.step = "load"]
<1>6. find' = [find EXCEPT ![f] = y]
  BY <1>1, <1>2 DEF DiscoveryInv, DiscoveryTypes
<1>4. walk[w] = Idle
  BY DEF TakeFind, DiscoveryInv, WalksReady, WalkReady
<1>8. walk' = [walk EXCEPT ![w] = x]
  BY <1>1, <1>4 DEF DiscoveryInv, DiscoveryTypes
<1>7. a \in FindRecords /\ a.state = "active" /\ a.page = z.page /\ a.tries < MaxTries
      /\ a.link \in Links
  BY <1>2 DEF FindRecords, FindReady
<1>9. b \in WalkRecords /\ b.batch = <<>> /\ b.job = f
  BY LiteralRecords DEF WalkRecords, Idle
<1> HIDE DEF a, b
<1>3. y \in FindRecords /\ FindReady(y) /\ y.state = "active" /\ y.page = z.page
  BY <1>7 DEF FindRecords, FindReady
<1>5. x \in WalkRecords /\ WalkReady(x) /\ x.step = "load" /\ x.job = f
  BY <1>9, EmptySeq DEF WalkRecords, WalkReady, WalkSteps
<1> HIDE DEF x, y
<1>10. PICK t \in FindRecords, u \in WalkRecords : t = y /\ u = x
  BY <1>3, <1>5
<1>11. \A g \in Finds : handled[g] \subseteq handled'[g]
  BY DEF TakeFind
<1>12. installed' = installed /\ must' = must
  BY DEF TakeFind
<1>13. f \notin shifted => SavedPage(f, t)'
  BY <1>2, <1>3, <1>10, <1>11, <1>12, SeenStays DEF SavedPage
<1>14. WalkSaw(u)'
  BY <1>5, <1>10 DEF WalkSaw
<1>15. find' = [find EXCEPT ![f] = t] /\ walk' = [walk EXCEPT ![w] = u]
  BY <1>6, <1>8, <1>10
<1>16. UNCHANGED <<dataVars, callback, observed, edits, walkFaults>>
  BY DEF TakeFind
<1>17. /\ found \in [Links -> FoundRows] /\ handled \in [Finds -> SUBSET Found]
       /\ walkFaults \in 0 .. MaxWalkFaults
  BY DEF DiscoveryInv, DiscoveryTypes
<1> QED BY <1>1, <1>2, <1>3, <1>5, <1>10, <1>11, <1>13, <1>14, <1>15, <1>16, <1>17, WalkChange

\* A step that goes on with the job as it is.
LEMMA WalkOn ==
  ASSUME DiscoveryInv, NEW w \in Walkers, walk[w].step # "idle", NEW x \in WalkRecords,
         walk' = [walk EXCEPT ![w] = x], find' = find,
         UNCHANGED <<installed, link, callback, must, shifted, unqueued, edits, walkFaults>>,
         found' \in [Links -> FoundRows],
         handled' \in [Finds -> SUBSET Found], \A g \in Finds : handled[g] \subseteq handled'[g],
         WalkReady(x), x.job = walk[w].job,
         x.step # "idle" /\ x.job \notin shifted => WalkSaw(x)'
  PROVE  DiscoveryInv'
<1>1. PICK f \in Finds, y \in FindRecords :
        /\ f = walk[w].job /\ y = find[f] /\ y.state # "none" /\ FindReady(y)
        /\ f \notin shifted => SavedPage(f, y)
  BY AtWork
<1>2. f \notin shifted => SavedPage(f, y)'
  BY <1>1, ClaimsStay
<1>3. find' = [find EXCEPT ![f] = y]
  BY <1>1 DEF DiscoveryInv, DiscoveryTypes
<1> QED BY <1>1, <1>2, <1>3, WalkChange, AtWork

LEMMA LoadLinkKeeps ==
  ASSUME DiscoveryInv, NEW w \in Walkers, LoadLink(w)
  PROVE  DiscoveryInv'
<1> USE DEF dataVars, observed
<1> DEFINE f == find[walk[w].job]
<1>1. /\ walk[w].step = "load" /\ UNCHANGED <<dataVars, callback, observed, edits, walkFaults>>
      /\ IF Exists(f.link)
           THEN walk' = [walk EXCEPT ![w].step = "fetch", ![w].page = f.page] /\ UNCHANGED find
           ELSE Throws(w)
  BY DEF LoadLink
<1>2. CASE ~Exists(f.link)
  BY <1>1, <1>2, ThrowsKeeps, AtWork
<1>3. CASE Exists(f.link)
  <2>1. PICK z \in WalkRecords, p \in Nat \ {0} :
          /\ z = walk[w] /\ WalkReady(z) /\ p = f.page /\ z.step = "load" /\ z.job \in Finds
          /\ z.job \notin shifted => SeenBut(z.job, UpTo(p), {})
    BY <1>1, AtWork DEF SavedPage, FindRecords
  <2> DEFINE a == [z EXCEPT !.step = "fetch"]
             x == [a EXCEPT !.page = p]
  <2>2. walk' = [walk EXCEPT ![w] = x]
    BY <1>1, <1>3, <2>1 DEF DiscoveryInv, DiscoveryTypes
  <2>3. /\ a \in WalkRecords /\ a.step = "fetch" /\ a.batch = z.batch /\ a.job = z.job
        /\ z.batch = <<>> /\ Len(z.batch) <= PageOf
    BY <2>1 DEF WalkRecords, WalkReady, WalkSteps
  <2> HIDE DEF a
  <2>4. /\ x \in WalkRecords /\ WalkReady(x) /\ x.step = "fetch" /\ x.job = z.job /\ x.page = p
    BY <2>1, <2>3 DEF WalkRecords, WalkReady, WalkSteps
  <2> HIDE DEF x
  <2>5. PICK t \in WalkRecords : t = x
    BY <2>4
  <2>6. z.job \notin shifted => SeenBut(z.job, UpTo(p), {})'
    BY <1>1, <2>1, SeenStays
  <2>7. t.job \notin shifted => WalkSaw(t)'
    BY <2>4, <2>5, <2>6 DEF WalkSaw
  <2>8. find' = find
    BY <1>1, <1>3
  <2> QED BY <1>1, <2>1, <2>2, <2>4, <2>5, <2>7, <2>8, WalkOn, AtWork
<1> QED BY <1>2, <1>3

\* The page from number p on: its repositories, and what is left after it.
LEMMA PageRead ==
  ASSUME DiscoveryInv, NEW p \in Nat \ {0}, NEW batch, NEW f \in Finds,
         batch = LET left == Len(installed) - UpTo(p) IN
                 IF left <= 0 THEN <<>>
                 ELSE SubSeq(installed, UpTo(p) + 1, UpTo(p) + (IF left < PageOf THEN left ELSE PageOf)),
         SeenBut(f, UpTo(p), {})
  PROVE  /\ batch \in Seq(Found) /\ Len(batch) <= PageOf
         /\ batch = <<>> => AllBut(f, {})
         /\ Len(batch) # PageOf => AllBut(f, Range(batch))
         /\ Len(batch) = PageOf => SeenBut(f, PageEnd(p), Range(batch))
<1>1. /\ UpTo(p) \in Nat /\ PageEnd(p) = UpTo(p) + PageOf
      /\ installed \in Seq(Found) /\ Len(installed) \in Nat
      /\ \A i \in 1 .. Len(installed) : installed[i] \in Found
  BY PagesFollow, LenProperties, ElementOfSeq DEF DiscoveryInv, DiscoveryTypes
<1>2. PICK n \in Nat, m \in Nat : n = UpTo(p) /\ m = Len(installed)
  BY <1>1
<1> DEFINE k == IF m - n <= 0 THEN 0 ELSE IF m - n < PageOf THEN m - n ELSE PageOf
<1>3. k \in Nat /\ k <= PageOf /\ (m - n > 0 => n + k <= m) /\ (k < PageOf => m <= n + k)
      /\ (k = 0 <=> m - n <= 0)
  BY <1>2
<1>4. /\ batch \in Seq(Found) /\ Len(batch) = k
      /\ \A i \in 1 .. k : batch[i] = installed[n + i]
  <2>1. CASE m - n <= 0
    BY <1>2, <2>1, EmptySeq
  <2>2. CASE m - n > 0
    <3>1. batch = SubSeq(installed, n + 1, n + k)
      <4>1. batch = SubSeq(installed, n + 1, n + (IF m - n < PageOf THEN m - n ELSE PageOf))
        <5>1. batch = IF m - n <= 0 THEN <<>>
                      ELSE SubSeq(installed, n + 1, n + (IF m - n < PageOf THEN m - n ELSE PageOf))
          BY <1>2, Zenon
        <5>2. ~(m - n <= 0)
          BY <2>2
        <5> QED BY <5>1, <5>2, Zenon
      <4>2. k = IF m - n < PageOf THEN m - n ELSE PageOf
        BY <1>2, <2>2
      <4> HIDE DEF k
      <4> QED BY <4>1, <4>2
    <3> PICK s \in Seq(Found) : s = installed
      BY <1>1
    <3>2. n + 1 \in Int /\ n + k \in Int /\ \A i \in n + 1 .. n + k : s[i] \in Found
      <4>1. n + 1 \in Int /\ n + k \in Int /\ n + k <= m
        BY <1>3, <2>2
      <4>2. \A i \in n + 1 .. n + k : i \in 1 .. m
        BY <4>1
      <4> QED BY <1>1, <1>2, <4>1, <4>2
    <3> HIDE DEF k
    <3>5. PICK a \in Int, b \in Int : a = n + 1 /\ b = n + k
      BY <3>2
    <3>6. \A i \in a .. b : s[i] \in Found
      BY <3>2, <3>5
    <3>7. /\ SubSeq(s, a, b) \in Seq(Found)
          /\ Len(SubSeq(s, a, b)) = IF a <= b THEN b - a + 1 ELSE 0
          /\ \A i \in 1 .. b - a + 1 : SubSeq(s, a, b)[i] = s[a + i - 1]
      BY <3>6, SubSeqProperties
    <3>3. b - a + 1 = k /\ a <= b /\ \A i \in 1 .. k : a + i - 1 = n + i
      BY <1>3, <2>2, <3>5
    <3>4. Len(SubSeq(s, a, b)) = k /\ \A i \in 1 .. k : SubSeq(s, a, b)[i] = s[n + i]
      BY <3>3, <3>7
    <3>8. batch = SubSeq(s, a, b)
      BY <3>1, <3>5
    <3> QED BY <3>4, <3>7, <3>8
  <2> QED BY <2>1, <2>2
<1> HIDE DEF k
<1>5. Range(batch) = {batch[i] : i \in 1 .. k}
  <2>1. batch \in Seq(Found) /\ Len(batch) = k
    BY <1>4
  <2>2. DOMAIN batch = 1 .. Len(batch)
    BY <2>1, LenProperties
  <2> QED BY <2>1, <2>2 DEF Range
<1>6. \A i \in 1 .. m : n < i /\ i <= n + k => installed[i] \in Range(batch)
  <2> SUFFICES ASSUME NEW i \in 1 .. m, n < i, i <= n + k PROVE installed[i] \in Range(batch)
    OBVIOUS
  <2>1. i - n \in 1 .. k /\ n + (i - n) = i
    BY <1>3
  <2> QED BY <1>4, <1>5, <2>1
<1>7. \A i \in 1 .. m : i <= n + k /\ installed[i] \in must[f] =>
                        installed[i] \in handled[f] \cup Range(batch)
  <2> SUFFICES ASSUME NEW i \in 1 .. m, i <= n + k, installed[i] \in must[f]
               PROVE  installed[i] \in handled[f] \cup Range(batch)
    OBVIOUS
  <2>1. CASE i <= n
    BY <1>2, <2>1 DEF SeenBut
  <2>2. CASE n < i
    BY <1>6, <2>2
  <2> QED BY <2>1, <2>2
<1>8. \A r \in must[f] : \E i \in 1 .. m : installed[i] = r
  BY <1>1, <1>2, RangeEquality DEF DiscoveryInv, MustInstalled
<1>9. k < PageOf => AllBut(f, Range(batch))
  <2> SUFFICES ASSUME k < PageOf, NEW r \in must[f] PROVE r \in handled[f] \cup Range(batch)
    BY DEF AllBut
  <2>1. PICK i \in 1 .. m : installed[i] = r
    BY <1>8
  <2>2. i <= n + k
    BY <1>3
  <2> QED BY <1>7, <2>1, <2>2
<1>10. k = PageOf => SeenBut(f, PageEnd(p), Range(batch))
  BY <1>1, <1>2, <1>7 DEF SeenBut
<1>11. batch = <<>> => Range(batch) = {} /\ k = 0
  BY <1>4, <1>5, EmptySeq
<1>12. batch = <<>> => AllBut(f, {})
  <2>1. k = 0 => k < PageOf
    OBVIOUS
  <2> QED BY <1>9, <1>11, <2>1
<1>13. batch \in Seq(Found) /\ Len(batch) = k /\ k \in Nat /\ k <= PageOf
  BY <1>3, <1>4
<1>14. k # PageOf => k < PageOf
  BY <1>13
<1> QED BY <1>9, <1>10, <1>12, <1>13, <1>14

LEMMA FetchPageKeeps ==
  ASSUME DiscoveryInv, NEW w \in Walkers, FetchPage(w)
  PROVE  DiscoveryInv'
<1> USE DEF dataVars, observed
<1>1. PICK z \in WalkRecords, p \in Nat \ {0} :
        /\ z = walk[w] /\ p = z.page /\ WalkReady(z) /\ z.step = "fetch" /\ z.job \in Finds
        /\ z.job \notin shifted => WalkSaw(z)
  BY AtWork DEF FetchPage, WalkRecords
<1> DEFINE left == Len(installed) - UpTo(p)
           read == IF left <= 0 THEN <<>>
                   ELSE SubSeq(installed, UpTo(p) + 1, UpTo(p) + (IF left < PageOf THEN left ELSE PageOf))
<1>0. PICK batch : batch = read
  OBVIOUS
<1>2. PICK full \in BOOLEAN : batch = read /\ full = (Len(batch) = PageOf)
  <2> WITNESS (Len(batch) = PageOf) \in BOOLEAN
  <2> QED BY <1>0
<1> DEFINE a == [z EXCEPT !.batch = batch]
           b == [a EXCEPT !.full = full]
           x == [b EXCEPT !.step = IF batch = <<>> THEN "clear" ELSE "upsert"]
<1>3. /\ walk' = [walk EXCEPT ![w].batch = batch, ![w].full = full,
                              ![w].step = IF batch = <<>> THEN "clear" ELSE "upsert"]
      /\ UNCHANGED <<dataVars, callback, find, observed, edits, walkFaults>>
  BY <1>1, <1>2 DEF FetchPage, UpTo
<1>4. walk' = [walk EXCEPT ![w] = x]
  BY <1>1, <1>3 DEF DiscoveryInv, DiscoveryTypes
<1> HIDE DEF read
<1>5. /\ batch \in Seq(Found) /\ Len(batch) <= PageOf
      /\ z.job \notin shifted =>
           /\ batch = <<>> => AllBut(z.job, {})
           /\ Len(batch) # PageOf => AllBut(z.job, Range(batch))
           /\ Len(batch) = PageOf => SeenBut(z.job, PageEnd(p), Range(batch))
  <2>1. batch \in Seq(Found) /\ Len(batch) <= PageOf
    <3>1. /\ UpTo(p) \in Nat /\ Len(installed) \in Nat /\ installed \in Seq(Found)
          /\ \A i \in 1 .. Len(installed) : installed[i] \in Found
      BY PagesFollow, LenProperties, ElementOfSeq DEF DiscoveryInv, DiscoveryTypes
    <3>2. CASE left <= 0
      BY <1>2, <3>2, EmptySeq DEF read
    <3>3. CASE left > 0
      <4>1. PICK s \in Seq(Found), m \in Int, n \in Int :
              /\ s = installed /\ m = UpTo(p) + 1
              /\ n = UpTo(p) + (IF left < PageOf THEN left ELSE PageOf)
        BY <3>1
      <4>2. batch = SubSeq(s, m, n)
        <5>1. ~(left <= 0)
          BY <3>1, <3>3
        <5>2. batch = SubSeq(installed, UpTo(p) + 1,
                             UpTo(p) + (IF left < PageOf THEN left ELSE PageOf))
          BY <1>2, <5>1 DEF read
        <5> QED BY <4>1, <5>2
      <4>3. n - m + 1 <= PageOf /\ n <= Len(installed) /\ m >= 1
        BY <3>1, <3>3, <4>1
      <4>4. \A i \in m .. n : s[i] \in Found
        BY <3>1, <4>1, <4>3
      <4>5. SubSeq(s, m, n) \in Seq(Found) /\ Len(SubSeq(s, m, n)) = IF m <= n THEN n - m + 1 ELSE 0
        BY <4>4, SubSeqProperties
      <4> QED BY <4>2, <4>3, <4>5
    <3> QED BY <3>1, <3>2, <3>3
  <2>2. z.job \notin shifted => SeenBut(z.job, UpTo(p), {})
    BY <1>1 DEF WalkSaw
  <2>3. batch = LET l == Len(installed) - UpTo(p) IN
                IF l <= 0 THEN <<>>
                ELSE SubSeq(installed, UpTo(p) + 1, UpTo(p) + (IF l < PageOf THEN l ELSE PageOf))
    BY <1>2 DEF read
  <2> QED BY <1>1, <2>1, <2>2, <2>3, PageRead
<1>6. a \in WalkRecords /\ a.job = z.job /\ a.page = p /\ a.batch = batch
  BY <1>1, <1>5 DEF WalkRecords
<1> HIDE DEF a
<1>7. b \in WalkRecords /\ b.job = z.job /\ b.page = p /\ b.batch = batch /\ b.full = full
  BY <1>6 DEF WalkRecords
<1> HIDE DEF b
<1>8. /\ x \in WalkRecords /\ x.job = z.job /\ x.page = p /\ x.batch = batch /\ x.full = full
      /\ x.step = IF batch = <<>> THEN "clear" ELSE "upsert"
  BY <1>7 DEF WalkRecords, WalkSteps
<1> HIDE DEF x
<1>9. PICK t \in WalkRecords : t = x
  BY <1>8
<1>10. WalkReady(t)
  BY <1>1, <1>5, <1>8, <1>9 DEF WalkReady
<1>11. z.job \notin shifted => WalkSaw(t)'
  <2> SUFFICES ASSUME z.job \notin shifted PROVE WalkSaw(t)'
    OBVIOUS
  <2>1. \A g \in Finds : handled[g] \subseteq handled'[g]
    BY <1>3
  <2>2. t.job = z.job /\ t.page = p /\ t.batch = batch
    BY <1>8, <1>9
  <2>3. CASE batch = <<>>
    <3>1. AllBut(t.job, {})'
      BY <1>1, <1>3, <1>5, <2>1, <2>2, <2>3, SeenStays
    <3>2. t.step = "clear"
      BY <1>8, <1>9, <2>3
    <3> QED BY <3>1, <3>2 DEF WalkSaw
  <2>4. CASE batch # <<>>
    <3>1. t.step = "upsert" /\ t.full = full
      BY <1>8, <1>9, <2>4
    <3>2. full => SeenBut(z.job, PageEnd(p), Range(batch))'
      BY <1>1, <1>2, <1>3, <1>5, <2>1, SeenStays
    <3>3. ~full => AllBut(z.job, Range(batch))'
      BY <1>1, <1>2, <1>3, <1>5, <2>1, SeenStays
    <3> QED BY <2>2, <3>1, <3>2, <3>3 DEF WalkSaw
  <2> QED BY <2>3, <2>4
<1> QED BY <1>1, <1>3, <1>4, <1>8, <1>9, <1>10, <1>11, WalkOn, AtWork

LEMMA HeadAndTail ==
  ASSUME NEW s \in Seq(Found), s # <<>>
  PROVE  /\ Head(s) \in Found /\ Tail(s) \in Seq(Found) /\ Len(Tail(s)) = Len(s) - 1
         /\ Len(s) \in Nat \ {0} /\ (Tail(s) = <<>> <=> Len(s) = 1)
         /\ Range(s) = Range(Tail(s)) \cup {Head(s)}
<1>1. /\ Head(s) \in Found /\ Tail(s) \in Seq(Found) /\ Len(Tail(s)) = Len(s) - 1
      /\ \A i \in 1 .. Len(Tail(s)) : Tail(s)[i] = s[i + 1]
  BY HeadTailProperties
<1>2. Len(s) \in Nat \ {0} /\ DOMAIN s = 1 .. Len(s)
  BY EmptySeq, LenProperties
<1>3. PICK t \in Seq(Found) : t = Tail(s)
  BY <1>1
<1>4. DOMAIN t = 1 .. Len(t) /\ Len(t) \in Nat /\ (t = <<>> <=> Len(t) = 0)
  BY EmptySeq, LenProperties
<1>5. Head(s) = s[1]
  OBVIOUS
<1>6. \A i \in 1 .. Len(s) : i = 1 \/ (i - 1 \in 1 .. Len(t) /\ t[i - 1] = s[i])
  <2> SUFFICES ASSUME NEW i \in 1 .. Len(s), i # 1
               PROVE  i - 1 \in 1 .. Len(t) /\ t[i - 1] = s[i]
    OBVIOUS
  <2>1. i - 1 \in 1 .. Len(t) /\ (i - 1) + 1 = i
    BY <1>1, <1>2, <1>3
  <2> QED BY <1>1, <1>3, <2>1
<1>7. \A i \in 1 .. Len(t) : i + 1 \in 1 .. Len(s) /\ t[i] = s[i + 1]
  BY <1>1, <1>2, <1>3
<1>8. Range(s) = Range(t) \cup {Head(s)}
  <2>1. Range(s) = {s[i] : i \in 1 .. Len(s)} /\ Range(t) = {t[i] : i \in 1 .. Len(t)}
    BY <1>2, <1>4, Zenon DEF Range
  <2>2. ASSUME NEW e \in Range(s) PROVE e \in Range(t) \cup {Head(s)}
    BY <1>5, <1>6, <2>1
  <2>3. ASSUME NEW e \in Range(t) PROVE e \in Range(s)
    BY <1>7, <2>1
  <2>4. Head(s) \in Range(s)
    BY <1>2, <1>5, <2>1
  <2> QED BY <2>2, <2>3, <2>4
<1> QED BY <1>1, <1>2, <1>3, <1>4, <1>8

\* One repository of the page is seen to.
LEMMA NextFindKeeps ==
  ASSUME DiscoveryInv, NEW w \in Walkers, walk[w].step \in {"upsert", "queue"},
         NextFind(w), Handle(w),
         UNCHANGED <<installed, link, callback, find, must, shifted, unqueued, edits, walkFaults>>,
         found' \in [Links -> FoundRows]
  PROVE  DiscoveryInv'
<1>1. PICK z \in WalkRecords :
        /\ z = walk[w] /\ WalkReady(z) /\ z.step \in {"upsert", "queue"} /\ z.job \in Finds
        /\ z.job \notin shifted => WalkSaw(z)
  BY AtWork
<1>2. PICK s \in Seq(Found) : s = z.batch /\ s # <<>> /\ Len(s) <= PageOf
  BY <1>1 DEF WalkReady, WalkRecords
<1> DEFINE a == [z EXCEPT !.batch = Tail(s)]
           next == IF Len(s) > 1 THEN "upsert" ELSE IF z.full THEN "advance" ELSE "clear"
           x == [a EXCEPT !.step = next]
<1>3. walk' = [walk EXCEPT ![w] = x]
  BY <1>1, <1>2 DEF NextFind, DiscoveryInv, DiscoveryTypes
<1>4. /\ a \in WalkRecords /\ a.job = z.job /\ a.page = z.page /\ a.full = z.full
      /\ a.batch = Tail(s)
  BY <1>2, HeadAndTail DEF WalkRecords
<1> HIDE DEF a
<1>5. /\ x \in WalkRecords /\ x.job = z.job /\ x.page = z.page /\ x.full = z.full
      /\ x.batch = Tail(s) /\ x.step = next
  BY <1>4 DEF WalkRecords, WalkSteps
<1> HIDE DEF x
<1>6. PICK t \in WalkRecords : t = x
  BY <1>5
<1>7. /\ Len(s) \in Nat \ {0} /\ (Tail(s) = <<>> <=> Len(s) = 1)
      /\ Len(Tail(s)) = Len(s) - 1 /\ Head(s) \in Found
      /\ Range(s) = Range(Tail(s)) \cup {Head(s)}
  BY <1>2, HeadAndTail
<1>8. WalkReady(t)
  <2>1. Len(t.batch) <= PageOf
    <3>1. PICK m \in Nat : m = Len(s) /\ m <= PageOf
      BY <1>2, <1>7
    <3>2. t.batch = Tail(s) /\ Len(Tail(s)) = m - 1
      BY <1>5, <1>6, <1>7, <3>1
    <3>3. m - 1 <= PageOf
      BY <3>1
    <3> QED BY <3>2, <3>3
  <2>2. t.step \in {"upsert", "queue"} <=> t.batch # <<>>
    BY <1>5, <1>6, <1>7
  <2> QED BY <1>1, <1>5, <1>6, <2>1, <2>2 DEF WalkReady
<1>9. handled \in [Finds -> SUBSET Found]
  BY DEF DiscoveryInv, DiscoveryTypes
<1>10. handled' = [handled EXCEPT ![z.job] = handled[z.job] \cup {Head(s)}]
  BY <1>1, <1>2, <1>9 DEF Handle
<1>11. /\ handled' \in [Finds -> SUBSET Found] /\ \A g \in Finds : handled[g] \subseteq handled'[g]
       /\ handled'[z.job] = handled[z.job] \cup {Head(s)}
  BY <1>1, <1>7, <1>9, <1>10
<1>12. z.job \notin shifted => WalkSaw(t)'
  <2> SUFFICES ASSUME z.job \notin shifted PROVE WalkSaw(t)'
    OBVIOUS
  <2>1. PICK f \in Finds : f = z.job
    BY <1>1
  <2>2. /\ t.job = f /\ t.page = z.page /\ t.full = z.full /\ t.batch = Tail(s) /\ t.step = next
    BY <1>5, <1>6, <2>1
  <2>3. handled'[f] \cup Range(Tail(s)) = handled[f] \cup Range(s)
    BY <1>7, <1>11, <2>1
  <2>4. /\ z.full => SeenBut(f, PageEnd(z.page), Range(s))
        /\ ~z.full => AllBut(f, Range(s))
    BY <1>1, <1>2, <2>1 DEF WalkSaw
  <2>5. /\ z.full => SeenBut(f, PageEnd(z.page), Range(Tail(s)))'
        /\ ~z.full => AllBut(f, Range(Tail(s)))'
    BY <2>3, <2>4 DEF SeenBut, AllBut
  <2>6. CASE Len(s) > 1
    <3>1. t.step = "upsert"
      BY <2>2, <2>6
    <3> QED BY <2>2, <2>5, <3>1 DEF WalkSaw
  <2>7. CASE ~(Len(s) > 1)
    <3>1. Range(Tail(s)) = {}
      <4>1. Tail(s) = <<>>
        BY <1>7, <2>7
      <4>2. \A e : e \notin Range(<<>>)
        BY EmptySeq, LenProperties DEF Range
      <4> QED BY <4>1, <4>2
    <3>2. CASE z.full
      <4>1. t.step = "advance"
        BY <2>2, <2>7, <3>2
      <4> QED BY <2>2, <2>5, <3>1, <3>2, <4>1 DEF WalkSaw
    <3>3. CASE ~z.full
      <4>1. t.step = "clear"
        BY <2>2, <2>7, <3>3
      <4> QED BY <2>2, <2>5, <3>1, <3>3, <4>1 DEF WalkSaw
    <3> QED BY <3>2, <3>3
  <2> QED BY <2>6, <2>7
<1>13. x.job = walk[w].job
  BY <1>1, <1>5
<1> QED BY <1>1, <1>3, <1>5, <1>6, <1>8, <1>11, <1>12, <1>13, WalkOn

LEMMA QueueRepoKeeps ==
  ASSUME DiscoveryInv, NEW w \in Walkers, QueueRepo(w)
  PROVE  DiscoveryInv'
<1>1. found' \in [Links -> FoundRows]
  BY DEF QueueRepo, dataVars, DiscoveryInv, DiscoveryTypes
<1> QED BY <1>1, NextFindKeeps DEF QueueRepo, dataVars, observed

LEMMA UpsertFoundKeeps ==
  ASSUME DiscoveryInv, NEW w \in Walkers, UpsertFound(w)
  PROVE  DiscoveryInv'
<1> DEFINE l == find[walk[w].job].link
           r == Head(walk[w].batch)
<1>1. /\ walk[w].step = "upsert"
      /\ \/ /\ ~Exists(l)
            /\ Throws(w)
            /\ UNCHANGED <<found, handled>>
         \/ /\ Exists(l)
            /\ found' = [found EXCEPT ![l][r] = IF @ = "none" THEN "on" ELSE @]
            /\ IF found'[l][r] = "on" THEN Going(w, "queue") /\ UNCHANGED handled
                                      ELSE NextFind(w) /\ Handle(w)
            /\ UNCHANGED find
      /\ UNCHANGED <<installed, link, callback, must, shifted, unqueued, edits, walkFaults>>
  BY DEF UpsertFound
<1>2. PICK z \in WalkRecords :
        /\ z = walk[w] /\ WalkReady(z) /\ z.step = "upsert" /\ z.job \in Finds
        /\ z.batch # <<>> /\ z.batch \in Seq(Found) /\ (z.job \notin shifted => WalkSaw(z))
  BY <1>1, AtWork DEF WalkReady, WalkRecords
<1>3. CASE Throws(w) /\ UNCHANGED <<found, handled>>
  <2>1. UNCHANGED <<dataVars, callback, observed, edits>> /\ walkFaults' \in 0 .. MaxWalkFaults
    BY <1>1, <1>3 DEF dataVars, observed, DiscoveryInv, DiscoveryTypes
  <2> QED BY <1>1, <1>3, <2>1, ThrowsKeeps
<1>4. ASSUME found' = [found EXCEPT ![l][r] = IF @ = "none" THEN "on" ELSE @], UNCHANGED find,
             \/ Going(w, "queue") /\ UNCHANGED handled
             \/ NextFind(w) /\ Handle(w)
      PROVE  DiscoveryInv'
  <2>1. found' \in [Links -> FoundRows]
    <3>1. r \in Found /\ l \in Links /\ found \in [Links -> FoundRows]
      BY <1>1, <1>2, HeadAndTail, AtWork DEF FindReady
    <3>2. PICK k \in Links, q \in Found : k = l /\ q = r
      BY <3>1
    <3>3. found[k] \in FoundRows
      BY <3>1
    <3> HIDE DEF l, r
    <3>4. found' = [found EXCEPT ![k] = [found[k] EXCEPT ![q] =
                     IF found[k][q] = "none" THEN "on" ELSE found[k][q]]]
      BY <1>4, <3>2
    <3>5. [found[k] EXCEPT ![q] = IF found[k][q] = "none" THEN "on" ELSE found[k][q]] \in FoundRows
      BY <3>3 DEF FoundRows
    <3> QED BY <3>1, <3>4, <3>5
  <2>2. CASE NextFind(w) /\ Handle(w)
    BY <1>1, <1>4, <2>1, <2>2, NextFindKeeps
  <2>3. CASE Going(w, "queue") /\ UNCHANGED handled
    <3> DEFINE x == [z EXCEPT !.step = "queue"]
    <3>1. walk' = [walk EXCEPT ![w] = x]
      BY <1>2, <2>3 DEF Going, DiscoveryInv, DiscoveryTypes
    <3>2. /\ x \in WalkRecords /\ x.job = z.job /\ x.page = z.page /\ x.full = z.full
          /\ x.batch = z.batch /\ x.step = "queue"
      BY DEF WalkRecords, WalkSteps
    <3> HIDE DEF x
    <3>3. PICK t \in WalkRecords : t = x
      BY <3>2
    <3>4. WalkReady(t)
      BY <1>2, <3>2, <3>3 DEF WalkReady
    <3>5. \A g \in Finds : handled[g] \subseteq handled'[g]
      BY <2>3
    <3>6. z.job \notin shifted => WalkSaw(z)'
      BY <1>1, <1>2, <3>5, ClaimsStay
    <3>7. z.job \notin shifted => WalkSaw(t)'
      BY <1>2, <3>2, <3>3, <3>6 DEF WalkSaw
    <3>8. handled' \in [Finds -> SUBSET Found]
      BY <2>3 DEF DiscoveryInv, DiscoveryTypes
    <3> QED BY <1>1, <1>2, <1>4, <2>1, <3>1, <3>2, <3>3, <3>4, <3>5, <3>7, <3>8, WalkOn
  <2> QED BY <1>4, <2>2, <2>3
<1> QED BY <1>1, <1>3, <1>4

\* The next page is saved: what comes before it has been seen to.
LEMMA AdvanceKeeps ==
  ASSUME DiscoveryInv, NEW w \in Walkers, Advance(w)
  PROVE  DiscoveryInv'
<1> USE DEF dataVars, observed
<1>1. /\ walk[w].step = "advance"
      /\ UNCHANGED <<dataVars, callback, observed, edits, walkFaults>>
      /\ IF CanUpdate(w)
           THEN /\ walk' = [walk EXCEPT ![w].step = "fetch", ![w].page = @ + 1]
                /\ find' = [find EXCEPT ![walk[w].job].page = walk[w].page + 1]
           ELSE Throws(w)
  BY DEF Advance
<1>2. CASE ~CanUpdate(w)
  BY <1>1, <1>2, ThrowsKeeps, AtWork
<1>3. CASE CanUpdate(w)
  <2>1. PICK z \in WalkRecords :
          /\ z = walk[w] /\ WalkReady(z) /\ z.step = "advance" /\ z.job \in Finds
          /\ z.job \notin shifted => WalkSaw(z)
    BY <1>1, AtWork
  <2>2. PICK f \in Finds, y \in FindRecords :
          /\ f = z.job /\ y = find[f] /\ y.state \notin {"none", "completed"} /\ FindReady(y)
    BY <1>1, <1>3, <2>1, AtWork DEF CanUpdate
  <2> PICK p \in Nat \ {0} : p = z.page
    BY DEF WalkRecords
  <2>3. PICK q \in Nat \ {0} : p = z.page /\ q = p + 1 /\ UpTo(q) = PageEnd(p)
    <3>1. p + 1 \in Nat \ {0} /\ UpTo(p + 1) = PageEnd(p)
      BY PagesFollow
    <3> QED BY <3>1
  <2> DEFINE a == [z EXCEPT !.step = "fetch"]
             x == [a EXCEPT !.page = q]
             v == [y EXCEPT !.page = q]
  <2>4. walk' = [walk EXCEPT ![w] = x] /\ find' = [find EXCEPT ![f] = v]
    BY <1>1, <1>3, <2>1, <2>2, <2>3 DEF DiscoveryInv, DiscoveryTypes
  <2>5. a \in WalkRecords /\ a.job = z.job /\ a.step = "fetch" /\ a.batch = z.batch
    BY DEF WalkRecords, WalkSteps
  <2> HIDE DEF a
  <2>6. x \in WalkRecords /\ x.job = z.job /\ x.step = "fetch" /\ x.batch = z.batch /\ x.page = q
    BY <2>5 DEF WalkRecords
  <2> HIDE DEF x
  <2>7. v \in FindRecords /\ FindReady(v) /\ v.state = y.state /\ v.page = q
    BY <2>2 DEF FindRecords, FindReady
  <2> HIDE DEF v
  <2>8. PICK t \in WalkRecords, u \in FindRecords : t = x /\ u = v
    BY <2>6, <2>7
  <2>9. WalkReady(t)
    BY <2>1, <2>6, <2>8 DEF WalkReady
  <2>10. \A g \in Finds : handled[g] \subseteq handled'[g]
    BY <1>1
  <2>11. f \notin shifted => SeenBut(f, UpTo(q), {})'
    <3>1. f \notin shifted => SeenBut(f, PageEnd(p), {})
      BY <2>1, <2>2, <2>3 DEF WalkSaw
    <3> QED BY <1>1, <2>3, <2>10, <3>1, SeenStays
  <2>12. f \notin shifted => WalkSaw(t)'
    BY <2>2, <2>6, <2>8, <2>11 DEF WalkSaw
  <2>13. f \notin shifted => SavedPage(f, u)'
    BY <2>2, <2>7, <2>8, <2>11 DEF SavedPage
  <2>14. /\ found' \in [Links -> FoundRows] /\ handled' \in [Finds -> SUBSET Found]
         /\ walkFaults' \in 0 .. MaxWalkFaults
    BY <1>1, AtWork
  <2> QED BY <1>1, <2>2, <2>4, <2>6, <2>7, <2>8, <2>9, <2>10, <2>12, <2>13, <2>14, WalkChange
<1> QED BY <1>2, <1>3

LEMMA ClearKeeps ==
  ASSUME DiscoveryInv, NEW w \in Walkers, Clear(w)
  PROVE  DiscoveryInv'
<1> USE DEF dataVars, observed
<1>1. /\ walk[w].step = "clear"
      /\ UNCHANGED <<dataVars, callback, observed, edits, walkFaults>>
      /\ IF CanUpdate(w)
           THEN Going(w, "finish") /\ find' = [find EXCEPT ![walk[w].job].page = 1]
           ELSE Throws(w)
  BY DEF Clear
<1>2. CASE ~CanUpdate(w)
  BY <1>1, <1>2, ThrowsKeeps, AtWork
<1>3. CASE CanUpdate(w)
  <2>1. PICK z \in WalkRecords :
          /\ z = walk[w] /\ WalkReady(z) /\ z.step = "clear" /\ z.job \in Finds
          /\ z.job \notin shifted => WalkSaw(z)
    BY <1>1, AtWork
  <2>2. PICK f \in Finds, y \in FindRecords :
          /\ f = z.job /\ y = find[f] /\ y.state \notin {"none", "completed"} /\ FindReady(y)
    BY <1>1, <1>3, <2>1, AtWork DEF CanUpdate
  <2> DEFINE x == [z EXCEPT !.step = "finish"]
             v == [y EXCEPT !.page = 1]
  <2>4. walk' = [walk EXCEPT ![w] = x] /\ find' = [find EXCEPT ![f] = v]
    BY <1>1, <1>3, <2>1, <2>2 DEF Going, DiscoveryInv, DiscoveryTypes
  <2>6. x \in WalkRecords /\ x.job = z.job /\ x.step = "finish" /\ x.batch = z.batch
    BY DEF WalkRecords, WalkSteps
  <2> HIDE DEF x
  <2>7. v \in FindRecords /\ FindReady(v) /\ v.state = y.state /\ v.page = 1
    BY <2>2 DEF FindRecords, FindReady
  <2> HIDE DEF v
  <2>8. PICK t \in WalkRecords, u \in FindRecords : t = x /\ u = v
    BY <2>6, <2>7
  <2>9. WalkReady(t)
    BY <2>1, <2>6, <2>8 DEF WalkReady
  <2>10. \A g \in Finds : handled[g] \subseteq handled'[g]
    BY <1>1
  <2>11. f \notin shifted => AllBut(f, {})'
    <3>1. f \notin shifted => AllBut(f, {})
      BY <2>1, <2>2 DEF WalkSaw
    <3> QED BY <1>1, <2>10, <3>1, SeenStays
  <2>12. f \notin shifted => WalkSaw(t)'
    BY <2>2, <2>6, <2>8, <2>11 DEF WalkSaw
  <2>13. f \notin shifted => SavedPage(f, u)'
    <3>1. UpTo(1) = 0
      BY PagesFollow
    <3>2. SeenBut(f, 0, {})'
      BY DEF SeenBut
    <3> QED BY <2>2, <2>7, <2>8, <3>1, <3>2 DEF SavedPage
  <2>14. /\ found' \in [Links -> FoundRows] /\ handled' \in [Finds -> SUBSET Found]
         /\ walkFaults' \in 0 .. MaxWalkFaults
    BY <1>1, AtWork
  <2> QED BY <1>1, <2>2, <2>4, <2>6, <2>7, <2>8, <2>9, <2>10, <2>12, <2>13, <2>14, WalkChange
<1> QED BY <1>2, <1>3

\* A job completes once all has been seen to.
LEMMA FinishKeeps ==
  ASSUME DiscoveryInv, NEW w \in Walkers, Finish(w)
  PROVE  DiscoveryInv'
<1> USE DEF dataVars, observed
<1>1. /\ walk[w].step = "finish"
      /\ walk' = [walk EXCEPT ![w] = Idle]
      /\ UNCHANGED <<dataVars, callback, observed, edits, walkFaults>>
      /\ find' = IF Holds(w) THEN [find EXCEPT ![walk[w].job].state = "completed",
                                               ![walk[w].job].lock = NoWalker]
                 ELSE find
  BY DEF Finish
<1>2. PICK f \in Finds, y \in FindRecords :
        /\ f = walk[w].job /\ y = find[f] /\ y.state # "none" /\ FindReady(y)
        /\ f \notin shifted => AllBut(f, {}) /\ SavedPage(f, y)
  BY <1>1, AtWork DEF WalkSaw
<1>3. \A g \in Finds : handled[g] \subseteq handled'[g]
  BY <1>1
<1>4. f \notin shifted => AllBut(f, {})' /\ SavedPage(f, y)'
  BY <1>1, <1>2, <1>3, SeenStays, ClaimsStay
<1>5. /\ found' \in [Links -> FoundRows] /\ handled' \in [Finds -> SUBSET Found]
      /\ walkFaults' \in 0 .. MaxWalkFaults
  BY <1>1, AtWork
<1>6. CASE Holds(w)
  <2> DEFINE a == [y EXCEPT !.state = "completed"]
             v == [a EXCEPT !.lock = NoWalker]
  <2>1. find' = [find EXCEPT ![f] = v]
    BY <1>1, <1>2, <1>6 DEF DiscoveryInv, DiscoveryTypes
  <2>2. a \in FindRecords /\ a.state = "completed" /\ a.link \in Links /\ a.page = y.page
    BY <1>2 DEF FindRecords, FindReady
  <2> HIDE DEF a
  <2>3. v \in FindRecords /\ v.state = "completed" /\ FindReady(v) /\ v.page = y.page
    BY <2>2 DEF FindRecords, FindReady
  <2> HIDE DEF v
  <2>4. PICK u \in FindRecords : u = v
    BY <2>3
  <2>5. f \notin shifted => SavedPage(f, u)'
    BY <1>4, <2>3, <2>4 DEF SavedPage
  <2> QED BY <1>1, <1>2, <1>3, <1>5, <2>1, <2>3, <2>4, <2>5, LiteralRecords, WalkChange
<1>7. CASE ~Holds(w)
  <2>1. find' = [find EXCEPT ![f] = y]
    BY <1>1, <1>2, <1>7 DEF DiscoveryInv, DiscoveryTypes
  <2> QED BY <1>1, <1>2, <1>3, <1>4, <1>5, <2>1, LiteralRecords, WalkChange
<1> QED BY <1>6, <1>7

LEMMA WalkFailsKeeps ==
  ASSUME DiscoveryInv, NEW w \in Walkers, WalkFails(w)
  PROVE  DiscoveryInv'
<1>1. walkFaults' \in 0 .. MaxWalkFaults
  BY DEF WalkFails, WalkFault, DiscoveryInv, DiscoveryTypes
<1> QED BY <1>1, ThrowsKeeps DEF WalkFails

\* A worker that has lost its lock may go on.
LEMMA LoseLockKeeps ==
  ASSUME DiscoveryInv, NEW w \in Walkers, LoseLock(w)
  PROVE  DiscoveryInv'
<1> USE DEF dataVars, observed
<1>1. /\ walk[w].step # "idle" /\ Holds(w)
      /\ walkFaults' \in 0 .. MaxWalkFaults
      /\ find' = [find EXCEPT ![walk[w].job].state = "waiting", ![walk[w].job].lock = NoWalker]
      /\ walk' = [walk EXCEPT ![w] = Idle] \/ UNCHANGED walk
      /\ UNCHANGED <<dataVars, callback, observed, edits>>
  BY DEF LoseLock, WalkFault, DiscoveryInv, DiscoveryTypes
<1>2. PICK f \in Finds, y \in FindRecords :
        /\ f = walk[w].job /\ y = find[f] /\ y.state = "active" /\ y.link \in Links
        /\ y.tries < MaxTries /\ (f \notin shifted => SavedPage(f, y))
  BY <1>1, AtWork DEF Holds, FindReady
<1> DEFINE a == [y EXCEPT !.state = "waiting"]
           v == [a EXCEPT !.lock = NoWalker]
<1>3. find' = [find EXCEPT ![f] = v]
  BY <1>1, <1>2 DEF DiscoveryInv, DiscoveryTypes
<1>4. /\ a \in FindRecords /\ a.state = "waiting" /\ a.link \in Links /\ a.page = y.page
      /\ a.tries < MaxTries
  BY <1>2 DEF FindRecords
<1> HIDE DEF a
<1>5. v \in FindRecords /\ v.state = "waiting" /\ FindReady(v) /\ v.page = y.page
  BY <1>4 DEF FindRecords, FindReady
<1> HIDE DEF v
<1>6. PICK u \in FindRecords, t \in WalkRecords : u = v /\ t = walk[w]
  BY <1>1, <1>5, AtWork
<1>7. \A g \in Finds : handled[g] \subseteq handled'[g]
  BY <1>1
<1>8. f \notin shifted => SavedPage(f, u)'
  BY <1>1, <1>2, <1>5, <1>6, <1>7, ClaimsStay DEF SavedPage
<1>9. /\ WalkReady(t) /\ t.job = f
      /\ f \notin shifted => WalkSaw(t)'
  BY <1>1, <1>2, <1>6, <1>7, AtWork, ClaimsStay
<1>10. /\ found' \in [Links -> FoundRows] /\ handled' \in [Finds -> SUBSET Found]
  BY <1>1, AtWork
<1>11. CASE walk' = [walk EXCEPT ![w] = Idle]
  BY <1>1, <1>2, <1>3, <1>5, <1>6, <1>7, <1>8, <1>10, <1>11, LiteralRecords, WalkChange
<1>12. CASE UNCHANGED walk
  <2>1. walk' = [walk EXCEPT ![w] = t]
    BY <1>6, <1>12 DEF DiscoveryInv, DiscoveryTypes
  <2> QED BY <1>1, <1>2, <1>3, <1>5, <1>6, <1>7, <1>8, <1>9, <1>10, <2>1, WalkChange
<1> QED BY <1>1, <1>11, <1>12

-----------------------------------------------------------------------------

\* A step of a callback or of the user that no job notices.
LEMMA QuietStep ==
  ASSUME DiscoveryInv, UNCHANGED <<installed, find, walk, must, handled, shifted>>,
         RestTypes', found' \in [Links -> FoundRows], walkFaults' \in 0 .. MaxWalkFaults,
         callback' \in [Callbacks -> CallRecords], CallsReady'
  PROVE  DiscoveryInv'
<1>1. DiscoveryTypes'
  BY DEF DiscoveryInv, DiscoveryTypes
<1>2. WalksReady' /\ (\A f \in Finds : FindReady(find[f]))' /\ MustInstalled'
  BY DEF DiscoveryInv, WalksReady, MustInstalled
<1>3. JobsSaw' /\ WalksSaw'
  BY DEF DiscoveryInv, JobsSaw, WalksSaw, SavedPage, WalkSaw, SeenBut, AllBut
<1> QED BY <1>1, <1>2, <1>3 DEF DiscoveryInv

LEMMA CallStep ==
  ASSUME DiscoveryInv, NEW c \in Callbacks, NEW x \in CallRecords,
         callback' = [callback EXCEPT ![c] = x], CallReady(x),
         x.step # "done" => callback[c].step # "done",
         UNCHANGED <<installed, found, find, walk, must, handled, shifted>>,
         RestTypes', walkFaults' \in 0 .. MaxWalkFaults
  PROVE  DiscoveryInv'
<1>1. \A d \in Callbacks : callback'[d] = IF d = c THEN x ELSE callback[d]
  BY DEF DiscoveryInv, DiscoveryTypes
<1>2. callback' \in [Callbacks -> CallRecords] /\ found' \in [Links -> FoundRows]
  BY DEF DiscoveryInv, DiscoveryTypes
<1>3. CallsReady'
  BY <1>1 DEF DiscoveryInv, CallsReady
<1> QED BY <1>2, <1>3, QuietStep

LEMMA LookupKeeps ==
  ASSUME DiscoveryInv, NEW c \in Callbacks, LookupInstallation(c)
  PROVE  DiscoveryInv'
<1>1. /\ callback[c].step = "idle"
      /\ UNCHANGED <<dataVars, find, walk, observed, edits, walkFaults>>
  BY DEF LookupInstallation
<1>2. RestTypes' /\ walkFaults' \in 0 .. MaxWalkFaults
  BY <1>1 DEF dataVars, observed, RestTypes, DiscoveryInv, DiscoveryTypes
<1>3. PICK z \in CallRecords : z = callback[c]
  BY DEF DiscoveryInv, DiscoveryTypes
<1>4. PICK s \in Spaces :
        \/ callback' = [callback EXCEPT ![c].step = "insert", ![c].space = s]
        \/ \E l \in Connected :
             callback' = [callback EXCEPT ![c] =
               IF link[l] = s THEN [step |-> "update", space |-> s, link |-> l] ELSE Answered]
  BY DEF LookupInstallation
<1>5. CASE callback' = [callback EXCEPT ![c].step = "insert", ![c].space = s]
  <2> DEFINE a == [z EXCEPT !.step = "insert"]
             x == [a EXCEPT !.space = s]
  <2>1. callback' = [callback EXCEPT ![c] = x]
    BY <1>3, <1>5 DEF DiscoveryInv, DiscoveryTypes
  <2>2. a \in CallRecords /\ a.step = "insert"
    BY DEF CallRecords
  <2> HIDE DEF a
  <2>3. x \in CallRecords /\ CallReady(x)
    BY <2>2 DEF CallRecords, CallReady
  <2> HIDE DEF x
  <2> QED BY <1>1, <1>2, <2>1, <2>3, CallStep DEF dataVars, observed
<1>6. CASE \E l \in Connected :
             callback' = [callback EXCEPT ![c] =
               IF link[l] = s THEN [step |-> "update", space |-> s, link |-> l] ELSE Answered]
  <2>1. PICK l \in Connected :
             callback' = [callback EXCEPT ![c] =
               IF link[l] = s THEN [step |-> "update", space |-> s, link |-> l] ELSE Answered]
    BY <1>6
  <2> DEFINE u == [step |-> "update", space |-> s, link |-> l]
  <2>2. u \in CallRecords /\ CallReady(u)
    BY DEF CallRecords, CallReady, Connected
  <2>3. callback' = [callback EXCEPT ![c] = u] \/ callback' = [callback EXCEPT ![c] = Answered]
    BY <2>1
  <2> HIDE DEF u
  <2> QED BY <1>1, <1>2, <2>2, <2>3, LiteralRecords, CallStep DEF dataVars, observed
<1> QED BY <1>4, <1>5, <1>6

LEMMA UpdateLinkKeeps ==
  ASSUME DiscoveryInv, NEW c \in Callbacks, UpdateLink(c)
  PROVE  DiscoveryInv'
<1>1. /\ callback[c].step = "update"
      /\ UNCHANGED <<dataVars, find, walk, observed, edits, walkFaults>>
  BY DEF UpdateLink
<1>2. RestTypes' /\ walkFaults' \in 0 .. MaxWalkFaults
  BY <1>1 DEF dataVars, observed, RestTypes, DiscoveryInv, DiscoveryTypes
<1>3. PICK z \in CallRecords : z = callback[c] /\ z.link \in Links
  BY <1>1 DEF DiscoveryInv, DiscoveryTypes, CallsReady, CallReady
<1> DEFINE x == [z EXCEPT !.step = "queue"]
<1>4. callback' = [callback EXCEPT ![c] = x] \/ callback' = [callback EXCEPT ![c] = Answered]
  BY <1>3 DEF UpdateLink, DiscoveryInv, DiscoveryTypes
<1>5. x \in CallRecords /\ CallReady(x)
  BY <1>3 DEF CallRecords, CallReady
<1> HIDE DEF x
<1> QED BY <1>1, <1>2, <1>4, <1>5, LiteralRecords, CallStep DEF dataVars, observed

LEMMA InsertLinkKeeps ==
  ASSUME DiscoveryInv, NEW c \in Callbacks, InsertLink(c)
  PROVE  DiscoveryInv'
<1>1. /\ callback[c].step = "insert"
      /\ UNCHANGED <<installed, found, find, walk, observed, edits, walkFaults>>
  BY DEF InsertLink
<1>2. walkFaults' \in 0 .. MaxWalkFaults
  BY <1>1 DEF DiscoveryInv, DiscoveryTypes
<1>3. PICK z \in CallRecords : z = callback[c]
  BY DEF DiscoveryInv, DiscoveryTypes
<1>4. CASE callback' = [callback EXCEPT ![c] = Answered] /\ UNCHANGED link
  <2>1. RestTypes'
    BY <1>1, <1>4 DEF RestTypes, observed, DiscoveryInv, DiscoveryTypes
  <2> QED BY <1>1, <1>2, <1>4, <2>1, LiteralRecords, CallStep DEF observed
<1>5. ASSUME NEW l \in Fresh,
             link' = [link EXCEPT ![l] = callback[c].space],
             callback' = [callback EXCEPT ![c].step = "queue", ![c].link = l]
      PROVE  DiscoveryInv'
  <2> DEFINE a == [z EXCEPT !.step = "queue"]
             x == [a EXCEPT !.link = l]
  <2>1. callback' = [callback EXCEPT ![c] = x]
    BY <1>3, <1>5 DEF DiscoveryInv, DiscoveryTypes
  <2>2. a \in CallRecords /\ a.step = "queue" /\ l \in Links
    BY DEF CallRecords, Fresh
  <2> HIDE DEF a
  <2>3. x \in CallRecords /\ CallReady(x)
    BY <2>2 DEF CallRecords, CallReady
  <2> HIDE DEF x
  <2>4. RestTypes'
    BY <1>1, <1>3, <1>5 DEF RestTypes, observed, DiscoveryInv, DiscoveryTypes, CallRecords
  <2> QED BY <1>1, <1>2, <2>1, <2>3, <2>4, CallStep DEF observed
<1> QED BY <1>4, <1>5 DEF InsertLink

LEMMA CallbackFailsKeeps ==
  ASSUME DiscoveryInv, NEW c \in Callbacks, CallbackFails(c)
  PROVE  DiscoveryInv'
<1>1. /\ callback' = [callback EXCEPT ![c] = Answered]
      /\ UNCHANGED <<dataVars, find, walk, must, handled, shifted, edits>>
      /\ walkFaults' \in 0 .. MaxWalkFaults
  BY DEF CallbackFails, WalkFault, DiscoveryInv, DiscoveryTypes
<1>2. RestTypes'
  <2>1. callback[c].step = "queue" => callback[c].link \in Links
    BY DEF DiscoveryInv, CallsReady, CallReady
  <2> QED BY <1>1, <2>1 DEF CallbackFails, RestTypes, dataVars, DiscoveryInv, DiscoveryTypes
<1> QED BY <1>1, <1>2, LiteralRecords, CallStep DEF dataVars

\* The job is queued: the installation's repositories are all to be seen to.
LEMMA QueueFindKeeps ==
  ASSUME DiscoveryInv, NEW c \in Callbacks, QueueFind(c)
  PROVE  DiscoveryInv'
<1>1. /\ callback[c].step = "queue"
      /\ find' = [find EXCEPT ![c].state = "waiting", ![c].link = callback[c].link]
      /\ callback' = [callback EXCEPT ![c] = Answered]
      /\ must' = [must EXCEPT ![c] = Range(installed)]
      /\ UNCHANGED <<installed, link, found, walk, handled, shifted, unqueued, edits, walkFaults>>
  BY DEF QueueFind, dataVars
<1>2. PICK l \in Links : l = callback[c].link
  BY <1>1 DEF DiscoveryInv, CallsReady, CallReady
<1>3. find[c] = AbsentFind /\ c \in Finds
  BY <1>1 DEF DiscoveryInv, CallsReady, Finds
<1> DEFINE a == [AbsentFind EXCEPT !.state = "waiting"]
           y == [a EXCEPT !.link = l]
<1>4. find' = [find EXCEPT ![c] = y]
  BY <1>1, <1>2, <1>3 DEF DiscoveryInv, DiscoveryTypes
<1>5. a \in FindRecords /\ a.state = "waiting" /\ a.page = 1 /\ a.tries = 0 /\ a.lock = NoWalker
  BY LiteralRecords DEF FindRecords, AbsentFind
<1> HIDE DEF a
<1>6. y \in FindRecords /\ y.state = "waiting" /\ y.page = 1 /\ FindReady(y)
  BY <1>5 DEF FindRecords, FindReady
<1> HIDE DEF y
<1>7. \A g \in Finds : find'[g] = IF g = c THEN y ELSE find[g]
  BY <1>4 DEF DiscoveryInv, DiscoveryTypes
<1>8. \A d \in Callbacks : callback'[d] = IF d = c THEN Answered ELSE callback[d]
  BY <1>1 DEF DiscoveryInv, DiscoveryTypes
<1>9. must' \in [Finds -> SUBSET Found]
      /\ \A g \in Finds : must'[g] = IF g = c THEN Range(installed) ELSE must[g]
  <2>1. installed \in Seq(Found) /\ must \in [Finds -> SUBSET Found]
    BY DEF DiscoveryInv, DiscoveryTypes
  <2>2. Range(installed) \in SUBSET Found
    BY <2>1, RangeOfSeq
  <2> QED BY <1>1, <2>1, <2>2
<1>10. DiscoveryTypes'
  <2>1. find' \in [Finds -> FindRecords]
    BY <1>3, <1>4, <1>6 DEF DiscoveryInv, DiscoveryTypes
  <2>2. callback' \in [Callbacks -> CallRecords]
    BY <1>1, LiteralRecords DEF DiscoveryInv, DiscoveryTypes
  <2> QED BY <1>1, <1>9, <2>1, <2>2 DEF DiscoveryInv, DiscoveryTypes, RestTypes
<1>11. CallsReady' /\ (\A f \in Finds : FindReady(find[f]))'
  BY <1>6, <1>7, <1>8, LiteralRecords DEF DiscoveryInv, CallsReady, Finds
<1>12. WalksReady'
  BY <1>1, <1>6, <1>7 DEF DiscoveryInv, WalksReady, WalkReady
<1>13. MustInstalled'
  BY <1>1, <1>9 DEF DiscoveryInv, MustInstalled
<1>14. JobsSaw'
  <2>1. ASSUME NEW f \in Finds \ shifted, f # c PROVE SavedPage(f, find[f])'
    <3>1. SavedPage(f, find[f])
      BY <2>1 DEF DiscoveryInv, JobsSaw
    <3>2. find'[f] = find[f] /\ must'[f] = must[f]
      BY <1>7, <1>9, <2>1
    <3> QED BY <1>1, <3>1, <3>2 DEF SavedPage, SeenBut, AllBut
  <2>2. SavedPage(c, find[c])'
    <3>1. UpTo(1) = 0
      BY PagesFollow
    <3>2. find'[c] = y
      BY <1>3, <1>7
    <3>3. SeenBut(c, 0, {})'
      BY DEF SeenBut
    <3> QED BY <1>6, <3>1, <3>2, <3>3 DEF SavedPage
  <2> QED BY <1>1, <2>1, <2>2 DEF JobsSaw
<1>15. WalksSaw'
  <2> SUFFICES ASSUME NEW w \in Walkers, walk'[w].step # "idle", walk'[w].job \notin shifted'
               PROVE  WalkSaw(walk[w])'
    BY DEF WalksSaw
  <2>1. walk[w].job \in Finds /\ walk[w].job # c /\ WalkSaw(walk[w])
    BY <1>1, <1>3, LiteralRecords DEF DiscoveryInv, WalksSaw, WalksReady, WalkReady
  <2>2. must'[walk[w].job] = must[walk[w].job]
    BY <1>9, <2>1
  <2> QED BY <1>1, <2>1, <2>2 DEF WalkSaw, SeenBut, AllBut
<1> QED BY <1>10, <1>11, <1>12, <1>13, <1>14, <1>15 DEF DiscoveryInv

\* The installation is given a repository: those a job must see to only move back.
LEMMA InstallKeeps ==
  ASSUME DiscoveryInv, NEW r \in Found, Install(r)
  PROVE  DiscoveryInv'
<1>1. /\ r \notin Range(installed)
      /\ UNCHANGED <<link, found, callback, find, walk, must, handled, shifted, unqueued, walkFaults>>
      /\ edits' \in 0 .. MaxEdits
  BY DEF Install, Edit, observed, DiscoveryInv, DiscoveryTypes, RestTypes
<1>2. PICK s \in Seq(Found) : s = installed
  BY DEF DiscoveryInv, DiscoveryTypes
<1>3. PICK i \in 1 .. Len(s) + 1 : installed' = InsertAt(s, i, r)
  BY <1>2 DEF Install
<1>4. PICK t \in Seq(Found) :
        /\ t = installed' /\ Len(t) = Len(s) + 1
        /\ \A k \in 1 .. Len(s) + 1 : t[k] = IF k < i THEN s[k] ELSE IF k = i THEN r ELSE s[k - 1]
  <2>1. WithInserted(InsertAt(s, i, r), s, i, r)
    BY InsertedAt
  <2> QED BY <1>3, <2>1 DEF WithInserted
<1>5. Len(s) \in Nat /\ DOMAIN s = 1 .. Len(s) /\ DOMAIN t = 1 .. Len(t)
  BY LenProperties
<1>6. \A k \in 1 .. Len(s) : s[k] # r
  BY <1>1, <1>2, <1>5 DEF Range
<1>7. \A k \in 1 .. Len(s) + 1 : k # i =>
        \E j \in 1 .. Len(s) : t[k] = s[j] /\ j <= k /\ j = (IF k < i THEN k ELSE k - 1)
  <2> SUFFICES ASSUME NEW k \in 1 .. Len(s) + 1, k # i
               PROVE  \E j \in 1 .. Len(s) :
                        t[k] = s[j] /\ j <= k /\ j = (IF k < i THEN k ELSE k - 1)
    OBVIOUS
  <2>1. CASE k < i
    <3>1. k \in 1 .. Len(s) /\ t[k] = s[k] /\ k <= k
      BY <1>4, <1>5, <2>1
    <3> QED BY <2>1, <3>1
  <2>2. CASE ~(k < i)
    <3>1. k - 1 \in 1 .. Len(s) /\ t[k] = s[k - 1] /\ k - 1 <= k
      BY <1>4, <1>5, <2>2
    <3> QED BY <2>2, <3>1
  <2> QED BY <2>1, <2>2
<1>8. t[i] = r
  BY <1>4
<1>9. IsInjective(t)
  <2>0. \A j, k \in 1 .. Len(s) : s[j] = s[k] => j = k
    BY <1>2, <1>5 DEF DiscoveryInv, DiscoveryTypes, IsInjective
  <2> SUFFICES ASSUME NEW a \in 1 .. Len(s) + 1, NEW b \in 1 .. Len(s) + 1, t[a] = t[b]
               PROVE  a = b
    BY <1>4, <1>5 DEF IsInjective
  <2>1. CASE a = i \/ b = i
    BY <1>6, <1>7, <1>8, <2>1
  <2>2. CASE a # i /\ b # i
    <3>1. PICK j \in 1 .. Len(s) : t[a] = s[j] /\ j = (IF a < i THEN a ELSE a - 1)
      BY <1>7, <2>2
    <3>2. PICK k \in 1 .. Len(s) : t[b] = s[k] /\ k = (IF b < i THEN b ELSE b - 1)
      BY <1>7, <2>2
    <3>3. j = k
      BY <2>0, <3>1, <3>2
    <3> QED BY <1>5, <2>2, <3>1, <3>2, <3>3
  <2> QED BY <2>1, <2>2
<1>10. DiscoveryTypes'
  BY <1>1, <1>4, <1>9 DEF DiscoveryInv, DiscoveryTypes, RestTypes
<1>11. CallsReady' /\ WalksReady' /\ (\A f \in Finds : FindReady(find[f]))'
  BY <1>1 DEF DiscoveryInv, CallsReady, WalksReady
<1>12. \A e : e \in Range(s) => e \in Range(t)
  <2> SUFFICES ASSUME NEW k \in 1 .. Len(s) PROVE s[k] \in Range(t)
    BY <1>5 DEF Range
  <2>1. CASE k < i
    <3>1. k \in 1 .. Len(t) /\ t[k] = s[k]
      BY <1>4, <1>5, <2>1
    <3> QED BY <1>5, <3>1 DEF Range
  <2>2. CASE ~(k < i)
    <3>1. k + 1 \in 1 .. Len(t) /\ t[k + 1] = s[(k + 1) - 1] /\ (k + 1) - 1 = k
      BY <1>4, <1>5, <2>2
    <3> QED BY <1>5, <3>1 DEF Range
  <2> QED BY <2>1, <2>2
<1>13. \A f \in Finds : must[f] \subseteq Range(s)
  BY <1>2 DEF DiscoveryInv, MustInstalled
<1>14. MustInstalled'
  BY <1>1, <1>4, <1>12, <1>13 DEF MustInstalled
<1>15. ASSUME NEW f \in Finds, NEW n \in Nat, NEW B, SeenBut(f, n, B) PROVE SeenBut(f, n, B)'
  <2>1. \A j \in 1 .. Len(s) : j <= n /\ s[j] \in must[f] => s[j] \in handled[f] \cup B
    BY <1>2, <1>15 DEF SeenBut
  <2>2. ASSUME NEW k \in 1 .. Len(t), k <= n, t[k] \in must[f] PROVE t[k] \in handled[f] \cup B
    <3>1. r \notin must[f]
      BY <1>1, <1>2, <1>13
    <3>2. k # i
      BY <1>8, <2>2, <3>1
    <3>3. PICK j \in 1 .. Len(s) : t[k] = s[j] /\ j <= k
      BY <1>4, <1>7, <3>2
    <3> QED BY <1>4, <1>5, <2>1, <2>2, <3>3
  <2> QED BY <1>1, <1>4, <2>2 DEF SeenBut
<1>16. \A f \in Finds : \A B : AllBut(f, B) => AllBut(f, B)'
  BY <1>1 DEF AllBut
<1>17. JobsSaw'
  <2> SUFFICES ASSUME NEW f \in Finds, f \notin shifted PROVE SavedPage(f, find[f])'
    BY <1>1 DEF JobsSaw
  <2>1. PICK y \in FindRecords : y = find[f] /\ y = find'[f] /\ SavedPage(f, y)
    BY <1>1 DEF DiscoveryInv, DiscoveryTypes, JobsSaw
  <2>2. PICK n \in Nat : n = UpTo(y.page)
    BY PagesFollow DEF FindRecords
  <2>3. SeenBut(f, n, {})'
    BY <1>15, <2>1, <2>2 DEF SavedPage
  <2> QED BY <1>16, <2>1, <2>2, <2>3 DEF SavedPage
<1>18. WalksSaw'
  <2> SUFFICES ASSUME NEW w \in Walkers, walk[w].step # "idle", walk[w].job \notin shifted
               PROVE  WalkSaw(walk[w])'
    BY <1>1 DEF WalksSaw
  <2>1. PICK x \in WalkRecords : x = walk[w] /\ x = walk'[w] /\ x.job \in Finds /\ WalkSaw(x)
    BY <1>1 DEF DiscoveryInv, DiscoveryTypes, WalksSaw, WalksReady, WalkReady
  <2>2. PICK n \in Nat, m \in Nat : n = UpTo(x.page) /\ m = PageEnd(x.page)
    BY PagesFollow DEF WalkRecords
  <2>3. PICK f \in Finds : f = x.job
    BY <2>1
  <2> PICK B : B = Range(x.batch)
    OBVIOUS
  <2>4. /\ x.step = "fetch" => SeenBut(f, n, {})
        /\ x.step \in {"upsert", "queue"} /\ x.full => SeenBut(f, m, B)
        /\ x.step \in {"upsert", "queue"} /\ ~x.full => AllBut(f, B)
        /\ x.step = "advance" => SeenBut(f, m, {})
        /\ x.step \in {"clear", "finish"} => AllBut(f, {})
    BY <2>1, <2>2, <2>3 DEF WalkSaw
  <2>5. /\ x.step = "fetch" => SeenBut(f, n, {})'
        /\ x.step \in {"upsert", "queue"} /\ x.full => SeenBut(f, m, B)'
        /\ x.step \in {"upsert", "queue"} /\ ~x.full => AllBut(f, B)'
        /\ x.step = "advance" => SeenBut(f, m, {})'
        /\ x.step \in {"clear", "finish"} => AllBut(f, {})'
    BY <1>15, <1>16, <2>4
  <2>6. WalkSaw(x)'
    BY <2>2, <2>3, <2>5 DEF WalkSaw
  <2> QED BY <2>1, <2>6
<1> QED BY <1>10, <1>11, <1>14, <1>17, <1>18 DEF DiscoveryInv

\* The installation loses a repository: whatever job has come past its first page, or
\* is being worked on, is no longer spoken of.
LEMMA UninstallKeeps ==
  ASSUME DiscoveryInv, NEW r \in Found, Uninstall(r)
  PROVE  DiscoveryInv'
<1>1. /\ must' = [f \in Finds |-> must[f] \ {r}]
      /\ shifted' = shifted \cup {f \in Finds : find[f].page > 1 \/ \E w \in Walkers : walk[w].job = f}
      /\ UNCHANGED <<link, found, callback, find, walk, handled, unqueued, walkFaults>>
      /\ edits' \in 0 .. MaxEdits
  BY DEF Uninstall, Edit, DiscoveryInv, DiscoveryTypes, RestTypes
<1>2. PICK s \in Seq(Found) : s = installed
  BY DEF DiscoveryInv, DiscoveryTypes
<1>3. PICK i \in 1 .. Len(s) : s[i] = r /\ installed' = RemoveAt(s, i)
  BY <1>2 DEF Uninstall
<1>4. PICK t \in Seq(Found) :
        /\ t = installed' /\ Len(t) = Len(s) - 1
        /\ \A k \in 1 .. Len(s) - 1 : t[k] = IF k < i THEN s[k] ELSE s[k + 1]
  <2>1. /\ RemoveAt(s, i) \in Seq(Found) /\ Len(RemoveAt(s, i)) = Len(s) - 1
        /\ \A k \in 1 .. Len(s) - 1 : RemoveAt(s, i)[k] = IF k < i THEN s[k] ELSE s[k + 1]
    BY RemovedAt
  <2> QED BY <1>3, <2>1
<1>5. Len(s) \in Nat /\ DOMAIN s = 1 .. Len(s) /\ DOMAIN t = 1 .. Len(t)
  BY LenProperties
<1>6. \A k \in 1 .. Len(s) - 1 :
        \E j \in 1 .. Len(s) : t[k] = s[j] /\ j = (IF k < i THEN k ELSE k + 1)
  <2> SUFFICES ASSUME NEW k \in 1 .. Len(s) - 1
               PROVE  \E j \in 1 .. Len(s) : t[k] = s[j] /\ j = (IF k < i THEN k ELSE k + 1)
    OBVIOUS
  <2>1. CASE k < i
    <3>1. k \in 1 .. Len(s) /\ t[k] = s[k]
      BY <1>4, <1>5, <2>1
    <3> QED BY <2>1, <3>1
  <2>2. CASE ~(k < i)
    <3>1. k + 1 \in 1 .. Len(s) /\ t[k] = s[k + 1]
      BY <1>4, <1>5, <2>2
    <3> QED BY <2>2, <3>1
  <2> QED BY <2>1, <2>2
<1>7. IsInjective(t)
  <2>0. \A j, k \in 1 .. Len(s) : s[j] = s[k] => j = k
    BY <1>2, <1>5 DEF DiscoveryInv, DiscoveryTypes, IsInjective
  <2> SUFFICES ASSUME NEW a \in 1 .. Len(s) - 1, NEW b \in 1 .. Len(s) - 1, t[a] = t[b]
               PROVE  a = b
    BY <1>4, <1>5 DEF IsInjective
  <2>1. PICK j \in 1 .. Len(s) : t[a] = s[j] /\ j = (IF a < i THEN a ELSE a + 1)
    BY <1>6
  <2>2. PICK k \in 1 .. Len(s) : t[b] = s[k] /\ k = (IF b < i THEN b ELSE b + 1)
    BY <1>6
  <2>3. j = k
    BY <2>0, <2>1, <2>2
  <2> QED BY <1>5, <2>1, <2>2, <2>3
<1>8. DiscoveryTypes'
  <2>1. must' \in [Finds -> SUBSET Found] /\ shifted' \in SUBSET Finds
    BY <1>1 DEF DiscoveryInv, DiscoveryTypes
  <2> QED BY <1>1, <1>4, <1>7, <2>1 DEF DiscoveryInv, DiscoveryTypes, RestTypes
<1>9. CallsReady' /\ WalksReady' /\ (\A f \in Finds : FindReady(find[f]))'
  BY <1>1 DEF DiscoveryInv, CallsReady, WalksReady
<1>10. \A e \in Range(s) : e # r => e \in Range(t)
  <2> SUFFICES ASSUME NEW k \in 1 .. Len(s), s[k] # r PROVE s[k] \in Range(t)
    BY <1>5 DEF Range
  <2>1. CASE k < i
    <3>1. k \in 1 .. Len(t) /\ t[k] = s[k]
      BY <1>4, <1>5, <2>1
    <3> QED BY <1>5, <3>1 DEF Range
  <2>2. CASE k > i
    <3>1. k - 1 \in 1 .. Len(t) /\ t[k - 1] = s[(k - 1) + 1] /\ (k - 1) + 1 = k
      BY <1>4, <1>5, <2>2
    <3> QED BY <1>5, <3>1 DEF Range
  <2> QED BY <1>3, <1>5, <2>1, <2>2
<1>11. \A f \in Finds : must[f] \subseteq Range(s)
  BY <1>2 DEF DiscoveryInv, MustInstalled
<1>12. MustInstalled'
  <2> SUFFICES ASSUME NEW f \in Finds PROVE must'[f] \subseteq Range(t)
    BY <1>4 DEF MustInstalled
  <2>1. must'[f] = must[f] \ {r}
    BY <1>1
  <2> QED BY <1>10, <1>11, <2>1
<1>13. JobsSaw'
  <2> SUFFICES ASSUME NEW f \in Finds \ shifted' PROVE SavedPage(f, find[f])'
    BY DEF JobsSaw
  <2>1. PICK y \in FindRecords : y = find[f] /\ y = find'[f] /\ SavedPage(f, y) /\ y.page = 1
    BY <1>1 DEF DiscoveryInv, DiscoveryTypes, JobsSaw, FindRecords
  <2>2. UpTo(1) = 0
    BY PagesFollow
  <2>3. SeenBut(f, 0, {})'
    BY <1>4, <1>5 DEF SeenBut
  <2>4. AllBut(f, {}) => AllBut(f, {})'
    BY <1>1 DEF AllBut
  <2> QED BY <2>1, <2>2, <2>3, <2>4 DEF SavedPage
<1>14. WalksSaw'
  <2>1. \A w \in Walkers : walk'[w].step # "idle" => walk'[w].job \in shifted'
    BY <1>1 DEF DiscoveryInv, WalksReady, WalkReady
  <2> QED BY <2>1 DEF WalksSaw
<1> QED BY <1>8, <1>9, <1>12, <1>13, <1>14 DEF DiscoveryInv

\* The integration's row is written or deleted, or a repository switched.
LEMMA RowEditsKeep ==
  ASSUME DiscoveryInv,
         CreateIntegration \/ (\E l \in Links : Disconnect(l))
         \/ (\E l \in Links, r \in Found : Toggle(l, r))
  PROVE  DiscoveryInv'
<1> USE DEF observed, Edit
<1>1. RestTypes /\ found \in [Links -> FoundRows] /\ callback \in [Callbacks -> CallRecords]
      /\ walkFaults \in 0 .. MaxWalkFaults /\ CallsReady
  BY DEF DiscoveryInv, DiscoveryTypes
<1>2. CASE CreateIntegration
  <2>1. /\ UNCHANGED <<installed, found, callback, find, walk, must, handled, shifted, walkFaults>>
        /\ RestTypes'
    BY <1>1, <1>2 DEF CreateIntegration, RestTypes, Fresh
  <2>2. CallsReady'
    BY <1>1, <2>1 DEF CallsReady
  <2> QED BY <1>1, <2>1, <2>2, QuietStep
<1>3. ASSUME NEW l \in Links, Disconnect(l) PROVE DiscoveryInv'
  <2>1. /\ UNCHANGED <<installed, callback, find, walk, must, handled, shifted, walkFaults>>
        /\ RestTypes'
    BY <1>1, <1>3 DEF Disconnect, RestTypes
  <2>2. CallsReady'
    BY <1>1, <2>1 DEF CallsReady
  <2>3. found' \in [Links -> FoundRows]
    BY <1>1, <1>3 DEF Disconnect, FoundRows
  <2> QED BY <1>1, <2>1, <2>2, <2>3, QuietStep
<1>4. ASSUME NEW l \in Links, NEW r \in Found, Toggle(l, r) PROVE DiscoveryInv'
  <2>1. /\ UNCHANGED <<installed, callback, find, walk, must, handled, shifted, walkFaults>>
        /\ RestTypes'
    BY <1>1, <1>4 DEF Toggle, RestTypes
  <2>2. CallsReady'
    BY <1>1, <2>1 DEF CallsReady
  <2>3. found' \in [Links -> FoundRows]
    <3>1. found' = [found EXCEPT ![l] = [found[l] EXCEPT ![r] =
                     IF found[l][r] = "on" THEN "off" ELSE "on"]]
      BY <1>1, <1>4 DEF Toggle
    <3>2. [found[l] EXCEPT ![r] = IF found[l][r] = "on" THEN "off" ELSE "on"] \in FoundRows
      BY <1>1 DEF FoundRows
    <3> QED BY <1>1, <3>1, <3>2
  <2> QED BY <1>1, <2>1, <2>2, <2>3, QuietStep
<1> QED BY <1>2, <1>3, <1>4

LEMMA DiscoveryStepKeeps == DiscoveryInv /\ [DiscoveryNext]_discoveryVars => DiscoveryInv'
<1> SUFFICES ASSUME DiscoveryInv, [DiscoveryNext]_discoveryVars PROVE DiscoveryInv'
  OBVIOUS
<1>1. ASSUME NEW c \in Callbacks, CallbackStep(c) \/ CallbackFails(c) PROVE DiscoveryInv'
  BY <1>1, LookupKeeps, UpdateLinkKeeps, InsertLinkKeeps, QueueFindKeeps, CallbackFailsKeeps
     DEF CallbackStep
<1>2. ASSUME NEW w \in Walkers, WalkStep(w) \/ WalkFails(w) \/ LoseLock(w) PROVE DiscoveryInv'
  BY <1>2, TakeFindKeeps, LoadLinkKeeps, FetchPageKeeps, UpsertFoundKeeps, QueueRepoKeeps,
     AdvanceKeeps, ClearKeeps, FinishKeeps, WalkFailsKeeps, LoseLockKeeps DEF WalkStep
<1>3. ASSUME NEW r \in Found, Install(r) \/ Uninstall(r) PROVE DiscoveryInv'
  BY <1>3, InstallKeeps, UninstallKeeps
<1>4. CASE UNCHANGED discoveryVars
  <2>1. /\ UNCHANGED <<installed, link, found, callback, find, walk, must, handled, shifted,
                       unqueued, edits, walkFaults>>
    BY <1>4 DEF discoveryVars
  <2>2. RestTypes' /\ CallsReady'
    BY <2>1 DEF DiscoveryInv, DiscoveryTypes, RestTypes, CallsReady
  <2> QED BY <2>1, <2>2, QuietStep DEF DiscoveryInv, DiscoveryTypes
<1> QED BY <1>1, <1>2, <1>3, <1>4, RowEditsKeep DEF DiscoveryNext

LEMMA DiscoveryInvariant == DiscoveryInit /\ [][DiscoveryNext]_discoveryVars => []DiscoveryInv
BY DiscoveryStart, DiscoveryStepKeeps, PTL

\* Types of the installation, the integrations, the callbacks, the jobs and the walks.
THEOREM DiscoveryTypesKept == DiscoverySpec => []DiscoveryTypeOK
<1>1. DiscoveryInv => DiscoveryTypeOK
  BY DiscoveryTypesAre DEF DiscoveryInv
<1> QED BY <1>1, DiscoveryInvariant, PTL DEF DiscoverySpec

\* However many attempts, workers and crashes it takes, a job that completes has seen to
\* every repository of the installation: the page saved in the job never runs ahead of
\* what was stored, and repositories that are added only push others back.  One that the
\* installation loses while the pages are read moves others past the reader (shifted).
THEOREM DiscoveryIsComplete == DiscoverySpec => []DiscoveryComplete
<1>1. DiscoveryInv => DiscoveryComplete
  BY DEF DiscoveryInv, JobsSaw, SavedPage, AllBut, DiscoveryComplete
<1> QED BY <1>1, DiscoveryInvariant, PTL DEF DiscoverySpec

-----------------------------------------------------------------------------
(* Nothing is left lying: who still has to queue or to run the job of an    *)
(* integration.                                                             *)

\* The job of an integration exists, or a callback is about to queue it.
LinksInHand ==
  \A l \in Links : Exists(l) =>
    \/ l \in unqueued
    \/ \E c \in Callbacks : callback[c].step = "queue" /\ callback[c].link = l
    \/ \E f \in Finds : find[f].state # "none" /\ find[f].link = l

\* A job that is active is the one the worker that holds it is at.
JobsInHand ==
  \A f \in Finds : find[f].state = "active" =>
    \E w \in Walkers : find[f].lock = w /\ walk[w].job = f /\ walk[w].step # "idle"

InHand == LinksInHand /\ JobsInHand

\* Jobs are not taken back, nor given to another integration.
FindsStay ==
  \A f \in Finds : find[f].state # "none" => find'[f].state # "none" /\ find'[f].link = find[f].link

LEMMA InHandInitially == DiscoveryInit => InHand
<1> SUFFICES ASSUME DiscoveryInit PROVE InHand
  OBVIOUS
<1>1. \A l \in Links : ~Exists(l)
  BY DiscoveryAssumption DEF DiscoveryInit, Exists
<1> QED BY <1>1 DEF DiscoveryInit, AbsentFind, InHand, LinksInHand, JobsInHand

\* What a step of a worker does to its job: it goes on, gives it up, goes on about a job it
\* holds no longer, or takes one.
GoesOn(w) ==
  /\ walk'[w].job = walk[w].job /\ walk'[w].step # "idle"
  /\ \A f \in Finds : /\ find'[f].state = find[f].state /\ find'[f].lock = find[f].lock
                      /\ find'[f].link = find[f].link
GivesUp(w) ==
  \E f \in Finds :
    /\ f = walk[w].job /\ find'[f].state \notin {"none", "active"} /\ find'[f].link = find[f].link
    /\ \A g \in Finds \ {f} : find'[g] = find[g]
Forgets(w) == find' = find /\ ~Holds(w)
Takes(w) ==
  \E f \in Finds :
    /\ walk[w].step = "idle" /\ walk'[w].job = f /\ walk'[w].step # "idle"
    /\ find[f].state = "waiting"
    /\ find'[f].state = "active" /\ find'[f].lock = w /\ find'[f].link = find[f].link
    /\ \A g \in Finds \ {f} : find'[g] = find[g]

LEMMA EffectKeeps ==
  ASSUME DiscoveryInv, JobsInHand, NEW w \in Walkers,
         \A u \in Walkers \ {w} : walk'[u] = walk[u],
         \/ walk[w].step # "idle" /\ (GoesOn(w) \/ GivesUp(w) \/ Forgets(w))
         \/ Takes(w)
  PROVE  JobsInHand' /\ FindsStay
<1>1. CASE GoesOn(w)
  <2>1. ASSUME NEW f \in Finds, find'[f].state = "active"
        PROVE  \E u \in Walkers : find'[f].lock = u /\ walk'[u].job = f /\ walk'[u].step # "idle"
    <3>1. PICK u \in Walkers : find[f].lock = u /\ walk[u].job = f /\ walk[u].step # "idle"
      BY <1>1, <2>1 DEF GoesOn, JobsInHand
    <3>2. find'[f].lock = u /\ walk'[u].job = f /\ walk'[u].step # "idle"
      BY <1>1, <3>1 DEF GoesOn
    <3> QED BY <3>2
  <2>2. FindsStay
    BY <1>1 DEF GoesOn, FindsStay
  <2> QED BY <2>1, <2>2 DEF JobsInHand
\* Of another job that is active the worker is another.
<1>2. ASSUME NEW f \in Finds, f # walk[w].job \/ ~Holds(w) \/ walk[w].step = "idle",
             find'[f] = find[f], find[f].state = "active"
      PROVE  \E u \in Walkers : find'[f].lock = u /\ walk'[u].job = f /\ walk'[u].step # "idle"
  <2>1. PICK u \in Walkers : find[f].lock = u /\ walk[u].job = f /\ walk[u].step # "idle"
    BY <1>2 DEF JobsInHand
  <2>2. u # w
    BY <1>2, <2>1 DEF Holds
  <2>3. find'[f].lock = u /\ walk'[u].job = f /\ walk'[u].step # "idle"
    BY <1>2, <2>1, <2>2
  <2> QED BY <2>3
<1>3. CASE GivesUp(w)
  <2>1. PICK f \in Finds :
          /\ f = walk[w].job /\ find'[f].state \notin {"none", "active"} /\ find'[f].link = find[f].link
          /\ \A g \in Finds \ {f} : find'[g] = find[g]
    BY <1>3 DEF GivesUp
  <2>2. FindsStay
    BY <2>1 DEF FindsStay
  <2>3. ASSUME NEW g \in Finds, find'[g].state = "active"
        PROVE  \E u \in Walkers : find'[g].lock = u /\ walk'[u].job = g /\ walk'[u].step # "idle"
    <3>1. g # f /\ find'[g] = find[g]
      BY <2>1, <2>3
    <3>2. find[g].state = "active"
      BY <2>3, <3>1
    <3> QED BY <1>2, <2>1, <3>1, <3>2
  <2> QED BY <2>2, <2>3 DEF JobsInHand
<1>4. CASE Forgets(w)
  BY <1>2, <1>4 DEF Forgets, FindsStay, JobsInHand
<1>5. CASE Takes(w)
  <2>1. PICK f \in Finds :
          /\ walk[w].step = "idle" /\ walk'[w].job = f /\ walk'[w].step # "idle"
          /\ find[f].state = "waiting"
          /\ find'[f].state = "active" /\ find'[f].lock = w /\ find'[f].link = find[f].link
          /\ \A g \in Finds \ {f} : find'[g] = find[g]
    BY <1>5 DEF Takes
  <2>2. FindsStay
    BY <2>1 DEF FindsStay
  <2>3. ASSUME NEW g \in Finds, find'[g].state = "active"
        PROVE  \E u \in Walkers : find'[g].lock = u /\ walk'[u].job = g /\ walk'[u].step # "idle"
    <3>1. CASE g = f
      BY <2>1, <3>1
    <3>2. CASE g # f
      <4>1. find'[g] = find[g] /\ find[g].state = "active"
        BY <2>1, <2>3, <3>2
      <4> QED BY <1>2, <2>1, <4>1
    <3> QED BY <3>1, <3>2
  <2> QED BY <2>2, <2>3 DEF JobsInHand
<1> QED BY <1>1, <1>3, <1>4, <1>5

LEMMA WalkEffect ==
  ASSUME DiscoveryInv, NEW w \in Walkers, WalkStep(w) \/ WalkFails(w) \/ LoseLock(w)
  PROVE  /\ \A u \in Walkers \ {w} : walk'[u] = walk[u]
         /\ \/ walk[w].step # "idle" /\ (GoesOn(w) \/ GivesUp(w) \/ Forgets(w))
            \/ Takes(w)
         /\ UNCHANGED <<link, callback, unqueued>>
<1> USE DEF dataVars, observed
<1>0. walk \in [Walkers -> WalkRecords] /\ find \in [Finds -> FindRecords]
  BY DEF DiscoveryInv, DiscoveryTypes
<1>a. walk[w].step # "idle" => /\ walk[w].job \in Finds
                               /\ find[walk[w].job] \in FindRecords /\ walk[w] \in WalkRecords
  BY AtWork
<1>1. ASSUME Throws(w), walk[w].step # "idle"
      PROVE  /\ \A u \in Walkers \ {w} : walk'[u] = walk[u]
             /\ GivesUp(w) \/ Forgets(w)
  <2>1. \A u \in Walkers \ {w} : walk'[u] = walk[u]
    BY <1>0, <1>1 DEF Throws
  <2>2. CASE ~Holds(w)
    BY <1>1, <2>1, <2>2 DEF Throws, Forgets
  <2>3. CASE Holds(w)
    <3>1. PICK f \in Finds, y \in FindRecords : f = walk[w].job /\ y = find[f]
      BY <1>1, <1>a
    <3>2. PICK st \in {"failed", "waiting"} :
            find' = [find EXCEPT ![f] = [y EXCEPT !.tries = y.tries + 1, !.lock = NoWalker, !.state = st]]
      BY <1>1, <2>3, <3>1 DEF Throws
    <3>3. PICK z : z = [y EXCEPT !.tries = y.tries + 1, !.lock = NoWalker, !.state = st]
      OBVIOUS
    <3>4. z.state = st /\ z.link = y.link
      BY <3>3 DEF FindRecords
    <3>5. find' = [find EXCEPT ![f] = z]
      BY <3>2, <3>3
    <3> QED BY <1>0, <2>1, <3>1, <3>4, <3>5 DEF GivesUp
  <2> QED BY <2>2, <2>3
<1>2. ASSUME walk[w].step # "idle", NEW x, walk' = [walk EXCEPT ![w] = x],
             x.job = walk[w].job, x.step # "idle", find' = find
      PROVE  (\A u \in Walkers \ {w} : walk'[u] = walk[u]) /\ GoesOn(w)
  BY <1>0, <1>2 DEF GoesOn
<1>3. ASSUME walk[w].step # "idle", NEW st \in WalkSteps \ {"idle"}, Going(w, st), find' = find
      PROVE  (\A u \in Walkers \ {w} : walk'[u] = walk[u]) /\ GoesOn(w)
  BY <1>0, <1>3 DEF Going, GoesOn, WalkRecords
<1>4. ASSUME walk[w].step # "idle", NextFind(w), find' = find
      PROVE  (\A u \in Walkers \ {w} : walk'[u] = walk[u]) /\ GoesOn(w)
  <2>1. PICK st \in {"upsert", "advance", "clear"} :
          walk' = [walk EXCEPT ![w].batch = Tail(@), ![w].step = st]
    BY <1>4 DEF NextFind
  <2> QED BY <1>0, <1>4, <2>1 DEF GoesOn, WalkRecords
<1>5. CASE TakeFind(w)
  BY <1>0, <1>5 DEF TakeFind, Takes, FindRecords, WalkRecords
<1>6. CASE LoadLink(w)
  <2>1. CASE Throws(w)
    BY <1>1, <1>6, <2>1 DEF LoadLink
  <2>2. CASE /\ walk' = [walk EXCEPT ![w].step = "fetch", ![w].page = find[walk[w].job].page]
             /\ UNCHANGED find
    BY <1>0, <1>6, <2>2 DEF LoadLink, GoesOn, WalkRecords
  <2> QED BY <1>6, <2>1, <2>2 DEF LoadLink
<1>7. CASE FetchPage(w)
  <2>1. PICK z \in WalkRecords : z = walk[w] /\ z.step = "fetch"
    BY <1>7, AtWork DEF FetchPage
  <2> DEFINE left == Len(installed) - UpTo(z.page)
             read == IF left <= 0 THEN <<>>
                     ELSE SubSeq(installed, UpTo(z.page) + 1,
                                 UpTo(z.page) + (IF left < PageOf THEN left ELSE PageOf))
  <2>2. PICK batch : batch = read
    OBVIOUS
  <2>3. PICK full : full = (Len(batch) = PageOf)
    OBVIOUS
  <2>4. PICK st \in {"clear", "upsert"} : st = IF batch = <<>> THEN "clear" ELSE "upsert"
    OBVIOUS
  <2>5. walk' = [walk EXCEPT ![w].batch = batch, ![w].full = full, ![w].step = st]
    BY <1>7, <2>1, <2>2, <2>3, <2>4 DEF FetchPage, UpTo
  <2> HIDE DEF read
  <2>6. PICK x : x = [z EXCEPT !.batch = batch, !.full = full, !.step = st]
    OBVIOUS
  <2>7. x.job = z.job /\ x.step # "idle"
    BY <2>4, <2>6 DEF WalkRecords
  <2>8. walk' = [walk EXCEPT ![w] = x]
    BY <1>0, <2>1, <2>5, <2>6
  <2> QED BY <1>2, <1>7, <2>1, <2>7, <2>8 DEF FetchPage
<1>8. CASE UpsertFound(w)
  <2>1. CASE Throws(w)
    BY <1>1, <1>8, <2>1 DEF UpsertFound
  <2>2. CASE find' = find /\ (Going(w, "queue") \/ NextFind(w))
    BY <1>3, <1>4, <1>8, <2>2 DEF UpsertFound, WalkSteps
  <2> QED BY <1>8, <2>1, <2>2 DEF UpsertFound
<1>9. CASE QueueRepo(w)
  BY <1>4, <1>9 DEF QueueRepo
\* The page is saved, whoever holds the job.
<1>10. ASSUME walk[w].step # "idle", NEW p, find' = [find EXCEPT ![walk[w].job].page = p],
              walk'[w].job = walk[w].job, walk'[w].step # "idle"
       PROVE  GoesOn(w)
  BY <1>0, <1>a, <1>10 DEF GoesOn, FindRecords
<1>11. CASE Advance(w)
  <2>1. CASE Throws(w)
    BY <1>1, <1>11, <2>1 DEF Advance
  <2>2. CASE /\ walk' = [walk EXCEPT ![w].step = "fetch", ![w].page = @ + 1]
             /\ find' = [find EXCEPT ![walk[w].job].page = walk[w].page + 1]
    <3>1. walk'[w].job = walk[w].job /\ walk'[w].step = "fetch"
      BY <1>0, <2>2 DEF WalkRecords
    <3>2. \A u \in Walkers \ {w} : walk'[u] = walk[u]
      BY <1>0, <2>2
    <3> QED BY <1>10, <1>11, <2>2, <3>1, <3>2 DEF Advance
  <2> QED BY <1>11, <2>1, <2>2 DEF Advance
<1>12. CASE Clear(w)
  <2>1. CASE Throws(w)
    BY <1>1, <1>12, <2>1 DEF Clear
  <2>2. CASE Going(w, "finish") /\ find' = [find EXCEPT ![walk[w].job].page = 1]
    <3>1. walk'[w].job = walk[w].job /\ walk'[w].step = "finish"
      BY <1>0, <2>2 DEF WalkRecords, Going
    <3>2. \A u \in Walkers \ {w} : walk'[u] = walk[u]
      BY <1>0, <2>2 DEF Going
    <3> QED BY <1>10, <1>12, <2>2, <3>1, <3>2 DEF Clear
  <2> QED BY <1>12, <2>1, <2>2 DEF Clear
<1>13. CASE Finish(w)
  <2>1. \A u \in Walkers \ {w} : walk'[u] = walk[u]
    BY <1>0, <1>13 DEF Finish
  <2>2. CASE Holds(w)
    <3>1. find' = [find EXCEPT ![walk[w].job].state = "completed", ![walk[w].job].lock = NoWalker]
      BY <1>13, <2>2 DEF Finish
    <3>2. GivesUp(w)
      BY <1>0, <1>a, <1>13, <3>1 DEF Finish, GivesUp, FindRecords
    <3> QED BY <1>13, <2>1, <3>2 DEF Finish
  <2>3. CASE ~Holds(w)
    BY <1>13, <2>1, <2>3 DEF Finish, Forgets
  <2> QED BY <2>2, <2>3
<1>14. CASE WalkFails(w)
  BY <1>1, <1>14 DEF WalkFails
<1>15. CASE LoseLock(w)
  <2>1. \A u \in Walkers \ {w} : walk'[u] = walk[u]
    BY <1>0, <1>15 DEF LoseLock
  <2>2. GivesUp(w)
    BY <1>0, <1>a, <1>15 DEF LoseLock, GivesUp, FindRecords
  <2> QED BY <1>15, <2>1, <2>2 DEF LoseLock
<1>16. UNCHANGED <<link, callback, unqueued>>
  BY DEF WalkStep, TakeFind, LoadLink, FetchPage, UpsertFound, QueueRepo, Advance, Clear, Finish,
         WalkFails, LoseLock
<1> QED
  BY <1>5, <1>6, <1>7, <1>8, <1>9, <1>11, <1>12, <1>13, <1>14, <1>15, <1>16 DEF WalkStep

LEMMA InHandStep == DiscoveryInv /\ InHand /\ [DiscoveryNext]_discoveryVars => InHand'
<1> SUFFICES ASSUME DiscoveryInv, InHand, [DiscoveryNext]_discoveryVars PROVE InHand'
  OBVIOUS
<1> USE DEF dataVars, observed
<1> callback \in [Callbacks -> CallRecords] /\ find \in [Finds -> FindRecords]
  BY DEF DiscoveryInv, DiscoveryTypes
<1> LinksInHand /\ JobsInHand
  BY DEF InHand
<1>1. ASSUME FindsStay, unqueued \subseteq unqueued',
             \A c \in Callbacks : callback[c].step = "queue" => callback'[c] = callback[c],
             \A l \in Links : Exists(l)' => Exists(l)
      PROVE  LinksInHand'
  BY <1>1 DEF LinksInHand, FindsStay
<1>2. ASSUME NEW w \in Walkers, WalkStep(w) \/ WalkFails(w) \/ LoseLock(w) PROVE InHand'
  <2>1. JobsInHand' /\ FindsStay
    BY <1>2, WalkEffect, EffectKeeps
  <2>2. UNCHANGED <<link, callback, unqueued>>
    BY <1>2, WalkEffect
  <2> QED BY <1>1, <2>1, <2>2 DEF Exists, InHand
<1>3. ASSUME UNCHANGED <<find, walk>> PROVE JobsInHand' /\ FindsStay
  BY <1>3 DEF JobsInHand, FindsStay
<1>4. ASSUME NEW c \in Callbacks, LookupInstallation(c) \/ UpdateLink(c) PROVE InHand'
  <2>1. UNCHANGED <<find, walk, link, unqueued>> /\ callback[c].step \in {"idle", "update"}
    BY <1>4 DEF LookupInstallation, UpdateLink
  <2>2. \A d \in Callbacks \ {c} : callback'[d] = callback[d]
    BY <1>4 DEF LookupInstallation, UpdateLink
  <2> QED BY <1>1, <1>3, <2>1, <2>2 DEF Exists, InHand
<1>5. ASSUME NEW c \in Callbacks, InsertLink(c) PROVE InHand'
  <2>1. UNCHANGED <<find, walk, unqueued>> /\ callback[c].step = "insert"
    BY <1>5 DEF InsertLink
  <2>2. \A d \in Callbacks \ {c} : callback'[d] = callback[d]
    BY <1>5 DEF InsertLink
  <2>3. CASE UNCHANGED link
    BY <1>1, <1>3, <2>1, <2>2, <2>3 DEF Exists, InHand
  <2>4. CASE link' # link
    <3>1. PICK l \in Fresh : /\ link' = [link EXCEPT ![l] = callback[c].space]
                             /\ callback' = [callback EXCEPT ![c].step = "queue", ![c].link = l]
      BY <1>5, <2>4 DEF InsertLink
    <3>2. callback'[c].step = "queue" /\ callback'[c].link = l
      BY <3>1 DEF CallRecords
    <3>3. \A k \in Links \ {l} : Exists(k)' => Exists(k)
      BY <3>1 DEF Exists, DiscoveryInv, DiscoveryTypes, RestTypes
    <3>4. LinksInHand'
      BY <2>1, <2>2, <3>2, <3>3 DEF LinksInHand
    <3> QED BY <1>3, <2>1, <3>4 DEF InHand
  <2> QED BY <2>3, <2>4
<1>6. ASSUME NEW c \in Callbacks, QueueFind(c) PROVE InHand'
  <2>1. /\ callback[c].step = "queue" /\ UNCHANGED <<link, walk, unqueued>>
        /\ find' = [find EXCEPT ![c].state = "waiting", ![c].link = callback[c].link]
        /\ callback' = [callback EXCEPT ![c] = Answered]
    BY <1>6 DEF QueueFind
  <2>2. find[c] = AbsentFind /\ c \in Finds
    BY <2>1 DEF DiscoveryInv, CallsReady, Finds
  <2>3. /\ find'[c].state = "waiting" /\ find'[c].link = callback[c].link
        /\ \A f \in Finds \ {c} : find'[f] = find[f]
        /\ \A d \in Callbacks \ {c} : callback'[d] = callback[d]
    BY <2>1, <2>2 DEF FindRecords
  <2>4. find[c].state = "none"
    BY <2>2 DEF AbsentFind
  <2>5. JobsInHand'
    BY <2>1, <2>3 DEF JobsInHand
  <2>6. LinksInHand'
    <3> SUFFICES ASSUME NEW l \in Links, Exists(l)', l \notin unqueued'
                 PROVE  \/ \E d \in Callbacks : callback'[d].step = "queue" /\ callback'[d].link = l
                        \/ \E f \in Finds : find'[f].state # "none" /\ find'[f].link = l
      BY DEF LinksInHand
    <3>1. Exists(l) /\ l \notin unqueued
      BY <2>1 DEF Exists
    <3>2. CASE \E d \in Callbacks : callback[d].step = "queue" /\ callback[d].link = l
      BY <2>2, <2>3, <3>2
    <3>3. CASE \E f \in Finds : find[f].state # "none" /\ find[f].link = l
      BY <2>3, <2>4, <3>3
    <3> QED BY <3>1, <3>2, <3>3 DEF LinksInHand
  <2> QED BY <2>5, <2>6 DEF InHand
<1>7. ASSUME NEW c \in Callbacks, CallbackFails(c) PROVE InHand'
  <2>1. /\ UNCHANGED <<link, find, walk>> /\ unqueued \subseteq unqueued'
        /\ callback[c].step = "queue" => callback[c].link \in unqueued'
        /\ \A d \in Callbacks \ {c} : callback'[d] = callback[d]
    BY <1>7 DEF CallbackFails
  <2>2. LinksInHand'
    <3> SUFFICES ASSUME NEW l \in Links, Exists(l)', l \notin unqueued'
                 PROVE  \/ \E d \in Callbacks : callback'[d].step = "queue" /\ callback'[d].link = l
                        \/ \E f \in Finds : find'[f].state # "none" /\ find'[f].link = l
      BY DEF LinksInHand
    <3>1. Exists(l) /\ l \notin unqueued
      BY <2>1 DEF Exists
    <3>2. CASE \E d \in Callbacks : callback[d].step = "queue" /\ callback[d].link = l
      BY <2>1, <3>2
    <3>3. CASE \E f \in Finds : find[f].state # "none" /\ find[f].link = l
      BY <2>1, <3>3
    <3> QED BY <3>1, <3>2, <3>3 DEF LinksInHand
  <2> QED BY <1>3, <2>1, <2>2 DEF InHand
<1>8. CASE CreateIntegration
  <2>1. PICK s \in Spaces, l \in Fresh :
          /\ link' = [link EXCEPT ![l] = s] /\ unqueued' = unqueued \cup {l}
          /\ UNCHANGED <<callback, find, walk>>
    BY <1>8 DEF CreateIntegration
  <2>2. \A k \in Links \ {l} : Exists(k)' => Exists(k)
    BY <2>1 DEF Exists, DiscoveryInv, DiscoveryTypes, RestTypes
  <2>3. LinksInHand'
    BY <2>1, <2>2 DEF LinksInHand
  <2> QED BY <1>3, <2>1, <2>3 DEF InHand
<1>9. ASSUME NEW l \in Links, Disconnect(l) PROVE InHand'
  <2>1. UNCHANGED <<find, walk, callback, unqueued>> /\ Exists(l)
        /\ link' = [link EXCEPT ![l] = "gone"]
    BY <1>9 DEF Disconnect
  <2>2. \A k \in Links : Exists(k)' => Exists(k)
    BY <2>1 DEF Exists, DiscoveryInv, DiscoveryTypes, RestTypes
  <2> QED BY <1>1, <1>3, <2>1, <2>2 DEF InHand
<1>10. CASE \/ \E l \in Links, r \in Found : Toggle(l, r)
            \/ \E r \in Found : Install(r) \/ Uninstall(r)
            \/ UNCHANGED discoveryVars
  <2>1. UNCHANGED <<find, walk, link, callback, unqueued>>
    BY <1>10 DEF Toggle, Install, Uninstall, discoveryVars
  <2> QED BY <1>1, <1>3, <2>1 DEF Exists, InHand
<1> QED
  BY <1>2, <1>4, <1>5, <1>6, <1>7, <1>8, <1>9, <1>10 DEF DiscoveryNext, CallbackStep

\* No callback is at work, no worker, and no job waits for one.
DiscoveryAtRest ==
  /\ \A c \in Callbacks : callback[c].step \in {"idle", "done"}
  /\ \A w \in Walkers : walk[w].step = "idle"
  /\ \A f \in Finds : find[f].state # "waiting"

\* Each integration has then had its job, and a job that did not fail for good saw to
\* every repository.
LinksServed ==
  DiscoveryAtRest =>
    \A l \in Links \ unqueued : Exists(l) =>
      \E f \in Finds : /\ find[f].link = l /\ find[f].state \in {"completed", "failed"}
                       /\ find[f].state = "failed" \/ f \in shifted \/ must[f] \subseteq handled[f]

\* The safety half of ConnectedIsDiscovered, however callbacks, workers and crashes follow
\* each other: when nothing is under way no integration was forgotten, but for those whose
\* job was never queued; and a discovery that did not fail saw every repository, unless the
\* installation lost one while the pages were read.
THEOREM NoLinkForgotten == DiscoverySpec => []LinksServed
<1>1. DiscoveryInv /\ InHand => LinksServed
  <2> SUFFICES ASSUME DiscoveryInv, InHand, DiscoveryAtRest,
                      NEW l \in Links, l \notin unqueued, Exists(l)
               PROVE  \E f \in Finds :
                        /\ find[f].link = l /\ find[f].state \in {"completed", "failed"}
                        /\ find[f].state = "failed" \/ f \in shifted \/ must[f] \subseteq handled[f]
    BY DEF LinksServed
  <2>1. PICK f \in Finds : find[f].state # "none" /\ find[f].link = l
    BY DEF InHand, LinksInHand, DiscoveryAtRest
  <2>2. find[f].state # "active"
    BY DEF InHand, JobsInHand, DiscoveryAtRest
  <2>3. find[f].state \in {"completed", "failed"}
    BY <2>1, <2>2 DEF DiscoveryAtRest, DiscoveryInv, DiscoveryTypes, FindRecords
  <2>4. find[f].state = "completed" /\ f \notin shifted => must[f] \subseteq handled[f]
    BY DEF DiscoveryInv, JobsSaw, SavedPage, AllBut
  <2> QED BY <2>1, <2>3, <2>4
<1> QED BY <1>1, DiscoveryInvariant, InHandInitially, InHandStep, PTL DEF DiscoverySpec

HIDE DiscoveryAssumption

=============================================================================
