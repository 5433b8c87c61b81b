-------------------------- MODULE Accounts_proofs ---------------------------
(***************************************************************************)
(* What stands behind an account, for every value of the constants: the first *)
(* sign-in, the paid plan, how long runs are kept - and, with the proofs about *)
(* sessions, plan limits and discovery, the types and the limits of MCAccounts, *)
(* where each component behaves as its own specification says.             *)
(***************************************************************************)
EXTENDS MCAccounts, Sessions_proofs, PlanLimits_proofs, Discovery_proofs

-----------------------------------------------------------------------------
(* The first sign-in (Bootstrap).                                           *)

USE BootstrapAssumption

VisitSteps == {"idle", "count", "find", "write", "workspace", "owner", "session"}
Visits == [step : VisitSteps, person : People \cup {Nobody}, first : BOOLEAN, known : BOOLEAN]

\* A callback in progress is somebody's, and of a user once the row is written.
Persons ==
  \A q \in SignIns :
    /\ ~VisitAt(q, "idle") => visit[q].person \in People
    /\ visit[q].step \in {"workspace", "owner", "session"} => visit[q].person \in accounts

BootstrapTypes == BootstrapTypeOK /\ Persons

LEMMA NoVisitType == NoVisit \in Visits /\ NoVisit.step = "idle"
BY DEF NoVisit, Visits, VisitSteps

\* What a step of one callback does to the others, and to its own.
LEMMA OneVisit ==
  ASSUME BootstrapTypeOK, NEW q \in SignIns, NEW v \in Visits,
         visit' = [visit EXCEPT ![q] = v]
  PROVE  /\ visit' \in [SignIns -> Visits]
         /\ visit'[q] = v
         /\ \A p \in SignIns \ {q} : visit'[p] = visit[p]
BY DEF BootstrapTypeOK, Visits, VisitSteps

LEMMA BootstrapStart == BootstrapInit => BootstrapTypes
<1> SUFFICES ASSUME BootstrapInit PROVE BootstrapTypes
  OBVIOUS
<1>1. visit \in [SignIns -> Visits] /\ \A q \in SignIns : visit[q].step = "idle"
  BY NoVisitType DEF BootstrapInit
<1>2. BootstrapTypeOK
  <2>1. accounts \in SUBSET People /\ owners \in SUBSET People /\ served \in SUBSET People
    BY DEF BootstrapInit
  <2>2. myWorkspace \in BOOLEAN
    BY DEF BootstrapInit
  <2>3. signInFaults \in 0 .. MaxSignInFaults
    BY DEF BootstrapInit
  <2> QED BY <1>1, <2>1, <2>2, <2>3 DEF BootstrapTypeOK, Visits, VisitSteps
<1>3. Persons
  BY <1>1 DEF Persons, VisitAt
<1> QED BY <1>2, <1>3 DEF BootstrapTypes

LEMMA VisitType ==
  ASSUME BootstrapTypes, NEW q \in SignIns,
         \/ Callback(q) \/ CountUsers(q) \/ FindUser(q) \/ WriteUser(q)
         \/ CreateWorkspace(q) \/ AddOwner(q) \/ StartSession(q) \/ SignInFails(q)
  PROVE  BootstrapTypes'
<1> USE NoVisitType
<1>a. visit[q] \in Visits
  BY DEF BootstrapTypes, BootstrapTypeOK, Visits, VisitSteps
<1>1. CASE Callback(q)
  <2>1. PICK p \in People :
          visit' = [visit EXCEPT ![q] = [NoVisit EXCEPT !.step = "count", !.person = p]]
    BY <1>1 DEF Callback
  <2>2. [NoVisit EXCEPT !.step = "count", !.person = p] \in Visits
    BY DEF NoVisit, Visits, VisitSteps
  <2> QED
    BY <1>1, <2>1, <2>2, OneVisit
       DEF Callback, BootstrapTypes, BootstrapTypeOK, Persons, VisitAt, Visits, VisitSteps, NoVisit
<1>2. CASE CountUsers(q)
  <2> DEFINE v == [visit[q] EXCEPT !.step = "find", !.first = (accounts = {})]
  <2>1. v \in Visits
    BY <1>a DEF Visits, VisitSteps
  <2>2. visit' = [visit EXCEPT ![q] = v]
    BY <1>2 DEF CountUsers, BootstrapTypes, BootstrapTypeOK
  <2>3. v.step = "find" /\ v.person = visit[q].person /\ visit[q].person \in People
    BY <1>2, <1>a DEF CountUsers, BootstrapTypes, Persons, VisitAt, Visits
  <2> HIDE DEF v
  <2>4. BootstrapTypeOK'
    BY <1>2, <2>1, <2>2, OneVisit DEF CountUsers, BootstrapTypes, BootstrapTypeOK, Visits, VisitSteps
  <2>5. Persons'
    BY <1>2, <2>1, <2>2, <2>3, OneVisit DEF CountUsers, BootstrapTypes, Persons, VisitAt
  <2> QED BY <2>4, <2>5 DEF BootstrapTypes
<1>3. CASE FindUser(q)
  <2>0. (visit[q].person \in accounts) \in BOOLEAN
    OBVIOUS
  <2>1. [visit[q] EXCEPT !.step = "write", !.known = (visit[q].person \in accounts)] \in Visits
    BY <1>a, <2>0 DEF Visits, VisitSteps
  <2>2. visit' = [visit EXCEPT ![q] =
                    [visit[q] EXCEPT !.step = "write", !.known = (visit[q].person \in accounts)]]
    BY <1>3 DEF FindUser, BootstrapTypes, BootstrapTypeOK
  <2> QED
    BY <1>3, <1>a, <2>1, <2>2, OneVisit
       DEF FindUser, BootstrapTypes, BootstrapTypeOK, Persons, VisitAt, Visits, VisitSteps
<1>4. CASE WriteUser(q)
  <2>1. PICK v \in Visits :
          /\ visit' = [visit EXCEPT ![q] = v]
          /\ v.step # "idle" => v.person = visit[q].person
    <3>1. CASE VisitEnds(q)
      BY <3>1 DEF VisitEnds
    <3>2. CASE ~VisitEnds(q)
      <4>1. PICK s \in {"workspace", "session"} : VisitGoto(q, s)
        BY <1>4, <3>2 DEF WriteUser
      <4>2. [visit[q] EXCEPT !.step = s] \in Visits
        BY <1>a DEF Visits, VisitSteps
      <4> QED BY <1>a, <4>1, <4>2 DEF VisitGoto, Visits, BootstrapTypes, BootstrapTypeOK
    <3> QED BY <3>1, <3>2
  <2>2. accounts' = accounts \cup {visit[q].person} /\ visit[q].person \in People
    BY <1>4 DEF WriteUser, BootstrapTypes, Persons, VisitAt
  <2> QED
    BY <1>4, <1>a, <2>1, <2>2, OneVisit
       DEF WriteUser, BootstrapTypes, BootstrapTypeOK, Persons, VisitAt, Visits, VisitSteps
<1>5. CASE CreateWorkspace(q)
  <2>1. [visit[q] EXCEPT !.step = "owner"] \in Visits
    BY <1>a DEF Visits, VisitSteps
  <2>2. \/ visit' = [visit EXCEPT ![q] = NoVisit]
        \/ visit' = [visit EXCEPT ![q] = [visit[q] EXCEPT !.step = "owner"]]
    BY <1>5 DEF CreateWorkspace, VisitEnds, VisitGoto, BootstrapTypes, BootstrapTypeOK
  <2> QED
    BY <1>5, <1>a, <2>1, <2>2, OneVisit
       DEF CreateWorkspace, BootstrapTypes, BootstrapTypeOK, Persons, VisitAt, Visits, VisitSteps
<1>6. CASE AddOwner(q)
  <2>1. [visit[q] EXCEPT !.step = "session"] \in Visits
    BY <1>a DEF Visits, VisitSteps
  <2>2. visit' = [visit EXCEPT ![q] = [visit[q] EXCEPT !.step = "session"]]
    BY <1>6 DEF AddOwner, VisitGoto, BootstrapTypes, BootstrapTypeOK
  <2> QED
    BY <1>6, <1>a, <2>1, <2>2, OneVisit
       DEF AddOwner, BootstrapTypes, BootstrapTypeOK, Persons, VisitAt, Visits, VisitSteps
<1>7. CASE StartSession(q)
  BY <1>7, <1>a, OneVisit
     DEF StartSession, VisitEnds, BootstrapTypes, BootstrapTypeOK, Persons, VisitAt, Visits, VisitSteps
<1>8. CASE SignInFails(q)
  BY <1>8, <1>a, OneVisit
     DEF SignInFails, VisitEnds, BootstrapTypes, BootstrapTypeOK, Persons, VisitAt, Visits, VisitSteps
<1> QED BY <1>1, <1>2, <1>3, <1>4, <1>5, <1>6, <1>7, <1>8

LEMMA BootstrapNextTypes ==
  ASSUME BootstrapTypes, [BootstrapNext]_bootstrapVars
  PROVE  BootstrapTypes'
<1>1. CASE BootstrapNext
  <2>1. PICK q \in SignIns :
          \/ Callback(q) \/ CountUsers(q) \/ FindUser(q) \/ WriteUser(q)
          \/ CreateWorkspace(q) \/ AddOwner(q) \/ StartSession(q) \/ SignInFails(q)
    BY <1>1 DEF BootstrapNext
  <2> QED BY <2>1, VisitType
<1>2. CASE UNCHANGED bootstrapVars
  BY <1>2 DEF bootstrapVars, BootstrapTypes, BootstrapTypeOK, Persons, VisitAt
<1> QED BY <1>1, <1>2

\* Every variable keeps its type, whoever signs in and whatever fails.
THEOREM BootstrapTypesKept == BootstrapSpec => []BootstrapTypeOK
<1>1. BootstrapTypes => BootstrapTypeOK
  BY DEF BootstrapTypes
<1> QED BY BootstrapStart, BootstrapNextTypes, <1>1, PTL DEF BootstrapSpec

-----------------------------------------------------------------------------
(* The bootstrap happens once.                                              *)

\* Only the callback that inserted the workspace adds an owner, and it has not
\* done so yet.
OnceOnly ==
  /\ ~myWorkspace => owners = {}
  /\ \A q \in SignIns : VisitAt(q, "owner") => myWorkspace /\ owners = {}
  /\ \A p, q \in SignIns : VisitAt(p, "owner") /\ VisitAt(q, "owner") => p = q
  /\ \A x, y \in owners : x = y

ServedSignedIn == owners \cup served \subseteq accounts

LEMMA OnceKept ==
  ASSUME BootstrapTypes, OnceOnly, ServedSignedIn, [BootstrapNext]_bootstrapVars
  PROVE  OnceOnly' /\ ServedSignedIn'
<1> USE NoVisitType
<1>1. CASE BootstrapNext
  <2>1. PICK q \in SignIns :
          \/ Callback(q) \/ CountUsers(q) \/ FindUser(q) \/ WriteUser(q)
          \/ CreateWorkspace(q) \/ AddOwner(q) \/ StartSession(q) \/ SignInFails(q)
    BY <1>1 DEF BootstrapNext
  <2>a. visit \in [SignIns -> Visits]
    BY DEF BootstrapTypes, BootstrapTypeOK, Visits, VisitSteps
  <2>2. CASE Callback(q)
    BY <2>a, <2>2 DEF Callback, OnceOnly, ServedSignedIn, VisitAt, Visits, NoVisit
  <2>3. CASE CountUsers(q)
    BY <2>a, <2>3 DEF CountUsers, OnceOnly, ServedSignedIn, VisitAt, Visits
  <2>4. CASE FindUser(q)
    BY <2>a, <2>4 DEF FindUser, OnceOnly, ServedSignedIn, VisitAt, Visits
  <2>5. CASE WriteUser(q)
    <3>1. CASE VisitEnds(q)
      BY <2>a, <2>5, <3>1 DEF WriteUser, VisitEnds, OnceOnly, ServedSignedIn, VisitAt, Visits
    <3>2. CASE ~VisitEnds(q)
      <4>1. PICK s \in {"workspace", "session"} : VisitGoto(q, s)
        BY <2>5, <3>2 DEF WriteUser
      <4> QED BY <2>a, <2>5, <4>1 DEF WriteUser, VisitGoto, OnceOnly, ServedSignedIn, VisitAt, Visits
    <3> QED BY <3>1, <3>2
  <2>6. CASE CreateWorkspace(q)
    <3>1. CASE myWorkspace
      BY <2>a, <2>6, <3>1 DEF CreateWorkspace, VisitEnds, OnceOnly, ServedSignedIn, VisitAt, Visits
    <3>2. CASE ~myWorkspace
      BY <2>a, <2>6, <3>2 DEF CreateWorkspace, VisitGoto, OnceOnly, ServedSignedIn, VisitAt, Visits
    <3> QED BY <3>1, <3>2
  <2>7. CASE AddOwner(q)
    <3>1. /\ owners = {} /\ owners' = {visit[q].person}
          /\ visit[q].person \in accounts /\ UNCHANGED <<accounts, myWorkspace, served>>
      BY <2>7 DEF AddOwner, OnceOnly, BootstrapTypes, Persons, VisitAt
    <3>2. \A p \in SignIns : ~VisitAt(p, "owner")'
      BY <2>a, <2>7 DEF AddOwner, VisitGoto, OnceOnly, VisitAt, Visits
    <3>3. myWorkspace
      BY <2>7 DEF AddOwner, OnceOnly
    <3> QED BY <3>1, <3>2, <3>3 DEF OnceOnly, ServedSignedIn
  <2>8. CASE StartSession(q)
    BY <2>a, <2>8 DEF StartSession, VisitEnds, OnceOnly, ServedSignedIn, VisitAt, Visits, BootstrapTypes, Persons
  <2>9. CASE SignInFails(q)
    BY <2>a, <2>9 DEF SignInFails, VisitEnds, OnceOnly, ServedSignedIn, VisitAt, Visits
  <2> QED BY <2>1, <2>2, <2>3, <2>4, <2>5, <2>6, <2>7, <2>8, <2>9
<1>2. CASE UNCHANGED bootstrapVars
  BY <1>2 DEF bootstrapVars, OnceOnly, ServedSignedIn, VisitAt
<1> QED BY <1>1, <1>2

\* However many first sign-ins overlap and fail, at most one person becomes owner
\* by signing in, and whoever is an owner or was served has an account.
THEOREM BootstrapHappensOnce == BootstrapSpec => []BootstrapOnce
<1>1. BootstrapInit => OnceOnly /\ ServedSignedIn
  BY NoVisitType DEF BootstrapInit, OnceOnly, ServedSignedIn, VisitAt
<1>2. OnceOnly /\ ServedSignedIn => BootstrapOnce
  <2> SUFFICES ASSUME OnceOnly, ServedSignedIn PROVE Cardinality(owners) <= 1
    BY DEF BootstrapOnce, ServedSignedIn
  <2>1. CASE owners = {}
    BY <2>1, FS_EmptySet
  <2>2. CASE owners # {}
    <3>1. PICK x \in owners : TRUE
      BY <2>2
    <3>2. owners = {x}
      BY <3>1 DEF OnceOnly
    <3>3. Cardinality({x}) = 1
      BY FS_Singleton
    <3> QED BY <3>2, <3>3
  <2> QED BY <2>1, <2>2
<1> QED BY BootstrapStart, BootstrapNextTypes, OnceKept, <1>1, <1>2, PTL DEF BootstrapSpec

-----------------------------------------------------------------------------
(* The first user owns the workspace.                                       *)

\* While there is no user, every callback has seen none; once there is one, and
\* nothing failed, somebody is on the way to the workspace and then to its owner.
Bootstrapping ==
  /\ accounts = {} => \A q \in SignIns :
       /\ visit[q].step \in {"find", "write"} => visit[q].first /\ ~visit[q].known
       /\ visit[q].step \notin {"workspace", "owner", "session"}
  /\ \A q \in SignIns : VisitAt(q, "find") => ~visit[q].known
  /\ \A q \in SignIns : VisitAt(q, "count") => ~visit[q].known
  /\ signInFaults = 0 /\ accounts # {} =>
       myWorkspace \/ \E q \in SignIns : VisitAt(q, "workspace")
  /\ signInFaults = 0 /\ myWorkspace =>
       owners # {} \/ \E q \in SignIns : VisitAt(q, "owner")

\* A callback that is at none of these steps before is not who is on the way.
LEMMA StillThere ==
  ASSUME NEW q \in SignIns, NEW step, ~VisitAt(q, step),
         \A p \in SignIns \ {q} : visit'[p] = visit[p],
         \E p \in SignIns : VisitAt(p, step)
  PROVE  \E p \in SignIns : VisitAt(p, step)'
BY DEF VisitAt

LEMMA BootstrappingKept ==
  ASSUME BootstrapTypes, Bootstrapping, [BootstrapNext]_bootstrapVars
  PROVE  Bootstrapping'
<1> USE NoVisitType
<1>1. CASE BootstrapNext
  <2>1. PICK q \in SignIns :
          \/ Callback(q) \/ CountUsers(q) \/ FindUser(q) \/ WriteUser(q)
          \/ CreateWorkspace(q) \/ AddOwner(q) \/ StartSession(q) \/ SignInFails(q)
    BY <1>1 DEF BootstrapNext
  <2>a. visit \in [SignIns -> Visits]
    BY DEF BootstrapTypes, BootstrapTypeOK, Visits, VisitSteps
  <2>2. CASE Callback(q)
    BY <2>a, <2>2 DEF Callback, Bootstrapping, VisitAt, Visits, NoVisit
  <2>3. CASE CountUsers(q)
    BY <2>a, <2>3 DEF CountUsers, Bootstrapping, VisitAt, Visits
  <2>4. CASE FindUser(q)
    BY <2>a, <2>4 DEF FindUser, Bootstrapping, VisitAt, Visits
  <2>5. CASE WriteUser(q)
    <3>1. CASE accounts = {}
      <4>1. VisitGoto(q, "workspace")
        BY <2>5, <3>1 DEF WriteUser, Bootstrapping, VisitAt
      <4> QED BY <2>a, <2>5, <4>1 DEF WriteUser, VisitGoto, Bootstrapping, VisitAt, Visits
    <3>2. CASE accounts # {} /\ VisitEnds(q)
      BY <2>a, <2>5, <3>2 DEF WriteUser, VisitEnds, Bootstrapping, VisitAt, Visits
    <3>3. CASE accounts # {} /\ ~VisitEnds(q)
      <4>1. PICK s \in {"workspace", "session"} : VisitGoto(q, s)
        BY <2>5, <3>3 DEF WriteUser
      <4> QED BY <2>a, <2>5, <3>3, <4>1 DEF WriteUser, VisitGoto, Bootstrapping, VisitAt, Visits
    <3> QED BY <3>1, <3>2, <3>3
  <2>6. CASE CreateWorkspace(q)
    <3>1. CASE myWorkspace
      BY <2>a, <2>6, <3>1 DEF CreateWorkspace, VisitEnds, Bootstrapping, VisitAt, Visits
    <3>2. CASE ~myWorkspace
      BY <2>a, <2>6, <3>2 DEF CreateWorkspace, VisitGoto, Bootstrapping, VisitAt, Visits
    <3> QED BY <3>1, <3>2
  <2>7. CASE AddOwner(q)
    BY <2>a, <2>7 DEF AddOwner, VisitGoto, Bootstrapping, VisitAt, Visits
  <2>8. CASE StartSession(q)
    BY <2>a, <2>8 DEF StartSession, VisitEnds, Bootstrapping, VisitAt, Visits
  <2>9. CASE SignInFails(q)
    <3>1. signInFaults' # 0
      BY <2>9 DEF SignInFails, BootstrapTypes, BootstrapTypeOK
    <3> QED BY <2>a, <2>9, <3>1 DEF SignInFails, VisitEnds, Bootstrapping, VisitAt, Visits
  <2> QED BY <2>1, <2>2, <2>3, <2>4, <2>5, <2>6, <2>7, <2>8, <2>9
<1>2. CASE UNCHANGED bootstrapVars
  BY <1>2 DEF bootstrapVars, Bootstrapping, VisitAt
<1> QED BY <1>1, <1>2

\* However many first sign-ins overlap: if none failed and none is under way, a
\* community edition that has users has the workspace and its owner.
THEOREM FirstUserBecomesOwner == BootstrapSpec => []FirstUserOwns
<1>1. BootstrapInit => Bootstrapping
  BY NoVisitType DEF BootstrapInit, Bootstrapping, VisitAt
<1>2. Bootstrapping => FirstUserOwns
  BY DEF Bootstrapping, FirstUserOwns, VisitAt
<1> QED BY BootstrapStart, BootstrapNextTypes, BootstrappingKept, <1>1, <1>2, PTL DEF BootstrapSpec

\* The bootstrap gives the workspace an owner, and one only.
THEOREM BootstrapIsSound == BootstrapSpec => []BootstrapHolds
<1>1. FirstUserOwns /\ BootstrapOnce => BootstrapHolds
  BY DEF BootstrapHolds
<1> QED BY FirstUserBecomesOwner, BootstrapHappensOnce, <1>1, PTL

HIDE BootstrapAssumption

-----------------------------------------------------------------------------
(* The paid plan (Billing).                                                 *)

USE BillingAssumption

SpaceRecords == [plan : Plans, customer : Customers \cup {Nil}, sub : Subs \cup {Nil}]
ShopRecords == [step : {"idle", "create", "save", "pay"}, plan : Plans,
                customer : Customers \cup {Nil}]
DeliveryRecords == [busy : BOOLEAN, event : SUBSET Events]

BillingTypes ==
  /\ space \in SpaceRecords
  /\ subs \in [Subs -> Prices \cup {"free"}]
  /\ payer \in [Subs -> Customers \cup {Nil}]
  /\ customers \in 0 .. Cardinality(Shoppers) + 1
  /\ events \in SUBSET Events
  /\ made \in Nat /\ newest \in Nat
  /\ shop \in [Shoppers -> ShopRecords]
  /\ delivery \in [Deliveries -> DeliveryRecords]
  /\ disordered \in BOOLEAN
  /\ changes \in 0 .. MaxChanges /\ billingFaults \in 0 .. MaxBillingFaults

\* A checkout that is under way is for a plan, and from the customer's creation on
\* for a customer; what is paid for has a payer; and a webhook request that goes on
\* has an event with something to write.
ShopsReady ==
  /\ \A q \in Shoppers :
       /\ shop[q].step # "idle" => shop[q].plan \in PaidPlans
       /\ shop[q].step \in {"save", "pay"} => shop[q].customer # Nil
  /\ \A s \in Subs : subs[s] # "free" => payer[s] # Nil
  /\ \A d \in Deliveries : \A e \in delivery[d].event : NamesPlan(e)

\* Events not yet answered, and those being handled.
OpenEvents == events \cup UNION {delivery[d].event : d \in Deliveries}

\* What an event says, if anything, is what Stripe holds.
Tells(e) ==
  IF e.kind = "deleted" THEN Active = {}
  ELSE Active = {e.sub} /\ (NamesPlan(e) => subs[e.sub] = e.plan)

\* The row says what Stripe holds, as far as the price is known.
RowTells ==
  /\ Active = {} => space.plan = "free" /\ space.sub = Nil
  /\ \A s \in Active : space.sub = s /\ (subs[s] # Unknown => space.plan = subs[s])

\* One sign-up at a time, and one customer: an open event is of the past, or tells
\* what Stripe holds; and the last one is open, or is what the row says.
EventsFit ==
  \A e \in OpenEvents : e.customer = space.customer /\ e.no <= made /\ (e.no = made => Tells(e))
LastTold ==
  \/ newest = made /\ RowTells
  \/ \E e \in events : e.no = made /\ NamesPlan(e)
InOrder ==
  /\ \A s, t \in Active : s = t
  /\ \A s \in Subs : payer[s] \in {Nil, space.customer}
  /\ \A q \in Shoppers : shop[q].step = "pay" => shop[q].customer = space.customer
  /\ EventsFit /\ LastTold
  /\ newest <= made

BillingInv == BillingTypes /\ ShopsReady /\ (~disordered => InOrder)

-----------------------------------------------------------------------------

LEMMA BillingTypesAre == BillingTypeOK <=> BillingTypes
BY Zenon DEF BillingTypeOK, BillingTypes, SpaceRecords, ShopRecords, DeliveryRecords

LEMMA CustomersKnown == Cardinality(Shoppers) \in Nat /\ Nil \notin Customers
<1>1. Cardinality(Shoppers) \in Nat
  BY FS_CardinalityType
<1> QED BY <1>1 DEF Customers, Nil

LEMMA BillingStart == BillingInit => BillingInv
<1> SUFFICES ASSUME BillingInit PROVE BillingInv
  OBVIOUS
<1>1. space \in SpaceRecords /\ shop \in [Shoppers -> ShopRecords]
  BY DEF BillingInit, SpaceRecords, ShopRecords, Plans, NoShop
<1>2. delivery \in [Deliveries -> DeliveryRecords] /\ \A d \in Deliveries : delivery[d].event = {}
  BY DEF BillingInit, DeliveryRecords, NoDelivery
<1>3. disordered \in BOOLEAN
  BY Zenon DEF BillingInit
<1>4. BillingTypes
  BY <1>1, <1>2, <1>3, CustomersKnown DEF BillingTypes, BillingInit, Plans
<1>5. ShopsReady
  BY <1>2 DEF BillingInit, ShopsReady, NoShop
<1>6. Active = {} /\ OpenEvents = {}
  BY <1>2 DEF BillingInit, Active, OpenEvents
<1>7. InOrder
  <2>1. \A q \in Shoppers : shop[q].step # "pay"
    BY DEF BillingInit, NoShop
  <2>2. RowTells /\ newest = made /\ newest <= made
    BY <1>6 DEF BillingInit, RowTells
  <2>3. \A s \in Subs : payer[s] = Nil
    BY DEF BillingInit
  <2> QED BY <1>6, <2>1, <2>2, <2>3 DEF InOrder, EventsFit, LastTold
<1> QED BY <1>4, <1>5, <1>7 DEF BillingInv

\* A checkout step that leaves the customer and Stripe as they are.
LEMMA ShopStep ==
  ASSUME BillingInv, NEW q \in Shoppers, NEW x \in ShopRecords, shop' = [shop EXCEPT ![q] = x],
         x.step # "idle" => x.plan \in PaidPlans,
         x.step \in {"save", "pay"} => x.customer # Nil,
         x.step = "pay" => x.customer = space.customer,
         customers' \in 0 .. Cardinality(Shoppers) + 1,
         UNCHANGED <<space, disordered, stripeVars, deliveryVars>>
  PROVE  BillingInv'
<1> USE DEF stripeVars, deliveryVars
<1>1. \A p \in Shoppers : shop'[p] = IF p = q THEN x ELSE shop[p]
  BY DEF BillingInv, BillingTypes
<1>2. BillingTypes'
  BY DEF BillingInv, BillingTypes
<1>3. ShopsReady'
  BY <1>1 DEF BillingInv, ShopsReady
<1>4. ~disordered => InOrder'
  BY <1>1 DEF BillingInv, InOrder, EventsFit, LastTold, OpenEvents, Tells, RowTells, Active
<1> QED BY <1>2, <1>3, <1>4 DEF BillingInv

LEMMA StartCheckoutKeeps ==
  ASSUME BillingInv, NEW q \in Shoppers, StartCheckout(q)
  PROVE  BillingInv'
<1>1. PICK p \in PaidPlans :
        shop' = [shop EXCEPT ![q] =
          [step |-> IF space.customer = Nil THEN "create" ELSE "pay",
           plan |-> p, customer |-> space.customer]]
  BY DEF StartCheckout
<1> DEFINE x == [step |-> IF space.customer = Nil THEN "create" ELSE "pay",
                 plan |-> p, customer |-> space.customer]
<1>2. x \in ShopRecords
  BY DEF BillingInv, BillingTypes, SpaceRecords, ShopRecords, Plans
<1>3. /\ x.plan \in PaidPlans /\ x.step # "save" /\ x.customer = space.customer
      /\ x.step = "pay" => x.customer # Nil
  OBVIOUS
<1>4. shop' = [shop EXCEPT ![q] = x]
  BY <1>1
<1> HIDE DEF x
<1>5. UNCHANGED <<space, customers, disordered, stripeVars, deliveryVars>>
  BY DEF StartCheckout
<1> QED BY <1>2, <1>3, <1>4, <1>5, ShopStep DEF BillingInv, BillingTypes

LEMMA CreateCustomerKeeps ==
  ASSUME BillingInv, NEW q \in Shoppers, CreateCustomer(q)
  PROVE  BillingInv'
<1> DEFINE y == [shop[q] EXCEPT !.step = "save"]
           x == [y EXCEPT !.customer = customers']
<1>1. shop[q] \in ShopRecords /\ shop[q].plan \in PaidPlans
  BY DEF BillingInv, BillingTypes, CreateCustomer, ShopsReady
<1>2. customers' \in 1 .. Cardinality(Shoppers) + 1 /\ customers' \in Customers
  BY CustomersKnown DEF BillingInv, BillingTypes, CreateCustomer, Customers
<1>3. y \in ShopRecords /\ y.step = "save" /\ y.plan = shop[q].plan
  BY <1>1 DEF ShopRecords
<1>4. shop' = [shop EXCEPT ![q] = x]
  BY DEF CreateCustomer, BillingInv, BillingTypes
<1>5. UNCHANGED <<space, disordered, stripeVars, deliveryVars>>
  BY DEF CreateCustomer
<1> HIDE DEF y
<1>6. x \in ShopRecords /\ x.step = "save" /\ x.plan = shop[q].plan /\ x.customer = customers'
  BY <1>2, <1>3 DEF ShopRecords
<1> HIDE DEF x
<1>7. customers' # Nil /\ customers' \in 0 .. Cardinality(Shoppers) + 1
  BY <1>2, CustomersKnown DEF Nil
<1> QED BY <1>1, <1>4, <1>5, <1>6, <1>7, ShopStep

LEMMA LeaveCheckoutKeeps ==
  ASSUME BillingInv, NEW q \in Shoppers, LeaveCheckout(q)
  PROVE  BillingInv'
<1>1. NoShop \in ShopRecords /\ NoShop.step = "idle"
  BY DEF NoShop, ShopRecords, Plans
<1>2. /\ UNCHANGED <<space, customers, disordered, stripeVars, deliveryVars>>
      /\ shop' = [shop EXCEPT ![q] = NoShop]
  BY DEF LeaveCheckout
<1> QED BY <1>1, <1>2, ShopStep DEF BillingInv, BillingTypes

\* The first customer of a workspace pays for nothing yet.
LEMMA SaveCustomerKeeps ==
  ASSUME BillingInv, NEW q \in Shoppers, SaveCustomer(q)
  PROVE  BillingInv'
<1> USE DEF stripeVars, deliveryVars
<1> DEFINE x == [shop[q] EXCEPT !.step = "pay"]
<1>1. /\ shop[q] \in ShopRecords /\ shop[q].plan \in PaidPlans /\ shop[q].customer # Nil
      /\ space \in SpaceRecords
  BY DEF BillingInv, BillingTypes, SaveCustomer, ShopsReady
<1>2. /\ space' = [space EXCEPT !.customer = shop[q].customer]
      /\ disordered' = (disordered \/ space.customer # Nil)
      /\ shop' = [shop EXCEPT ![q] = x]
      /\ UNCHANGED <<customers, stripeVars, deliveryVars>>
  BY DEF SaveCustomer
<1>3. x \in ShopRecords /\ x.step = "pay" /\ x.plan = shop[q].plan /\ x.customer = shop[q].customer
  BY <1>1 DEF ShopRecords
<1> HIDE DEF x
<1>4. /\ space' \in SpaceRecords /\ space'.customer = shop[q].customer
      /\ space'.plan = space.plan /\ space'.sub = space.sub
  BY <1>1, <1>2 DEF SpaceRecords, ShopRecords
<1>5. \A p \in Shoppers : shop'[p] = IF p = q THEN x ELSE shop[p]
  BY <1>2 DEF BillingInv, BillingTypes
<1>6. disordered' \in BOOLEAN
  BY <1>2, Zenon DEF BillingInv, BillingTypes
<1>7. BillingTypes'
  BY <1>2, <1>3, <1>4, <1>6 DEF BillingInv, BillingTypes
<1>8. ShopsReady'
  BY <1>1, <1>2, <1>3, <1>5 DEF BillingInv, ShopsReady
<1>9. ASSUME ~disordered' PROVE InOrder'
  <2>1. InOrder /\ space.customer = Nil
    BY <1>2, <1>9 DEF BillingInv
  <2>2. \A s \in Subs : payer[s] = Nil
    BY <2>1 DEF InOrder, EventsFit, LastTold
  <2>3. Active = {} /\ Active' = {}
    BY <1>2, <2>2 DEF BillingInv, ShopsReady, Active
  <2>4. \A e \in OpenEvents : FALSE
    <3>1. \A e \in OpenEvents : e \in Events
      BY DEF OpenEvents, BillingInv, BillingTypes, DeliveryRecords
    <3>2. \A e \in OpenEvents : e.customer = Nil
      BY <2>1 DEF InOrder, EventsFit, LastTold
    <3>3. \A e \in Events : e.customer # Nil
      BY CustomersKnown DEF Events
    <3> QED BY <3>1, <3>2, <3>3
  <2>5. OpenEvents' = {} /\ events' = {} /\ events = {}
    BY <1>2, <2>4 DEF OpenEvents
  <2>6. \A p \in Shoppers : shop[p].step # "pay"
    BY <2>1 DEF InOrder, EventsFit, LastTold, BillingInv, ShopsReady
  <2>7. RowTells' /\ newest' = made' /\ newest' <= made'
    BY <1>2, <1>4, <2>1, <2>3, <2>5 DEF InOrder, EventsFit, LastTold, RowTells
  <2> QED BY <1>2, <1>3, <1>4, <1>5, <2>2, <2>3, <2>5, <2>6, <2>7 DEF InOrder, EventsFit, LastTold
<1> QED BY <1>7, <1>8, <1>9 DEF BillingInv

\* A sign-up adds the latest events, about the only subscription in force.
LEMMA SignUpKeeps ==
  ASSUME BillingInv, NEW s \in Subs, NEW p \in Prices, NEW c \in Customers, NEW New \in SUBSET Events,
         subs' = [subs EXCEPT ![s] = p], payer' = [payer EXCEPT ![s] = c],
         events' = events \cup New,
         \A e \in New : /\ e.no = made + 1 /\ e.kind # "deleted" /\ e.sub = s /\ e.customer = c
                        /\ NamesPlan(e) => e.plan = p,
         \E e \in New : NamesPlan(e),
         ~disordered => c = space.customer,
         shop' \in [Shoppers -> ShopRecords],
         \A q \in Shoppers : shop'[q] = shop[q] \/ shop'[q].step = "idle",
         made' = made + 1, disordered' = (disordered \/ Active # {}),
         changes' \in 0 .. MaxChanges,
         UNCHANGED <<space, customers, delivery, newest, billingFaults>>
  PROVE  BillingInv'
<1>1. made \in Nat /\ made + 1 \in Nat
  BY DEF BillingInv, BillingTypes
<1>2. p # "free" /\ c # Nil
  BY CustomersKnown DEF Prices, Unknown
<1>3. \A r \in Subs : /\ subs'[r] = IF r = s THEN p ELSE subs[r]
                      /\ payer'[r] = IF r = s THEN c ELSE payer[r]
  BY DEF BillingInv, BillingTypes
<1>4. disordered' \in BOOLEAN
  BY Zenon DEF BillingInv, BillingTypes
<1>5. BillingTypes'
  <2>1. subs' \in [Subs -> Prices \cup {"free"}] /\ payer' \in [Subs -> Customers \cup {Nil}]
    BY DEF BillingInv, BillingTypes
  <2>2. events' \in SUBSET Events
    BY DEF BillingInv, BillingTypes
  <2> QED BY <1>1, <1>4, <2>1, <2>2 DEF BillingInv, BillingTypes
<1>6. ShopsReady'
  BY <1>2, <1>3 DEF BillingInv, ShopsReady
<1>7. ASSUME ~disordered' PROVE InOrder'
  <2>1. InOrder /\ Active = {} /\ c = space.customer
    BY <1>7 DEF BillingInv
  <2>2. \A r \in Subs : subs'[r] # "free" <=> r = s
    BY <1>2, <1>3, <2>1 DEF Active
  <2>3. Active' = {s} /\ subs'[s] = p
    BY <1>3, <2>2 DEF Active
  <2>4. OpenEvents' = OpenEvents \cup New
    BY DEF OpenEvents
  <2>5. \A e \in OpenEvents' : /\ e.customer = space'.customer /\ e.no <= made'
                               /\ e.no = made' => Tells(e)'
    <3>1. ASSUME NEW e \in OpenEvents
          PROVE  e.customer = space'.customer /\ e.no <= made' /\ e.no # made'
      <4>1. e \in Events
        BY DEF OpenEvents, BillingInv, BillingTypes, DeliveryRecords
      <4>2. e.no \in Nat
        BY <4>1 DEF Events
      <4>3. e.customer = space.customer /\ e.no <= made
        BY <2>1 DEF InOrder, EventsFit
      <4> QED BY <1>1, <4>2, <4>3
    <3>2. ASSUME NEW e \in New
          PROVE  e.customer = space'.customer /\ e.no <= made' /\ Tells(e)'
      <4>1. Tells(e)'
        BY <2>3 DEF Tells
      <4> QED BY <1>1, <2>1, <4>1
    <3> QED BY <2>4, <3>1, <3>2
  <2>6. \E e \in events' : e.no = made' /\ NamesPlan(e)
    OBVIOUS
  <2>7. newest' <= made'
    BY <1>1, <2>1 DEF InOrder, BillingInv, BillingTypes
  <2>8. \A r \in Subs : payer'[r] \in {Nil, space'.customer}
    BY <1>3, <2>1 DEF InOrder
  <2>9. \A q \in Shoppers : shop'[q].step = "pay" => shop'[q].customer = space'.customer
    BY <2>1 DEF InOrder
  <2>10. \A r, t \in Active' : r = t
    BY <2>3
  <2>11. EventsFit' /\ LastTold'
    BY <2>5, <2>6 DEF EventsFit, LastTold
  <2> QED BY <2>7, <2>8, <2>9, <2>10, <2>11 DEF InOrder
<1> QED BY <1>5, <1>6, <1>7 DEF BillingInv

LEMMA PayKeeps ==
  ASSUME BillingInv, NEW q \in Shoppers, Pay(q)
  PROVE  BillingInv'
<1> DEFINE New(s) == [no : {made + 1}, kind : {"completed", "synced"}, sub : {s},
                      plan : {shop[q].plan}, customer : {shop[q].customer}]
<1>1. PICK s \in Subs :
        /\ subs' = [subs EXCEPT ![s] = shop[q].plan]
        /\ payer' = [payer EXCEPT ![s] = shop[q].customer]
        /\ events' = events \cup New(s)
  BY DEF Pay
<1>2. /\ made' = made + 1
      /\ disordered' = (disordered \/ Active # {})
      /\ shop' = [shop EXCEPT ![q] = NoShop]
      /\ UNCHANGED <<space, customers, changes, delivery, newest, billingFaults>>
  BY DEF Pay, deliveryVars
<1>3. /\ shop[q] \in ShopRecords /\ shop[q].plan \in PaidPlans /\ shop[q].customer # Nil
      /\ shop[q].step = "pay"
  BY DEF BillingInv, BillingTypes, ShopsReady, Pay
<1>4. shop[q].customer \in Customers /\ shop[q].plan \in Prices /\ shop[q].plan # Unknown
  BY <1>3 DEF ShopRecords, Prices
<1>5. made + 1 \in Nat /\ changes \in 0 .. MaxChanges
  BY DEF BillingInv, BillingTypes
<1>6. New(s) \in SUBSET Events
  BY <1>4, <1>5 DEF Events
<1>7. \A e \in New(s) : /\ e.no = made + 1 /\ e.kind # "deleted" /\ e.sub = s
                        /\ e.customer = shop[q].customer /\ e.plan = shop[q].plan
  OBVIOUS
<1>8. \E e \in New(s) : NamesPlan(e)
  <2>1. [no |-> made + 1, kind |-> "synced", sub |-> s, plan |-> shop[q].plan,
         customer |-> shop[q].customer] \in New(s)
    OBVIOUS
  <2> QED BY <2>1 DEF NamesPlan
<1> HIDE DEF New
<1>9. NoShop \in ShopRecords /\ NoShop.step = "idle"
  BY DEF NoShop, ShopRecords, Plans
<1>10. /\ shop' \in [Shoppers -> ShopRecords]
       /\ \A p \in Shoppers : shop'[p] = shop[p] \/ shop'[p].step = "idle"
  BY <1>2, <1>9 DEF BillingInv, BillingTypes
<1>11. ~disordered => shop[q].customer = space.customer
  BY <1>3 DEF BillingInv, InOrder
<1>12. PICK new : new = New(s)
  OBVIOUS
<1>13. /\ new \in SUBSET Events /\ events' = events \cup new
       /\ \A e \in new : /\ e.no = made + 1 /\ e.kind # "deleted" /\ e.sub = s
                         /\ e.customer = shop[q].customer
                         /\ NamesPlan(e) => e.plan = shop[q].plan
       /\ \E e \in new : NamesPlan(e)
  BY <1>1, <1>6, <1>7, <1>8, <1>12
<1>14. disordered' = (disordered \/ Active # {})
  BY <1>2, Zenon
<1> QED BY <1>1, <1>2, <1>4, <1>5, <1>10, <1>11, <1>13, <1>14, SignUpKeeps

LEMMA PayElsewhereKeeps ==
  ASSUME BillingInv, NEW s \in Subs, NEW p \in Prices, PayElsewhere(s, p)
  PROVE  BillingInv'
<1> DEFINE done == [no |-> made + 1, kind |-> "completed", sub |-> s, plan |-> Unknown,
                    customer |-> space.customer]
           told == [no |-> made + 1, kind |-> "synced", sub |-> s, plan |-> p,
                    customer |-> space.customer]
<1>1. /\ space.customer # Nil
      /\ subs' = [subs EXCEPT ![s] = p] /\ payer' = [payer EXCEPT ![s] = space.customer]
      /\ events' = events \cup {done, told}
      /\ changes < MaxChanges /\ changes' = changes + 1
      /\ made' = made + 1 /\ disordered' = (disordered \/ Active # {})
      /\ UNCHANGED <<space, customers, shop, delivery, newest, billingFaults>>
  BY DEF PayElsewhere, deliveryVars
<1>2. space.customer \in Customers /\ made + 1 \in Nat /\ changes' \in 0 .. MaxChanges
  BY <1>1 DEF BillingInv, BillingTypes, SpaceRecords
<1>3. {done, told} \in SUBSET Events
  BY <1>2 DEF Events, Prices
<1>4. /\ \A e \in {done, told} : /\ e.no = made + 1 /\ e.kind # "deleted" /\ e.sub = s
                                 /\ e.customer = space.customer
                                 /\ NamesPlan(e) => e.plan = p
      /\ \E e \in {done, told} : NamesPlan(e)
  BY DEF NamesPlan
<1>5. /\ shop' \in [Shoppers -> ShopRecords]
      /\ \A q \in Shoppers : shop'[q] = shop[q] \/ shop'[q].step = "idle"
  BY <1>1 DEF BillingInv, BillingTypes
<1> HIDE DEF done, told
<1>6. PICK new : new = {done, told}
  OBVIOUS
<1>7. /\ new \in SUBSET Events /\ events' = events \cup new
      /\ \A e \in new : /\ e.no = made + 1 /\ e.kind # "deleted" /\ e.sub = s
                        /\ e.customer = space.customer
                        /\ NamesPlan(e) => e.plan = p
      /\ \E e \in new : NamesPlan(e)
  BY <1>1, <1>3, <1>4, <1>6
<1>8. disordered' = (disordered \/ Active # {})
  BY <1>1, Zenon
<1> QED BY <1>1, <1>2, <1>5, <1>7, <1>8, SignUpKeeps

\* So does a change of plan or a cancellation.
LEMMA ChangeKeeps ==
  ASSUME BillingInv, NEW s \in Subs, NEW p \in Prices \cup {"free"}, Change(s, p)
  PROVE  BillingInv'
<1> USE DEF deliveryVars, shopVars
<1> DEFINE latest == [no |-> made + 1, kind |-> IF p = "free" THEN "deleted" ELSE "synced",
                     sub |-> s, plan |-> IF p = "free" THEN subs[s] ELSE p,
                     customer |-> payer[s]]
<1>0. PICK new : new = latest
  OBVIOUS
<1>1. /\ subs[s] # "free" /\ subs[s] # p
      /\ subs' = [subs EXCEPT ![s] = p]
      /\ events' = events \cup {new}
      /\ made' = made + 1
      /\ changes < MaxChanges /\ changes' = changes + 1
      /\ UNCHANGED <<payer, space, customers, shop, disordered, delivery, newest, billingFaults>>
  BY <1>0 DEF Change
<1>2. made \in Nat /\ made + 1 \in Nat
  BY DEF BillingInv, BillingTypes
<1>3. payer[s] # Nil /\ payer[s] \in Customers
  BY <1>1 DEF BillingInv, BillingTypes, ShopsReady
<1>4. new.plan \in Prices /\ (p # "free" => new.plan = p)
  BY <1>0, <1>1 DEF BillingInv, BillingTypes
<1>5. /\ new \in Events /\ new.no = made + 1 /\ new.sub = s /\ new.customer = payer[s]
      /\ new.kind \in {"deleted", "synced"} /\ (new.kind = "deleted" <=> p = "free")
      /\ NamesPlan(new)
  BY <1>0, <1>2, <1>3, <1>4 DEF Events, NamesPlan
<1> HIDE DEF latest
<1>6. \A r \in Subs : subs'[r] = IF r = s THEN p ELSE subs[r]
  BY <1>1 DEF BillingInv, BillingTypes
<1>7. BillingTypes'
  <2>1. subs' \in [Subs -> Prices \cup {"free"}] /\ events' \in SUBSET Events
    BY <1>1, <1>5 DEF BillingInv, BillingTypes
  <2>2. changes' \in 0 .. MaxChanges
    BY <1>1 DEF BillingInv, BillingTypes
  <2> QED BY <1>1, <1>2, <2>1, <2>2 DEF BillingInv, BillingTypes
<1>8. ShopsReady'
  BY <1>1, <1>3, <1>6 DEF BillingInv, ShopsReady
<1>9. ASSUME ~disordered' PROVE InOrder'
  <2>1. InOrder
    BY <1>1, <1>9 DEF BillingInv
  <2>2. Active = {s} /\ payer[s] = space.customer
    BY <1>1, <1>3, <2>1 DEF InOrder, EventsFit, LastTold, Active
  <2>3. Active' = IF p = "free" THEN {} ELSE {s}
    <3>1. \A r \in Subs : subs[r] # "free" <=> r = s
      BY <2>2 DEF Active
    <3>2. \A r \in Subs : subs'[r] # "free" <=> r = s /\ p # "free"
      BY <1>6, <3>1
    <3> QED BY <3>2 DEF Active
  <2>4. Tells(new)'
    <3>1. CASE p = "free"
      BY <1>5, <2>3, <3>1 DEF Tells
    <3>2. CASE p # "free"
      BY <1>4, <1>5, <1>6, <2>3, <3>2 DEF Tells
    <3> QED BY <3>1, <3>2
  <2>5. OpenEvents' = OpenEvents \cup {new}
    BY <1>1 DEF OpenEvents
  <2>6. ASSUME NEW e \in OpenEvents
        PROVE  e.customer = space'.customer /\ e.no <= made' /\ e.no # made'
    <3>1. e \in Events
      BY DEF OpenEvents, BillingInv, BillingTypes, DeliveryRecords
    <3>2. e.no \in Nat
      BY <3>1 DEF Events
    <3>3. e.customer = space.customer /\ e.no <= made
      BY <2>1 DEF InOrder, EventsFit, LastTold
    <3> QED BY <1>1, <1>2, <3>2, <3>3
  <2>7. \A e \in OpenEvents' : /\ e.customer = space'.customer /\ e.no <= made'
                               /\ e.no = made' => Tells(e)'
    <3>1. new.customer = space'.customer /\ new.no <= made'
      BY <1>1, <1>2, <1>5, <2>2
    <3>2. \A e \in {new} : /\ e.customer = space'.customer /\ e.no <= made'
                           /\ e.no = made' => Tells(e)'
      BY <2>4, <3>1, Zenon DEF Tells
    <3> QED BY <2>5, <2>6, <3>2
  <2>8. \E e \in events' : e.no = made' /\ NamesPlan(e)
    BY <1>1, <1>5
  <2>9. newest' <= made'
    BY <1>1, <1>2, <2>1 DEF InOrder, EventsFit, LastTold, BillingInv, BillingTypes
  <2>10. \A r, t \in Active' : r = t
    BY <2>3
  <2>11. \A r \in Subs : payer'[r] \in {Nil, space'.customer}
    BY <1>1, <2>1 DEF InOrder, EventsFit, LastTold
  <2>12. \A q \in Shoppers : shop'[q].step = "pay" => shop'[q].customer = space'.customer
    BY <1>1, <2>1 DEF InOrder, EventsFit, LastTold
  <2>13. EventsFit'
    BY <2>7 DEF EventsFit
  <2>14. LastTold'
    BY <2>8 DEF LastTold
  <2> QED BY <2>9, <2>10, <2>11, <2>12, <2>13, <2>14 DEF InOrder
<1> QED BY <1>7, <1>8, <1>9 DEF BillingInv

-----------------------------------------------------------------------------

\* A webhook request: Stripe and the checkouts stay, no event is opened, and the
\* last one stays open until the row says what it tells.
LEMMA DeliveryStep ==
  ASSUME BillingInv, UNCHANGED <<subs, payer, customers, made, shop, changes>>,
         space' \in SpaceRecords, events' \in SUBSET Events, newest' \in Nat,
         delivery' \in [Deliveries -> DeliveryRecords], disordered' \in BOOLEAN,
         billingFaults' \in 0 .. MaxBillingFaults,
         \A d \in Deliveries : \A e \in delivery'[d].event : NamesPlan(e),
         ~disordered' =>
           /\ ~disordered /\ OpenEvents' \subseteq OpenEvents /\ space'.customer = space.customer
           /\ newest' <= made
           /\ (newest' = made /\ RowTells') \/ \E e \in events' : e.no = made /\ NamesPlan(e)
  PROVE  BillingInv'
<1>1. BillingTypes'
  BY DEF BillingInv, BillingTypes
<1>2. ShopsReady'
  BY DEF BillingInv, ShopsReady
<1>3. ASSUME ~disordered' PROVE InOrder'
  <2>1. InOrder
    BY <1>3 DEF BillingInv
  <2>2. Active' = Active
    BY DEF Active
  <2>3. \A e \in OpenEvents' : /\ e.customer = space'.customer /\ e.no <= made'
                               /\ e.no = made' => Tells(e)'
    BY <1>3, <2>1, <2>2 DEF InOrder, EventsFit, LastTold, Tells
  <2> QED BY <1>3, <2>1, <2>2, <2>3 DEF InOrder, EventsFit, LastTold
<1> QED BY <1>1, <1>2, <1>3 DEF BillingInv

\* An event delivered in order finds its workspace, and is handled if it names a plan.
LEMMA DeliverKeeps ==
  ASSUME BillingInv, NEW d \in Deliveries, NEW e \in events, Deliver(d, e)
  PROVE  BillingInv'
<1>1. UNCHANGED <<space, subs, payer, customers, made, shop, newest, changes, billingFaults>>
  BY DEF Deliver
<1>2. /\ space \in SpaceRecords /\ events \in SUBSET Events /\ newest \in Nat
      /\ delivery \in [Deliveries -> DeliveryRecords]
      /\ billingFaults \in 0 .. MaxBillingFaults
  BY DEF BillingInv, BillingTypes
<1>3. Active' = Active /\ (RowTells => RowTells')
  BY <1>1 DEF Active, RowTells
<1>6. \A f \in events : f \in OpenEvents
  BY DEF OpenEvents
<1>7. \A c \in Deliveries : \A f \in delivery[c].event : NamesPlan(f)
  BY DEF BillingInv, ShopsReady
<1>4. CASE FindsSpace(e) /\ NamesPlan(e)
  <2>1. /\ delivery' = [delivery EXCEPT ![d] = [busy |-> TRUE, event |-> {e}]]
        /\ disordered' = (disordered \/ Stale(e)) /\ events' = events
    BY <1>4 DEF Deliver
  <2>2. disordered' \in BOOLEAN
    BY <2>1, Zenon DEF BillingInv, BillingTypes
  <2>3. delivery' \in [Deliveries -> DeliveryRecords]
    BY <1>2, <2>1 DEF DeliveryRecords
  <2>4. OpenEvents' \subseteq OpenEvents
    BY <1>2, <2>1 DEF OpenEvents
  <2>5. ~disordered' => ~disordered /\ InOrder
    BY <2>1 DEF BillingInv
  <2>6. ~disordered' =>
          /\ newest' <= made
          /\ (newest' = made /\ RowTells') \/ \E f \in events' : f.no = made /\ NamesPlan(f)
    BY <1>1, <1>3, <2>1, <2>5 DEF InOrder, EventsFit, LastTold
  <2>7. \A c \in Deliveries : \A f \in delivery'[c].event : NamesPlan(f)
    BY <1>2, <1>4, <1>7, <2>1
  <2> QED BY <1>1, <1>2, <2>1, <2>2, <2>3, <2>4, <2>5, <2>6, <2>7, DeliveryStep
<1>5. CASE ~(FindsSpace(e) /\ NamesPlan(e))
  <2>1. events' = events \ {e} /\ UNCHANGED <<delivery, disordered>>
    BY <1>5 DEF Deliver
  <2>2. disordered' \in BOOLEAN /\ events' \in SUBSET Events
    BY <1>2, <2>1, Zenon DEF BillingInv, BillingTypes
  <2>3. OpenEvents' \subseteq OpenEvents
    BY <2>1 DEF OpenEvents
  <2>4. ~disordered => InOrder
    BY DEF BillingInv
  <2>5. ~disordered => ~NamesPlan(e)
    BY <1>5, <1>6, <2>4 DEF InOrder, EventsFit, FindsSpace
  <2>6. ~disordered' =>
          /\ newest' <= made
          /\ (newest' = made /\ RowTells') \/ \E f \in events' : f.no = made /\ NamesPlan(f)
    BY <1>1, <1>3, <2>1, <2>4, <2>5 DEF InOrder, LastTold
  <2> QED BY <1>1, <1>2, <1>7, <2>1, <2>2, <2>3, <2>6, DeliveryStep
<1> QED BY <1>4, <1>5

\* An event applied in order leaves the row as it tells, and the later ones open.
LEMMA ApplyKeeps ==
  ASSUME BillingInv, NEW d \in Deliveries, Apply(d)
  PROVE  BillingInv'
<1>1. PICK e \in delivery[d].event :
        /\ space' = Applied(e)
        /\ newest' = IF e.no > newest THEN e.no ELSE newest
        /\ delivery' = [delivery EXCEPT ![d] = NoDelivery]
        /\ disordered' = (disordered \/ newest > e.no)
        /\ \/ events' = events \ {e} /\ UNCHANGED billingFaults
           \/ /\ billingFaults < MaxBillingFaults
              /\ billingFaults' = billingFaults + 1
              /\ events' = events \cup {e}
        /\ UNCHANGED <<subs, payer, customers, made, shop, changes>>
  BY DEF Apply
<1>2. /\ space \in SpaceRecords /\ events \in SUBSET Events /\ newest \in Nat /\ made \in Nat
      /\ delivery \in [Deliveries -> DeliveryRecords]
      /\ billingFaults \in 0 .. MaxBillingFaults /\ disordered \in BOOLEAN
  BY DEF BillingInv, BillingTypes
<1>3. e \in Events /\ e \in OpenEvents
  BY <1>2 DEF OpenEvents, DeliveryRecords
<1>4. /\ e.no \in Nat /\ e.kind \in {"completed", "synced", "deleted"} /\ e.sub \in Subs
      /\ e.plan \in Prices /\ e.customer \in Customers
  BY <1>3 DEF Events
<1>12. NamesPlan(e)
  BY DEF BillingInv, ShopsReady
<1>5. /\ space' \in SpaceRecords
      /\ e.kind = "deleted" => space'.plan = "free" /\ space'.sub = Nil
      /\ e.kind # "deleted" => /\ space'.sub = e.sub
                               /\ e.plan # Unknown => space'.plan = e.plan
      /\ space.customer = e.customer => space'.customer = space.customer
  <2>1. CASE e.kind = "deleted"
    BY <1>1, <1>2, <2>1 DEF Applied, SpaceRecords, Plans
  <2>2. CASE e.kind = "completed"
    BY <1>1, <1>4, <1>12, <2>2 DEF Applied, SpaceRecords, Plans, Prices, NamesPlan
  <2>3. CASE e.kind = "synced"
    <3>1. space' = [plan |-> IF e.plan = Unknown THEN space.plan ELSE e.plan, sub |-> e.sub,
            customer |-> IF space.customer = Nil THEN e.customer ELSE space.customer]
      BY <1>1, <2>3 DEF Applied
    <3> QED BY <1>2, <1>4, <2>3, <3>1 DEF SpaceRecords, Plans, Prices
  <2> QED BY <1>4, <2>1, <2>2, <2>3
<1>6. NoDelivery \in DeliveryRecords /\ NoDelivery.event = {}
  BY DEF NoDelivery, DeliveryRecords
<1>7. delivery' \in [Deliveries -> DeliveryRecords]
  BY <1>1, <1>2, <1>6
<1>8. disordered' \in BOOLEAN
  BY <1>1, Zenon
<1>9. events' \in SUBSET Events /\ OpenEvents' \subseteq OpenEvents
  BY <1>1, <1>2, <1>3, <1>6 DEF OpenEvents
<1>10. newest' \in Nat /\ billingFaults' \in 0 .. MaxBillingFaults
  BY <1>1, <1>2, <1>4
<1>11. ASSUME ~disordered'
       PROVE  /\ ~disordered /\ space'.customer = space.customer
              /\ newest' <= made
              /\ (newest' = made /\ RowTells') \/ \E f \in events' : f.no = made /\ NamesPlan(f)
  <2>1. ~disordered /\ ~(newest > e.no)
    BY <1>1, <1>11
  <2>2. InOrder
    BY <2>1 DEF BillingInv
  <2>3. e.customer = space.customer /\ e.no <= made /\ (e.no = made => Tells(e))
    BY <1>3, <2>2 DEF InOrder, EventsFit, LastTold
  <2>4. newest' = e.no
    BY <1>1, <1>2, <1>4, <2>1
  <2>5. CASE e.no = made
    <3>1. Tells(e)
      BY <2>3, <2>5
    <3>2. Active' = Active
      BY <1>1 DEF Active
    <3>3. RowTells'
      <4>1. CASE e.kind = "deleted"
        BY <1>5, <3>1, <3>2, <4>1 DEF Tells, RowTells
      <4>2. CASE e.kind # "deleted"
        BY <1>1, <1>5, <1>12, <3>1, <3>2, <4>2 DEF Tells, RowTells
      <4> QED BY <4>1, <4>2
    <3> QED BY <1>5, <2>1, <2>3, <2>4, <2>5, <3>3
  <2>6. CASE e.no # made
    <3>1. newest # made
      BY <1>2, <1>4, <2>1, <2>3, <2>6
    <3>2. PICK f \in events : f.no = made /\ NamesPlan(f)
      BY <2>2, <3>1 DEF InOrder, EventsFit, LastTold
    <3>3. f \in events'
      BY <1>1, <2>6, <3>2
    <3> QED BY <1>5, <2>1, <2>3, <2>4, <3>2, <3>3
  <2> QED BY <2>5, <2>6
<1>13. \A c \in Deliveries : \A f \in delivery'[c].event : NamesPlan(f)
  BY <1>1, <1>2, <1>6 DEF BillingInv, ShopsReady
<1> QED BY <1>1, <1>5, <1>7, <1>8, <1>9, <1>10, <1>11, <1>13, DeliveryStep

LEMMA DeliveryFailsKeeps ==
  ASSUME BillingInv, NEW d \in Deliveries, DeliveryFails(d)
  PROVE  BillingInv'
<1>1. /\ billingFaults < MaxBillingFaults
      /\ billingFaults' = billingFaults + 1
      /\ events' = events \cup delivery[d].event
      /\ delivery' = [delivery EXCEPT ![d] = NoDelivery]
      /\ UNCHANGED <<space, subs, payer, customers, made, shop, newest, disordered, changes>>
  BY DEF DeliveryFails
<1>2. /\ space \in SpaceRecords /\ events \in SUBSET Events /\ newest \in Nat
      /\ delivery \in [Deliveries -> DeliveryRecords]
      /\ billingFaults \in 0 .. MaxBillingFaults
  BY DEF BillingInv, BillingTypes
<1>3. disordered' \in BOOLEAN
  BY <1>1, Zenon DEF BillingInv, BillingTypes
<1>4. NoDelivery \in DeliveryRecords /\ NoDelivery.event = {}
  BY DEF NoDelivery, DeliveryRecords
<1>5. delivery' \in [Deliveries -> DeliveryRecords] /\ events' \in SUBSET Events
  BY <1>1, <1>2, <1>4 DEF DeliveryRecords
<1>6. OpenEvents' \subseteq OpenEvents
  BY <1>1, <1>2, <1>4 DEF OpenEvents
<1>7. Active' = Active /\ (RowTells => RowTells')
  BY <1>1 DEF Active, RowTells
<1>8. ~disordered => InOrder
  BY DEF BillingInv
<1>9. ~disordered' =>
        /\ newest' <= made
        /\ (newest' = made /\ RowTells') \/ \E f \in events' : f.no = made /\ NamesPlan(f)
  BY <1>1, <1>7, <1>8 DEF InOrder, EventsFit, LastTold
<1>10. billingFaults' \in 0 .. MaxBillingFaults
  BY <1>1, <1>2
<1>11. \A c \in Deliveries : \A f \in delivery'[c].event : NamesPlan(f)
  BY <1>1, <1>2, <1>4 DEF BillingInv, ShopsReady
<1> QED BY <1>1, <1>2, <1>3, <1>5, <1>6, <1>9, <1>10, <1>11, DeliveryStep

LEMMA BillingStep == BillingInv /\ [BillingNext]_billingVars => BillingInv'
<1> SUFFICES ASSUME BillingInv, [BillingNext]_billingVars PROVE BillingInv'
  OBVIOUS
<1>1. ASSUME NEW q \in Shoppers,
             StartCheckout(q) \/ CreateCustomer(q) \/ SaveCustomer(q) \/ Pay(q) \/ LeaveCheckout(q)
      PROVE  BillingInv'
  BY <1>1, StartCheckoutKeeps, CreateCustomerKeeps, SaveCustomerKeeps, PayKeeps,
     LeaveCheckoutKeeps
<1>2. ASSUME NEW s \in Subs, NEW p \in Prices \cup {"free"}, Change(s, p) PROVE BillingInv'
  BY <1>2, ChangeKeeps
<1>6. ASSUME NEW s \in Subs, NEW p \in Prices, PayElsewhere(s, p) PROVE BillingInv'
  BY <1>6, PayElsewhereKeeps
<1>3. ASSUME NEW d \in Deliveries, Apply(d) \/ DeliveryFails(d) PROVE BillingInv'
  BY <1>3, ApplyKeeps, DeliveryFailsKeeps
<1>4. ASSUME NEW d \in Deliveries, NEW e \in events, Deliver(d, e) PROVE BillingInv'
  BY <1>4, DeliverKeeps
<1>5. CASE UNCHANGED billingVars
  BY <1>5 DEF billingVars, BillingInv, BillingTypes, ShopsReady, InOrder, EventsFit, LastTold, OpenEvents, Tells,
              RowTells, Active
<1> QED BY <1>1, <1>2, <1>3, <1>4, <1>5, <1>6 DEF BillingNext

LEMMA BillingInvariant == BillingSpec => []BillingInv
BY BillingStart, BillingStep, PTL DEF BillingSpec

\* Types of the workspace row, of what Stripe holds, of the checkouts and of the
\* webhook requests.
THEOREM BillingTypesKept == BillingSpec => []BillingTypeOK
<1>1. BillingInv => BillingTypeOK
  BY BillingTypesAre DEF BillingInv
<1> QED BY <1>1, BillingInvariant, PTL

\* Events applied in the order Stripe made them, however often they fail or are
\* repeated, leave the workspace on the plan its subscription pays for, if its price is
\* one that is configured: stripe-webhook-handler.ts writes what each event tells without
\* comparing it with anything.
THEOREM PaidPlanIsKept == BillingSpec => []PlanIsPaidPlan
<1>1. BillingInv => PlanIsPaidPlan
  <2> SUFFICES ASSUME BillingInv, events = {}, ~disordered
               PROVE  /\ Active = {} => space.plan = "free" /\ space.sub = Nil
                      /\ \A s \in Active :
                           /\ space.sub = s /\ space.customer = payer[s]
                           /\ subs[s] # Unknown => space.plan = subs[s]
    BY Zenon DEF PlanIsPaidPlan
  <2>1. InOrder /\ RowTells
    BY DEF BillingInv, InOrder, EventsFit, LastTold
  <2>2. \A s \in Active : s \in Subs /\ payer[s] # Nil
    BY DEF BillingInv, ShopsReady, Active
  <2> QED BY <2>1, <2>2 DEF InOrder, EventsFit, LastTold, RowTells
<1> QED BY <1>1, BillingInvariant, PTL

HIDE BillingAssumption

-----------------------------------------------------------------------------
(* How long runs are kept (Retention).                                      *)

USE RetentionAssumption

RunRows == [repo : RetentionRepos \cup {NoRepository}, day : 0 .. LastDay]
KeepRecords == [repo : [RetentionRepos -> DayChoices \cup {Unset}], default : DayChoices,
                plan : {"free", "pro"}]
CleanupRecords ==
  [step : {"idle", "repo", "select", "delete"}, left : SUBSET RetentionRepos,
   repo : RetentionRepos \cup {NoRepository}, now : 0 .. LastDay,
   days : [RetentionRepos -> Nat], batch : SUBSET Rows]

\* A row that is stored is of a repository.
RowsNamed == \A i \in Rows : row[i] # NoRun => row[i].repo \in RetentionRepos

\* Outside a cleanup nothing is excused.  In one, what it works with is what the
\* settings keep now - or they have changed, and every row is excused.
SettingsRead ==
  IF cleanup.step = "idle" THEN excused = {}
  ELSE /\ cleanup.now <= today
       /\ excused = Rows \/ \A r \in RetentionRepos : cleanup.days[r] = EffectiveDays(r)

\* The batch is of runs that are not kept.
BatchExpired ==
  cleanup.step = "delete" =>
    \A i \in cleanup.batch : i \in excused \/ row[i] = NoRun \/ ~WithinWindow(i)

\* What is due is deleted, or still to come: its repository is left or in progress,
\* and then a batch that is not full holds it.
InProgress(r) == r \in cleanup.left \/ (cleanup.step \in {"select", "delete"} /\ cleanup.repo = r)

DueToCome ==
  cleanup.step # "idle" =>
    \A i \in due \ excused :
      row[i] # NoRun => /\ InProgress(row[i].repo)
                        /\ BeforeCutoff(i, row[i].repo)

LastBatchWhole ==
  cleanup.step = "delete" /\ Cardinality(cleanup.batch) < BatchSize =>
    \A i \in due \ excused :
      row[i] # NoRun /\ row[i].repo = cleanup.repo => i \in cleanup.batch

RetentionInv ==
  /\ RetentionTypeOK /\ RowsNamed /\ SettingsRead /\ BatchExpired /\ DueToCome /\ LastBatchWhole

-----------------------------------------------------------------------------

\* The type of the variables, part by part.
RetentionTypes ==
  /\ hosted \in BOOLEAN
  /\ today \in 0 .. LastDay
  /\ row \in [Rows -> RunRows]
  /\ keep \in KeepRecords
  /\ cleanup \in CleanupRecords
  /\ Cardinality(cleanup.batch) <= BatchSize
  /\ due \in SUBSET Rows /\ excused \in SUBSET Rows
  /\ history \in 0 .. MaxHistory /\ settings \in 0 .. MaxSettings
  /\ cleanupCrashes \in 0 .. MaxCleanupCrashes

LEMMA RetentionTypesAre == RetentionTypeOK <=> RetentionTypes
BY Zenon DEF RetentionTypeOK, RetentionTypes, RunRows, KeepRecords, CleanupRecords

LEMMA RetentionTypesThen == RetentionTypes' => RetentionTypeOK'
BY RetentionTypesAre, PTL

DaysKnown == \A r \in RetentionRepos : EffectiveDays(r) \in Nat

LEMMA DaysType == RetentionTypes => DaysKnown
<1> SUFFICES ASSUME RetentionTypes, NEW r \in RetentionRepos PROVE EffectiveDays(r) \in Nat
  BY DEF DaysKnown
<1>1. keep.repo[r] \in Nat /\ keep.default \in Nat
  BY DEF RetentionTypes, KeepRecords, DayChoices, Unset
<1> QED BY <1>1 DEF EffectiveDays, Shorter

LEMMA RowsCount ==
  \A S \in SUBSET Rows : IsFiniteSet(S) /\ Cardinality(S) \in Nat
<1>1. \A S \in SUBSET Rows : IsFiniteSet(S)
  BY FS_Subset
<1> QED BY <1>1, FS_CardinalityType

LEMMA NoCleanupType == NoCleanup \in CleanupRecords /\ Cardinality(NoCleanup.batch) = 0
<1>1. NoCleanup \in CleanupRecords
  BY DEF NoCleanup, CleanupRecords
<1>2. NoCleanup.batch = {}
  BY DEF NoCleanup
<1> QED BY <1>1, <1>2, FS_EmptySet

LEMMA RetentionStart == RetentionInit => RetentionInv
<1> SUFFICES ASSUME RetentionInit PROVE RetentionInv
  OBVIOUS
<1>1. row \in [Rows -> RunRows] /\ \A i \in Rows : row[i] = NoRun
  BY DEF RetentionInit, NoRun, RunRows
<1>2. keep \in KeepRecords
  BY DEF RetentionInit, KeepRecords, DayChoices, Unset
<1>3. hosted \in BOOLEAN
  BY DEF RetentionInit
<1>4. cleanup \in CleanupRecords /\ Cardinality(cleanup.batch) <= BatchSize /\ cleanup.step = "idle"
  BY NoCleanupType DEF RetentionInit, NoCleanup
<1>5. RetentionTypes
  BY <1>1, <1>2, <1>3, <1>4 DEF RetentionTypes, RetentionInit
<1>6. RowsNamed /\ SettingsRead /\ BatchExpired /\ DueToCome /\ LastBatchWhole
  BY <1>1, <1>4 DEF RetentionInit, RowsNamed, SettingsRead, BatchExpired, DueToCome, LastBatchWhole
<1> QED BY <1>5, <1>6, RetentionTypesAre DEF RetentionInv

\* A run that is stored or runs again is excused.
LEMMA RowChanges ==
  ASSUME RetentionInv, NEW i \in Rows, NEW x \in RunRows, x.repo \in RetentionRepos,
         row' = [row EXCEPT ![i] = x], Excuse({i}), history' \in 0 .. MaxHistory,
         UNCHANGED <<hosted, today, keep, cleanup, due, settings, cleanupCrashes>>
  PROVE  RetentionInv'
<1>1. RetentionTypes
  BY RetentionTypesAre DEF RetentionInv
<1>2. \A j \in Rows : row'[j] = IF j = i THEN x ELSE row[j]
  BY <1>1 DEF RetentionTypes
<1>3. excused' = IF cleanup.step = "idle" THEN {} ELSE excused \cup {i}
  BY DEF Excuse
<1>4. RetentionTypes'
  BY <1>1, <1>3 DEF RetentionTypes
<1>5. RowsNamed'
  BY <1>2 DEF RetentionInv, RowsNamed
<1>6. SettingsRead'
  BY <1>1, <1>3 DEF RetentionInv, SettingsRead, EffectiveDays, RetentionTypes
<1>7. BatchExpired'
  <2> SUFFICES ASSUME cleanup.step = "delete", NEW j \in cleanup.batch
               PROVE  j \in excused' \/ row'[j] = NoRun \/ ~WithinWindow(j)'
    BY DEF BatchExpired
  <2>1. j \in Rows
    BY <1>1 DEF RetentionTypes, CleanupRecords
  <2>2. CASE j = i
    BY <1>3, <2>2
  <2>3. CASE j # i
    BY <1>2, <1>3, <2>1, <2>3 DEF RetentionInv, BatchExpired, WithinWindow, EffectiveDays
  <2> QED BY <2>2, <2>3
<1>8. DueToCome' /\ LastBatchWhole'
  BY <1>1, <1>2, <1>3 DEF RetentionInv, DueToCome, LastBatchWhole, InProgress, BeforeCutoff, RetentionTypes
<1> QED BY <1>4, <1>5, <1>6, <1>7, <1>8, RetentionTypesThen DEF RetentionInv

LEMMA StoreRunKeeps ==
  ASSUME RetentionInv, NEW i \in Rows, StoreRun(i) \/ Rerun(i)
  PROVE  RetentionInv'
<1>1. RetentionTypes
  BY RetentionTypesAre DEF RetentionInv
<1>2. ASSUME NEW r \in RetentionRepos, NEW d \in 0 .. today,
             row' = [row EXCEPT ![i] = [repo |-> r, day |-> d]],
             IF d = today THEN UNCHANGED history ELSE history < MaxHistory /\ history' = history + 1,
             StoreRun(i)
      PROVE  RetentionInv'
  <2> DEFINE x == [repo |-> r, day |-> d]
  <2>1. x \in RunRows /\ x.repo \in RetentionRepos
    BY <1>1 DEF RunRows, RetentionTypes
  <2>2. history' \in 0 .. MaxHistory
    BY <1>1, <1>2 DEF RetentionTypes
  <2>3. Excuse({i}) /\ UNCHANGED <<hosted, today, keep, cleanup, due, settings, cleanupCrashes>>
    BY <1>2 DEF StoreRun
  <2>4. row' = [row EXCEPT ![i] = x]
    BY <1>2
  <2> HIDE DEF x
  <2> QED BY <2>1, <2>2, <2>3, <2>4, RowChanges
<1>3. CASE Rerun(i)
  <2> DEFINE x == [row[i] EXCEPT !.day = today]
  <2>1. row[i] \in RunRows /\ row[i].repo \in RetentionRepos
    BY <1>1, <1>3 DEF RetentionTypes, Rerun, Stored, RetentionInv, RowsNamed
  <2>2. x \in RunRows /\ x.repo \in RetentionRepos
    BY <1>1, <2>1 DEF RunRows, RetentionTypes
  <2>3. history' \in 0 .. MaxHistory
    BY <1>1, <1>3 DEF RetentionTypes, Rerun
  <2>4. /\ Excuse({i}) /\ UNCHANGED <<hosted, today, keep, cleanup, due, settings, cleanupCrashes>>
        /\ row' = [row EXCEPT ![i] = x]
    BY <1>3 DEF Rerun
  <2> HIDE DEF x
  <2> QED BY <2>2, <2>3, <2>4, RowChanges
<1> QED BY <1>2, <1>3 DEF StoreRun

\* A change of settings keeps the days between one and the most, and excuses all.
LEMMA ChangeSettingsKeeps ==
  ASSUME RetentionInv, ChangeSettings
  PROVE  RetentionInv'
<1>1. RetentionTypes
  BY RetentionTypesAre DEF RetentionInv
<1>2. \A days \in DayChoices :
        (IF ~hosted THEN days ELSE Shorter(days, IF keep.plan = "free" THEN FixedDays ELSE CeilingDays))
          \in DayChoices
  <2>1. \A m, n \in DayChoices : Shorter(m, n) \in DayChoices
    BY DEF Shorter
  <2>2. CeilingDays \in DayChoices /\ FixedDays \in DayChoices
    BY DEF DayChoices
  <2> QED BY <2>1, <2>2
<1>3. keep' \in KeepRecords
  <2>0. keep \in KeepRecords /\ keep.repo \in [RetentionRepos -> DayChoices \cup {Unset}]
    BY <1>1 DEF RetentionTypes, KeepRecords
  <2>1. ASSUME NEW r \in RetentionRepos, NEW d \in DayChoices \cup {Unset},
               keep' = [keep EXCEPT !.repo[r] = d]
        PROVE  keep' \in KeepRecords
    <3>1. [keep.repo EXCEPT ![r] = d] \in [RetentionRepos -> DayChoices \cup {Unset}]
      BY <2>0
    <3>2. keep' = [keep EXCEPT !.repo = [keep.repo EXCEPT ![r] = d]]
      BY <2>1
    <3> QED BY <2>0, <3>1, <3>2 DEF KeepRecords
  <2>2. ASSUME NEW d \in DayChoices, keep' = [keep EXCEPT !.default = d]
        PROVE  keep' \in KeepRecords
    BY <2>0, <2>2 DEF KeepRecords
  <2>3. ASSUME NEW p \in {"free", "pro"}, keep' = [keep EXCEPT !.plan = p]
        PROVE  keep' \in KeepRecords
    BY <2>0, <2>3 DEF KeepRecords
  <2> HIDE DEF DayChoices
  <2> QED BY <1>2, <2>1, <2>2, <2>3 DEF ChangeSettings
<1>4. /\ excused' = IF cleanup.step = "idle" THEN {} ELSE excused \cup Rows
      /\ settings' \in 0 .. MaxSettings
      /\ UNCHANGED <<hosted, today, row, cleanup, due, cleanupCrashes, history>>
  BY <1>1 DEF ChangeSettings, Excuse, RetentionTypes
<1>5. RetentionTypes'
  BY <1>1, <1>3, <1>4 DEF RetentionTypes
<1>6. cleanup.step # "idle" => excused' = Rows
  BY <1>1, <1>4 DEF RetentionTypes
<1>7. SettingsRead'
  BY <1>4, <1>6 DEF RetentionInv, SettingsRead
<1>8. RowsNamed' /\ DueToCome' /\ LastBatchWhole'
  BY <1>1, <1>4, <1>6 DEF RetentionInv, RowsNamed, DueToCome, LastBatchWhole, RetentionTypes
<1>9. BatchExpired'
  BY <1>1, <1>4, <1>6 DEF BatchExpired, RetentionTypes, CleanupRecords
<1> QED BY <1>5, <1>7, <1>8, <1>9, RetentionTypesThen DEF RetentionInv

LEMMA NextDayKeeps ==
  ASSUME RetentionInv, NextDay
  PROVE  RetentionInv'
<1>1. RetentionTypes /\ DaysKnown
  BY RetentionTypesAre, DaysType DEF RetentionInv
<1>2. UNCHANGED <<hosted, row, keep, cleanup, due, excused, history, settings, cleanupCrashes>>
      /\ today' = today + 1 /\ today < LastDay
  BY DEF NextDay
<1>3. RetentionTypes'
  BY <1>1, <1>2 DEF RetentionTypes
<1>4. \A r : EffectiveDays(r)' = EffectiveDays(r)
  BY <1>2 DEF EffectiveDays
<1>5. SettingsRead'
  <2>1. cleanup.now <= today => cleanup.now <= today'
    BY <1>1, <1>2 DEF RetentionTypes, CleanupRecords
  <2> QED BY <1>2, <1>4, <2>1 DEF RetentionInv, SettingsRead
<1>6. BatchExpired'
  <2>1. ASSUME NEW i \in Rows, row[i].repo \in RetentionRepos, ~WithinWindow(i)
        PROVE  ~WithinWindow(i)'
    <3>1. row[i].day \in Nat /\ EffectiveDays(row[i].repo) \in Nat /\ today \in Nat
      BY <1>1, <2>1 DEF RetentionTypes, RunRows, DaysKnown
    <3>2. row[i].day + EffectiveDays(row[i].repo) < today
      BY <2>1, <3>1 DEF WithinWindow
    <3>3. ~(row[i].day + EffectiveDays(row[i].repo) >= today')
      BY <1>2, <3>1, <3>2
    <3> QED BY <1>2, <1>4, <3>3 DEF WithinWindow
  <2>2. \A i \in Rows : row[i] # NoRun => row[i].repo \in RetentionRepos
    BY DEF RetentionInv, RowsNamed
  <2>3. cleanup.batch \subseteq Rows
    BY <1>1 DEF RetentionTypes, CleanupRecords
  <2> QED BY <1>2, <2>1, <2>2, <2>3 DEF RetentionInv, BatchExpired
<1>7. RowsNamed' /\ DueToCome' /\ LastBatchWhole'
  BY <1>2 DEF RetentionInv, RowsNamed, DueToCome, LastBatchWhole, InProgress, BeforeCutoff
<1> QED BY <1>3, <1>5, <1>6, <1>7, RetentionTypesThen DEF RetentionInv

LEMMA StartCleanupKeeps ==
  ASSUME RetentionInv, StartCleanup
  PROVE  RetentionInv'
<1>1. RetentionTypes /\ DaysKnown
  BY RetentionTypesAre, DaysType DEF RetentionInv
<1> DEFINE job == [step |-> "repo", left |-> RetentionRepos, repo |-> NoRepository,
                   now |-> today, days |-> [r \in RetentionRepos |-> EffectiveDays(r)],
                   batch |-> {}]
<1>2. /\ cleanup.step = "idle" /\ cleanup' = job
      /\ due' = {i \in Stored : ~WithinWindow(i)}
      /\ UNCHANGED <<hosted, today, row, keep, excused, history, settings, cleanupCrashes>>
  BY DEF StartCleanup
<1>3. job \in CleanupRecords
  BY <1>1 DEF CleanupRecords, DaysKnown, RetentionTypes
<1>4. job.step = "repo" /\ job.left = RetentionRepos /\ job.now = today /\ job.batch = {}
      /\ \A r \in RetentionRepos : job.days[r] = EffectiveDays(r)
  OBVIOUS
<1> HIDE DEF job
<1>5. RetentionTypes'
  <2>1. Cardinality(job.batch) = 0
    BY <1>4, FS_EmptySet
  <2> QED BY <1>1, <1>2, <1>3, <2>1 DEF RetentionTypes, Stored
<1>6. SettingsRead'
  <2>1. \A r : EffectiveDays(r)' = EffectiveDays(r)
    BY <1>2 DEF EffectiveDays
  <2>2. today <= today
    BY <1>1 DEF RetentionTypes
  <2> QED BY <1>2, <1>4, <2>1, <2>2 DEF SettingsRead
<1>7. RowsNamed' /\ BatchExpired' /\ LastBatchWhole'
  BY <1>2, <1>4 DEF RetentionInv, RowsNamed, BatchExpired, LastBatchWhole
<1>8. DueToCome'
  <2> SUFFICES ASSUME NEW i \in due', row'[i] # NoRun
               PROVE  InProgress(row[i].repo)' /\ BeforeCutoff(i, row[i].repo)'
    BY <1>2 DEF DueToCome
  <2>1. i \in Rows /\ row[i].repo \in RetentionRepos /\ ~WithinWindow(i)
    BY <1>2 DEF Stored, RetentionInv, RowsNamed
  <2>2. row[i].day \in Nat /\ EffectiveDays(row[i].repo) \in Nat /\ today \in Nat
    BY <1>1, <2>1 DEF RetentionTypes, RunRows, DaysKnown
  <2>3. row[i].day + EffectiveDays(row[i].repo) < today
    BY <2>1, <2>2 DEF WithinWindow
  <2>4. row[i].day + job.days[row[i].repo] < job.now
    BY <1>4, <2>1, <2>3
  <2> QED BY <1>2, <1>4, <2>1, <2>4 DEF InProgress, BeforeCutoff
<1> QED BY <1>5, <1>6, <1>7, <1>8, RetentionTypesThen DEF RetentionInv

\* The job is over, or has died.
LEMMA CleanupOver ==
  ASSUME RetentionInv, cleanup' = NoCleanup, due' = {}, excused' = {},
         cleanupCrashes' \in 0 .. MaxCleanupCrashes,
         UNCHANGED <<hosted, today, row, keep, settings, history>>
  PROVE  RetentionInv'
<1>1. RetentionTypes
  BY RetentionTypesAre DEF RetentionInv
<1>2. RetentionTypes'
  BY <1>1, NoCleanupType DEF RetentionTypes
<1>3. cleanup'.step = "idle"
  BY DEF NoCleanup
<1>4. RowsNamed' /\ SettingsRead' /\ BatchExpired' /\ DueToCome' /\ LastBatchWhole'
  BY <1>3 DEF RetentionInv, RowsNamed, SettingsRead, BatchExpired, DueToCome, LastBatchWhole
<1> QED BY <1>2, <1>4, RetentionTypesThen DEF RetentionInv

LEMMA NextRepoKeeps ==
  ASSUME RetentionInv, NextRepo
  PROVE  /\ RetentionInv'
         /\ cleanup' = NoCleanup => \A i \in due \ excused : row[i] = NoRun
<1>1. RetentionTypes
  BY RetentionTypesAre DEF RetentionInv
<1>2. cleanup.step = "repo" /\ UNCHANGED <<hosted, today, row, keep, settings, cleanupCrashes, history>>
  BY DEF NextRepo
<1>3. CASE cleanup.left = {}
  <2>1. RetentionInv'
    BY <1>1, <1>2, <1>3, CleanupOver DEF NextRepo, RetentionTypes
  <2>2. \A i \in due \ excused : row[i] = NoRun
    BY <1>2, <1>3 DEF RetentionInv, DueToCome, InProgress
  <2> QED BY <2>1, <2>2
<1>4. ASSUME NEW r \in cleanup.left,
             cleanup' = [cleanup EXCEPT !.step = "select", !.repo = r, !.left = @ \ {r}],
             UNCHANGED <<due, excused>>
      PROVE  RetentionInv' /\ cleanup' # NoCleanup
  <2>1. /\ cleanup' \in CleanupRecords /\ cleanup'.step = "select" /\ cleanup'.repo = r
        /\ cleanup'.left = cleanup.left \ {r} /\ cleanup'.now = cleanup.now
        /\ cleanup'.days = cleanup.days /\ cleanup'.batch = cleanup.batch
    BY <1>1, <1>4 DEF RetentionTypes, CleanupRecords
  <2>2. RetentionTypes'
    BY <1>1, <1>2, <1>4, <2>1 DEF RetentionTypes
  <2>3. SettingsRead'
    BY <1>2, <1>4, <2>1 DEF RetentionInv, SettingsRead, EffectiveDays
  <2>4. RowsNamed' /\ BatchExpired' /\ LastBatchWhole'
    BY <1>2, <2>1 DEF RetentionInv, RowsNamed, BatchExpired, LastBatchWhole
  <2>5. DueToCome'
    BY <1>2, <1>4, <2>1 DEF RetentionInv, DueToCome, InProgress, BeforeCutoff
  <2>6. cleanup' # NoCleanup
    BY <2>1 DEF NoCleanup
  <2> QED BY <2>2, <2>3, <2>4, <2>5, <2>6, RetentionTypesThen DEF RetentionInv
<1> QED BY <1>3, <1>4 DEF NextRepo

ExpiredRows == {i \in Stored : BeforeCutoff(i, cleanup.repo)}

\* A batch that is not full is of all that is expired.
LEMMA BatchIsAll ==
  ASSUME NEW S \in SUBSET ExpiredRows, Cardinality(S) = Shorter(BatchSize, Cardinality(ExpiredRows))
  PROVE  /\ Cardinality(S) <= BatchSize /\ S \in SUBSET Rows
         /\ Cardinality(S) < BatchSize => S = ExpiredRows
<1>1. ExpiredRows \in SUBSET Rows /\ S \in SUBSET Rows
  BY DEF ExpiredRows, Stored
<1>2. IsFiniteSet(ExpiredRows) /\ Cardinality(ExpiredRows) \in Nat
  BY <1>1, RowsCount
<1>3. Cardinality(S) <= BatchSize /\ (Cardinality(S) < BatchSize => Cardinality(S) = Cardinality(ExpiredRows))
  BY <1>2 DEF Shorter
<1>4. Cardinality(S) = Cardinality(ExpiredRows) => S = ExpiredRows
  BY <1>2, FS_Subset
<1> QED BY <1>1, <1>3, <1>4

LEMMA SelectBatchKeeps ==
  ASSUME RetentionInv, SelectBatch
  PROVE  RetentionInv'
<1>1. RetentionTypes /\ DaysKnown
  BY RetentionTypesAre, DaysType DEF RetentionInv
<1>2. /\ cleanup.step = "select"
      /\ UNCHANGED <<hosted, today, row, keep, due, excused, history, settings, cleanupCrashes>>
  BY DEF SelectBatch
<1>3. PICK S \in SUBSET ExpiredRows :
        /\ Cardinality(S) = Shorter(BatchSize, Cardinality(ExpiredRows))
        /\ cleanup' = IF S = {} THEN [cleanup EXCEPT !.step = "repo"]
                      ELSE [cleanup EXCEPT !.step = "delete", !.batch = S]
  BY DEF SelectBatch, ExpiredRows
<1>4. /\ Cardinality(S) <= BatchSize /\ S \in SUBSET Rows
      /\ Cardinality(S) < BatchSize => S = ExpiredRows
  BY <1>3, BatchIsAll
<1>5. /\ cleanup' \in CleanupRecords /\ cleanup'.repo = cleanup.repo /\ cleanup'.left = cleanup.left
      /\ cleanup'.now = cleanup.now /\ cleanup'.days = cleanup.days
      /\ S = {} => cleanup'.step = "repo" /\ cleanup'.batch = cleanup.batch
      /\ S # {} => cleanup'.step = "delete" /\ cleanup'.batch = S
  <2>1. CASE S = {}
    BY <1>1, <1>3, <2>1 DEF RetentionTypes, CleanupRecords
  <2>2. CASE S # {}
    BY <1>1, <1>3, <1>4, <2>2 DEF RetentionTypes, CleanupRecords
  <2> QED BY <2>1, <2>2
<1>6. RetentionTypes'
  <2>1. Cardinality(cleanup'.batch) <= BatchSize
    BY <1>1, <1>4, <1>5 DEF RetentionTypes
  <2> QED BY <1>1, <1>2, <1>5, <2>1 DEF RetentionTypes
<1>7. RowsNamed' /\ SettingsRead'
  BY <1>2, <1>5 DEF RetentionInv, RowsNamed, SettingsRead, EffectiveDays
<1>8. BatchExpired'
  <2> SUFFICES ASSUME S # {}, NEW i \in S, i \notin excused PROVE ~WithinWindow(i)'
    BY <1>2, <1>5 DEF BatchExpired
  <2>1. /\ i \in Rows /\ row[i] # NoRun /\ row[i].repo = cleanup.repo
        /\ row[i].day + cleanup.days[cleanup.repo] < cleanup.now
    BY DEF ExpiredRows, Stored, BeforeCutoff
  <2>2. row[i].repo \in RetentionRepos
    BY <2>1 DEF RetentionInv, RowsNamed
  <2>3. cleanup.days[row[i].repo] = EffectiveDays(row[i].repo) /\ cleanup.now <= today
    BY <1>2, <2>1, <2>2 DEF RetentionInv, SettingsRead
  <2>4. /\ row[i].day \in Nat /\ EffectiveDays(row[i].repo) \in Nat /\ today \in Nat /\ cleanup.now \in Nat
    BY <1>1, <2>1, <2>2 DEF RetentionTypes, RunRows, DaysKnown, CleanupRecords
  <2>5. row[i].day + EffectiveDays(row[i].repo) < cleanup.now
    BY <2>1, <2>3
  <2>6. ~(row[i].day + EffectiveDays(row[i].repo) >= today)
    BY <2>3, <2>4, <2>5
  <2> QED BY <1>2, <2>6 DEF WithinWindow, EffectiveDays
<1>9. ASSUME NEW i \in due \ excused, row[i] # NoRun
      PROVE  /\ InProgress(row[i].repo) /\ BeforeCutoff(i, row[i].repo) /\ i \in Rows
             /\ row[i].repo = cleanup.repo => i \in ExpiredRows
  <2>1. i \in Rows
    BY <1>1 DEF RetentionTypes
  <2>2. InProgress(row[i].repo) /\ BeforeCutoff(i, row[i].repo)
    BY <1>2, <1>9 DEF RetentionInv, DueToCome
  <2> QED BY <1>9, <2>1, <2>2 DEF ExpiredRows, Stored
<1>10. DueToCome'
  <2> SUFFICES ASSUME NEW i \in due \ excused, row[i] # NoRun
               PROVE  InProgress(row[i].repo)' /\ BeforeCutoff(i, row[i].repo)'
    BY <1>2 DEF DueToCome
  <2>1. BeforeCutoff(i, row[i].repo)'
    BY <1>2, <1>5, <1>9 DEF BeforeCutoff
  <2>2. CASE S = {}
    <3>1. ExpiredRows = {}
      BY <1>4, <2>2, FS_EmptySet
    <3> QED BY <1>2, <1>5, <1>9, <2>1, <3>1 DEF InProgress
  <2>3. CASE S # {}
    BY <1>2, <1>5, <1>9, <2>1, <2>3 DEF InProgress
  <2> QED BY <2>2, <2>3
<1>11. LastBatchWhole'
  BY <1>2, <1>4, <1>5, <1>9 DEF LastBatchWhole
<1> QED BY <1>6, <1>7, <1>8, <1>10, <1>11, RetentionTypesThen DEF RetentionInv

\* A run that the batch takes is not kept, and after the last batch of a repository
\* nothing of it is due.
LEMMA DeleteBatchKeeps ==
  ASSUME RetentionInv, DeleteBatch
  PROVE  /\ RetentionInv'
         /\ \A i \in Stored : row'[i] = NoRun => ~WithinWindow(i) \/ i \in excused
<1>1. RetentionTypes
  BY RetentionTypesAre DEF RetentionInv
<1>2. /\ cleanup.step = "delete"
      /\ row' = [i \in Rows |-> IF i \in cleanup.batch THEN NoRun ELSE row[i]]
      /\ UNCHANGED <<hosted, today, keep, due, excused, history, settings, cleanupCrashes>>
  BY DEF DeleteBatch
<1>3. /\ cleanup' \in CleanupRecords /\ cleanup'.repo = cleanup.repo /\ cleanup'.left = cleanup.left
      /\ cleanup'.now = cleanup.now /\ cleanup'.days = cleanup.days /\ cleanup'.batch = {}
      /\ cleanup'.step = IF Cardinality(cleanup.batch) < BatchSize THEN "repo" ELSE "select"
  BY <1>1 DEF DeleteBatch, RetentionTypes, CleanupRecords
<1>4. RetentionTypes'
  <2>1. row' \in [Rows -> RunRows]
    BY <1>1, <1>2 DEF RetentionTypes, NoRun, RunRows
  <2>2. Cardinality({}) = 0
    BY FS_EmptySet
  <2> QED BY <1>1, <1>2, <1>3, <2>1, <2>2 DEF RetentionTypes
<1>5. RowsNamed'
  BY <1>2 DEF RetentionInv, RowsNamed
<1>6. SettingsRead'
  BY <1>2, <1>3 DEF RetentionInv, SettingsRead, EffectiveDays
<1>7. BatchExpired' /\ LastBatchWhole'
  BY <1>3 DEF BatchExpired, LastBatchWhole
<1>8. DueToCome'
  <2> SUFFICES ASSUME NEW i \in due \ excused, row'[i] # NoRun
               PROVE  InProgress(row[i].repo)' /\ BeforeCutoff(i, row[i].repo)'
    BY <1>2 DEF DueToCome
  <2>1. i \in Rows /\ row'[i] = row[i] /\ row[i] # NoRun /\ i \notin cleanup.batch
    BY <1>1, <1>2 DEF RetentionTypes
  <2>2. InProgress(row[i].repo) /\ BeforeCutoff(i, row[i].repo)
    BY <1>2, <2>1 DEF RetentionInv, DueToCome
  <2>3. Cardinality(cleanup.batch) < BatchSize => row[i].repo # cleanup.repo
    BY <1>2, <2>1 DEF RetentionInv, LastBatchWhole
  <2>4. BeforeCutoff(i, row[i].repo)'
    BY <1>3, <2>1, <2>2 DEF BeforeCutoff
  <2>5. InProgress(row[i].repo)'
    BY <1>3, <2>1, <2>2, <2>3 DEF InProgress
  <2> QED BY <2>4, <2>5
<1>9. \A i \in Stored : row'[i] = NoRun => ~WithinWindow(i) \/ i \in excused
  BY <1>2 DEF Stored, RetentionInv, BatchExpired
<1> QED BY <1>4, <1>5, <1>6, <1>7, <1>8, <1>9, RetentionTypesThen DEF RetentionInv

-----------------------------------------------------------------------------

\* Every step keeps the invariant; a batch takes what is not kept, and the end of the
\* job leaves nothing that was due.
RetentionStepExact ==
  /\ \A i \in Stored : row'[i] = NoRun => ~WithinWindow(i) \/ i \in excused
  /\ cleanup.step = "repo" /\ cleanup' = NoCleanup /\ cleanupCrashes' = cleanupCrashes =>
       \A i \in due \ excused : row[i] = NoRun

LEMMA RetentionStep ==
  RetentionInv /\ [RetentionNext]_retentionVars => RetentionInv' /\ [RetentionStepExact]_retentionVars
<1> SUFFICES ASSUME RetentionInv, [RetentionNext]_retentionVars
             PROVE  RetentionInv' /\ (RetentionStepExact \/ UNCHANGED retentionVars)
  OBVIOUS
<1>0. RetentionTypes
  BY RetentionTypesAre DEF RetentionInv
<1>1. CASE UNCHANGED retentionVars
  BY <1>1 DEF retentionVars, RetentionInv, RetentionTypeOK, RowsNamed, SettingsRead, BatchExpired,
              DueToCome, LastBatchWhole, InProgress, BeforeCutoff, WithinWindow, EffectiveDays
<1>2. CASE StartCleanup
  <2>1. UNCHANGED row /\ cleanup.step # "repo"
    BY <1>2 DEF StartCleanup
  <2> QED BY <1>2, <2>1, StartCleanupKeeps DEF RetentionStepExact, Stored
<1>3. CASE NextRepo
  <2>1. UNCHANGED row
    BY <1>3 DEF NextRepo
  <2> QED BY <1>3, <2>1, NextRepoKeeps DEF RetentionStepExact, Stored
<1>4. CASE SelectBatch
  <2>1. UNCHANGED row /\ cleanup.step # "repo"
    BY <1>4 DEF SelectBatch
  <2> QED BY <1>4, <2>1, SelectBatchKeeps DEF RetentionStepExact, Stored
<1>5. CASE DeleteBatch
  <2>1. cleanup.step # "repo"
    BY <1>5 DEF DeleteBatch
  <2> QED BY <1>5, <2>1, DeleteBatchKeeps DEF RetentionStepExact
<1>6. CASE CleanupDies
  <2>1. /\ UNCHANGED <<hosted, today, row, keep, settings, history>>
        /\ cleanup' = NoCleanup /\ due' = {} /\ excused' = {}
        /\ cleanupCrashes' = cleanupCrashes + 1 /\ cleanupCrashes < MaxCleanupCrashes
    BY <1>6 DEF CleanupDies
  <2>2. cleanupCrashes' \in 0 .. MaxCleanupCrashes /\ cleanupCrashes' # cleanupCrashes
    BY <1>0, <2>1 DEF RetentionTypes
  <2> QED BY <2>1, <2>2, CleanupOver DEF RetentionStepExact, Stored
<1>7. CASE ChangeSettings
  <2>1. UNCHANGED <<row, cleanup>>
    BY <1>7 DEF ChangeSettings
  <2> QED BY <1>7, <2>1, ChangeSettingsKeeps DEF RetentionStepExact, Stored, NoCleanup
<1>8. CASE NextDay
  <2>1. UNCHANGED <<row, cleanup>>
    BY <1>8 DEF NextDay
  <2> QED BY <1>8, <2>1, NextDayKeeps DEF RetentionStepExact, Stored, NoCleanup
<1>9. ASSUME NEW i \in Rows, StoreRun(i) \/ Rerun(i)
      PROVE  RetentionInv' /\ RetentionStepExact
  <2>1. UNCHANGED cleanup
    BY <1>9 DEF StoreRun, Rerun
  <2>2. \A j \in Stored : row'[j] # NoRun
    <3>1. CASE StoreRun(i)
      BY <1>0, <3>1 DEF StoreRun, RetentionTypes, Stored
    <3>2. CASE Rerun(i)
      <4>1. row[i] \in RunRows /\ row[i].repo \in RetentionRepos
        BY <1>0, <3>2 DEF RetentionTypes, Rerun, Stored, RetentionInv, RowsNamed
      <4>2. row'[i].day = today /\ row[i].day # today /\ row'[i].repo = row[i].repo
        BY <1>0, <3>2, <4>1 DEF Rerun, RetentionTypes, RunRows
      <4>3. NoRun.repo = NoRepository
        BY DEF NoRun
      <4>4. \A j \in Rows : j # i => row'[j] = row[j]
        BY <1>0, <3>2 DEF Rerun, RetentionTypes
      <4> QED BY <4>1, <4>2, <4>3, <4>4 DEF Stored
    <3> QED BY <1>9, <3>1, <3>2
  <2> QED BY <1>9, <2>1, <2>2, StoreRunKeeps DEF RetentionStepExact, NoCleanup
<1> QED BY <1>1, <1>2, <1>3, <1>4, <1>5, <1>6, <1>7, <1>8, <1>9 DEF RetentionNext, CleanupStep

LEMMA RetentionInvariant == RetentionSpec => []RetentionInv
<1>1. RetentionInv /\ [RetentionNext]_retentionVars => RetentionInv'
  BY RetentionStep
<1> QED BY <1>1, RetentionStart, PTL DEF RetentionSpec

\* The settings, the rows and the job keep their types, and no batch is too large.
THEOREM RetentionTypesKept == RetentionSpec => []RetentionTypeOK
<1>1. RetentionInv => RetentionTypeOK
  BY DEF RetentionInv
<1> QED BY <1>1, RetentionInvariant, PTL

\* The cleanup deletes nothing that is kept and leaves nothing that was due
\* (retentionCleanup, deleteExpiredRunsBatch).
THEOREM CleanupExact == RetentionSpec => CleanupIsExact
<1>1. RetentionInv /\ [RetentionNext]_retentionVars => [RetentionStepExact]_retentionVars
  BY RetentionStep
<1>2. RetentionSpec => [][RetentionStepExact]_retentionVars
  BY <1>1, RetentionInvariant, PTL DEF RetentionSpec
<1> QED BY <1>2 DEF RetentionStepExact, CleanupIsExact

HIDE RetentionAssumption

-----------------------------------------------------------------------------
(* Together (MCAccounts).                                                   *)

\* A behaviour of MCAccounts is one of each component, which is still while the
\* behaviour is about another.
LEMMA EachComponent ==
  AccountsSpec =>
    /\ SessionInit /\ [][SessionNext]_sessionVars
    /\ BootstrapInit /\ [][BootstrapNext]_bootstrapVars
    /\ BillingInit /\ [][BillingNext]_billingVars
    /\ RepoLimitInit /\ [][RepoLimitNext]_repoLimitVars
    /\ WorkspaceInit /\ [][WorkspaceNext]_workspaceVars
    /\ DiscoveryInit /\ [][DiscoveryNext]_discoveryVars
    /\ RetentionInit /\ [][RetentionNext]_retentionVars
<1>1. AccountsInit =>
        /\ SessionInit /\ BootstrapInit /\ BillingInit /\ RepoLimitInit /\ WorkspaceInit
        /\ DiscoveryInit /\ RetentionInit
  BY DEF AccountsInit
<1>2. [AccountsNext]_accountVars =>
        /\ [SessionNext]_sessionVars /\ [BootstrapNext]_bootstrapVars
        /\ [BillingNext]_billingVars /\ [RepoLimitNext]_repoLimitVars
        /\ [WorkspaceNext]_workspaceVars /\ [DiscoveryNext]_discoveryVars
        /\ [RetentionNext]_retentionVars
  BY DEF AccountsNext, AccountStep, accountVars
<1> QED BY <1>1, <1>2, PTL DEF AccountsSpec

\* Every variable behind an account keeps its type, whatever the behaviour is about.
THEOREM AccountsTypesKept == AccountsSpec => []AccountsTypeOK
<1>1. /\ SessionTypeOK /\ BootstrapTypeOK /\ BillingTypeOK /\ RepoLimitTypeOK
      /\ WorkspaceTypeOK /\ DiscoveryTypeOK /\ RetentionTypeOK
      => AccountsTypeOK
  BY DEF AccountsTypeOK
<1> QED BY <1>1, EachComponent, TypeCorrect, BootstrapTypesKept, BillingTypesKept,
           RepoLimitTypesKept, WorkspaceTypesKept, DiscoveryInvariant, DiscoveryTypesAre,
           RetentionTypesKept, PTL
     DEF SessionSpec, BootstrapSpec, BillingSpec, RepoLimitSpec, WorkspaceSpec, RetentionSpec,
         DiscoveryInv

\* Requests that overlap exceed what the plan allows by no more than their number, in
\* repositories as in workspaces.
THEOREM PlanLimitsKept == AccountsSpec => []PlanLimitsHold
<1>1. ReposWithinPlan /\ OwnedWithinPlan => PlanLimitsHold
  BY DEF PlanLimitsHold
<1> QED BY <1>1, EachComponent, ReposLimited, OwnedBounded, PTL DEF RepoLimitSpec, WorkspaceSpec

\* In a behaviour of the whole every component keeps its promises: one live token per
\* session, cookies that stay live, logout-all that ends all; one bootstrap, the plan that
\* was paid for, all repositories discovered; a workspace left, an exact cleanup.
THEOREM PromisesKept ==
  AccountsSpec =>
    /\ [](OneLivePerSession /\ CookieStaysLive /\ LogoutAllHolds)
    /\ [](BootstrapHolds /\ PlanIsPaidPlan /\ DiscoveryComplete)
    /\ LastWorkspaceKept /\ CleanupIsExact
<1>1. DiscoveryInv => DiscoveryComplete
  BY DEF DiscoveryInv, JobsSaw, SavedPage, AllBut, DiscoveryComplete
<1> QED
  BY <1>1, EachComponent, OneLive, CookieLive, LogoutAllEndsAll, BootstrapIsSound, PaidPlanIsKept,
     DiscoveryInvariant, LastWorkspaceStays, CleanupExact, PTL
  DEF SessionSpec, BootstrapSpec, BillingSpec, WorkspaceSpec, RetentionSpec

=============================================================================
