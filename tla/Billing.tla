------------------------------- MODULE Billing -------------------------------
(***************************************************************************)
(* A workspace's paid plan: the checkout that starts a Stripe subscription *)
(* and the Stripe events that bring its changes back to the workspace row. *)
(*                                                                         *)
(* Stripe sends an event until it is answered with success, in no order,   *)
(* and possibly again afterwards.  Events carry the subscription as it was *)
(* when they were made; the handlers compare neither their times nor, on   *)
(* deletion, the subscription with the one in the row.                     *)
(***************************************************************************)
EXTENDS Naturals, FiniteSets

CONSTANTS
  PaidPlans,
  Shoppers,        \* checkout requests that may be in progress at the same time
  Deliveries,      \* webhook requests that may be in progress at the same time
  MaxSubs,         \* bound: subscriptions started
  MaxChanges,      \* bound: changes of price, cancellations, sign-ups at Stripe itself
  MaxBillingFaults \* bound: deliveries that fail or are repeated

Unknown == "unknown"   \* a price at Stripe that the environment does not name

ASSUME BillingAssumption ==
  /\ "free" \notin PaidPlans /\ Unknown \notin PaidPlans /\ IsFiniteSet(Shoppers)
  /\ MaxSubs \in Nat /\ MaxChanges \in Nat /\ MaxBillingFaults \in Nat

Nil == 0
Subs == 1 .. MaxSubs
Customers == 1 .. Cardinality(Shoppers) + 1
Plans == PaidPlans \cup {"free"}
Prices == PaidPlans \cup {Unknown}

\* An event: its place in the order Stripe made them, its type, and the
\* subscription it is about, with the plan its price or its session stands for.  The
\* two events of a checkout share their place.
Events == [no : Nat, kind : {"completed", "synced", "deleted"}, sub : Subs,
           plan : Prices, customer : Customers]

VARIABLES
  space,       \* the workspace row: plan, Stripe customer and subscription
  subs,        \* subscriptions at Stripe: the price each pays, or "free"
  payer,       \* the customer of each
  customers,   \* customers created at Stripe so far
  events,      \* events not yet answered
  made,        \* events made so far
  shop,        \* checkout requests
  delivery,    \* webhook requests: the event being handled
  \* observation and bounds
  newest,      \* the latest event applied
  disordered,  \* events were applied out of order, or sign-ups crossed
  changes, billingFaults

billingVars ==
  <<space, subs, payer, customers, events, made, shop, delivery, newest, disordered,
    changes, billingFaults>>

NoShop == [step |-> "idle", plan |-> "free", customer |-> Nil]
NoDelivery == [busy |-> FALSE, event |-> {}]

BillingTypeOK ==
  /\ space \in [plan : Plans, customer : Customers \cup {Nil}, sub : Subs \cup {Nil}]
  /\ subs \in [Subs -> Prices \cup {"free"}]
  /\ payer \in [Subs -> Customers \cup {Nil}]
  /\ customers \in 0 .. Cardinality(Shoppers) + 1
  /\ events \subseteq Events
  /\ made \in Nat /\ newest \in Nat
  /\ shop \in [Shoppers -> [step : {"idle", "create", "save", "pay"}, plan : Plans,
                            customer : Customers \cup {Nil}]]
  /\ delivery \in [Deliveries -> [busy : BOOLEAN, event : SUBSET Events]]
  /\ disordered \in BOOLEAN
  /\ changes \in 0 .. MaxChanges /\ billingFaults \in 0 .. MaxBillingFaults

BillingInit ==
  /\ space = [plan |-> "free", customer |-> Nil, sub |-> Nil]
  /\ subs = [s \in Subs |-> "free"]
  /\ payer = [s \in Subs |-> Nil]
  /\ customers = 0
  /\ events = {}
  /\ made = 0 /\ newest = 0
  /\ shop = [q \in Shoppers |-> NoShop]
  /\ delivery = [d \in Deliveries |-> NoDelivery]
  /\ disordered = FALSE
  /\ changes = 0 /\ billingFaults = 0

Active == {s \in Subs : subs[s] # "free"}

shopVars == <<space, customers, shop, disordered>>
stripeVars == <<subs, payer, events, made, changes>>
deliveryVars == <<delivery, newest, billingFaults>>

-----------------------------------------------------------------------------

\* createCheckoutSession reads the workspace ...
StartCheckout(q) ==
  /\ shop[q].step = "idle" /\ Cardinality({s \in Subs : payer[s] # Nil}) < MaxSubs
  /\ \E p \in PaidPlans :
       shop' = [shop EXCEPT ![q] =
         [step |-> IF space.customer = Nil THEN "create" ELSE "pay",
          plan |-> p, customer |-> space.customer]]
  /\ UNCHANGED <<space, customers, disordered, stripeVars, deliveryVars>>

\* ... ensureStripeCustomer creates a customer at Stripe ...
CreateCustomer(q) ==
  /\ shop[q].step = "create" /\ customers < Cardinality(Shoppers) + 1
  /\ customers' = customers + 1
  /\ shop' = [shop EXCEPT ![q].step = "save", ![q].customer = customers']
  /\ UNCHANGED <<space, disordered, stripeVars, deliveryVars>>

\* ... and writes it to the row, whatever the row holds by then.
SaveCustomer(q) ==
  /\ shop[q].step = "save"
  /\ space' = [space EXCEPT !.customer = shop[q].customer]
  /\ disordered' = (disordered \/ space.customer # Nil)
  /\ shop' = [shop EXCEPT ![q].step = "pay"]
  /\ UNCHANGED <<customers, stripeVars, deliveryVars>>

\* The customer pays on Stripe's page, or leaves it.
Pay(q) ==
  /\ shop[q].step = "pay"
  /\ \E s \in Subs :
       /\ payer[s] = Nil
       /\ \A r \in Subs : r < s => payer[r] # Nil
       /\ subs' = [subs EXCEPT ![s] = shop[q].plan]
       /\ payer' = [payer EXCEPT ![s] = shop[q].customer]
       /\ events' = events \cup
            [no : {made + 1}, kind : {"completed", "synced"}, sub : {s},
             plan : {shop[q].plan}, customer : {shop[q].customer}]
  /\ made' = made + 1
  /\ disordered' = (disordered \/ Active # {})
  /\ shop' = [shop EXCEPT ![q] = NoShop]
  /\ UNCHANGED <<space, customers, changes, deliveryVars>>

LeaveCheckout(q) ==
  /\ shop[q].step = "pay"
  /\ shop' = [shop EXCEPT ![q] = NoShop]
  /\ UNCHANGED <<space, customers, disordered, stripeVars, deliveryVars>>

\* The customer of the row subscribes at Stripe itself, at whatever price: the session
\* is not one of createCheckoutSession's and names no plan.
PayElsewhere(s, p) ==
  /\ space.customer # Nil /\ changes < MaxChanges
  /\ payer[s] = Nil /\ \A r \in Subs : r < s => payer[r] # Nil
  /\ subs' = [subs EXCEPT ![s] = p]
  /\ payer' = [payer EXCEPT ![s] = space.customer]
  /\ events' = events \cup
       {[no |-> made + 1, kind |-> "completed", sub |-> s, plan |-> Unknown,
         customer |-> space.customer],
        [no |-> made + 1, kind |-> "synced", sub |-> s, plan |-> p,
         customer |-> space.customer]}
  /\ made' = made + 1 /\ changes' = changes + 1
  /\ disordered' = (disordered \/ Active # {})
  /\ UNCHANGED <<space, customers, shop, deliveryVars>>

\* The subscription changes its price or ends at Stripe: in the portal, or because a
\* payment failed for good.
Change(s, p) ==
  /\ subs[s] \notin {"free", p} /\ changes < MaxChanges
  /\ subs' = [subs EXCEPT ![s] = p]
  /\ events' = events \cup
       {[no |-> made + 1, kind |-> IF p = "free" THEN "deleted" ELSE "synced", sub |-> s,
         plan |-> IF p = "free" THEN subs[s] ELSE p, customer |-> payer[s]]}
  /\ made' = made + 1
  /\ changes' = changes + 1
  /\ UNCHANGED <<payer, shopVars, deliveryVars>>

-----------------------------------------------------------------------------

\* handleCheckoutSessionCompleted returns when the session names no plan; it names the
\* workspace.
NamesPlan(e) == e.kind = "completed" => e.plan # Unknown

\* findWorkspaceForSubscription: no subscription carries a workspace_id of its own,
\* so the row is found by its customer, or else by its subscription.
FindsSpace(e) == e.kind = "completed" \/ space.customer = e.customer \/ space.sub = e.sub

Stale(e) == newest > e.no \/ \E f \in events : f.no < e.no

\* Stripe delivers an event.  One whose workspace or plan is not found is answered with
\* success and nothing else.
Deliver(d, e) ==
  /\ ~delivery[d].busy
  /\ IF FindsSpace(e) /\ NamesPlan(e)
       THEN /\ delivery' = [delivery EXCEPT ![d] = [busy |-> TRUE, event |-> {e}]]
            /\ disordered' = (disordered \/ Stale(e))
            /\ UNCHANGED events
       ELSE events' = events \ {e} /\ UNCHANGED <<delivery, disordered>>
  /\ UNCHANGED <<space, subs, payer, customers, made, shop, newest, changes, billingFaults>>

\* Mutant: a deletion leaves the plan as it is.
Applied_KeepsPlan(e) ==
  IF e.kind = "deleted" THEN [space EXCEPT !.sub = Nil]
  ELSE [space EXCEPT !.plan = IF e.plan = Unknown THEN @ ELSE e.plan, !.sub = e.sub]

\* handleCheckoutSessionCompleted, syncSubscriptionPlan, handleSubscriptionDeleted.  A
\* price that is not configured leaves the plan as it is.
Applied(e) ==
  CASE e.kind = "deleted" -> [space EXCEPT !.plan = "free", !.sub = Nil]
    [] e.kind = "completed" -> [plan |-> e.plan, customer |-> e.customer, sub |-> e.sub]
    [] OTHER -> [plan |-> IF e.plan = Unknown THEN space.plan ELSE e.plan, sub |-> e.sub,
                 customer |-> IF space.customer = Nil THEN e.customer ELSE space.customer]

\* The handler writes the row and answers; if the answer is lost the event stays.
Apply(d) ==
  \E e \in delivery[d].event :
    /\ space' = Applied(e)
    /\ newest' = IF e.no > newest THEN e.no ELSE newest
    /\ delivery' = [delivery EXCEPT ![d] = NoDelivery]
    /\ disordered' = (disordered \/ newest > e.no)
    /\ \/ events' = events \ {e} /\ UNCHANGED billingFaults
       \/ /\ billingFaults < MaxBillingFaults
          /\ billingFaults' = billingFaults + 1
          /\ events' = events \cup {e}
    /\ UNCHANGED <<subs, payer, customers, made, shop, changes>>

\* The handler fails before its write: Stripe will deliver the event again.
DeliveryFails(d) ==
  /\ delivery[d].busy
  /\ billingFaults < MaxBillingFaults
  /\ billingFaults' = billingFaults + 1
  /\ events' = events \cup delivery[d].event
  /\ delivery' = [delivery EXCEPT ![d] = NoDelivery]
  /\ UNCHANGED <<space, subs, payer, customers, made, shop, newest, disordered, changes>>

BillingNext ==
  \/ \E q \in Shoppers :
       StartCheckout(q) \/ CreateCustomer(q) \/ SaveCustomer(q) \/ Pay(q) \/ LeaveCheckout(q)
  \/ \E s \in Subs, p \in Prices : PayElsewhere(s, p)
  \/ \E s \in Subs, p \in Prices \cup {"free"} : Change(s, p)
  \/ \E d \in Deliveries : Apply(d) \/ DeliveryFails(d) \/ \E e \in events : Deliver(d, e)

BillingSpec == BillingInit /\ [][BillingNext]_billingVars

-----------------------------------------------------------------------------

\* One sign-up at a time and events applied in the order they were made, however
\* often they fail or are repeated: once none is left, the workspace has the
\* subscription in force and the plan it pays for, or none and the free one.  Of a price
\* that is not configured no plan follows: the row keeps the one it had.
PlanIsPaidPlan ==
  events = {} /\ (\A d \in Deliveries : ~delivery[d].busy) /\ ~disordered =>
    /\ Active = {} => space.plan = "free" /\ space.sub = Nil
    /\ \A s \in Active :
         /\ space.sub = s /\ space.customer = payer[s]
         /\ subs[s] # Unknown => space.plan = subs[s]

=============================================================================
