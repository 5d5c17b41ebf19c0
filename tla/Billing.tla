-------------------------------- MODULE Billing --------------------------------
(***************************************************************************)
(* The plan of one organization: billingService.ts, webhookRepo.ts and the *)
(* Stripe account behind them.                                             *)
(*                                                                         *)
(* A first checkout opens a Stripe customer and claims it for the          *)
(* organization; every checkout expires the open sessions, looks for       *)
(* subscriptions and opens a session; every subscription event makes the   *)
(* server list the subscriptions and write the plan.  Both do so under an  *)
(* advisory lock of the customer, inside a transaction that may time out:  *)
(* then the lock is gone while the handler goes on calling Stripe.         *)
(***************************************************************************)
EXTENDS Naturals, Sequences, FiniteSets

CONSTANTS
  Customers,  \* Stripe customers
  Sessions,   \* checkout sessions; a paid one's subscription has its name
  Legacy,     \* subscriptions that are there already, maybe of other customers
  Events,     \* Stripe events, a bound on how often subscriptions change
  Requests,   \* checkouts, webhook deliveries and replays served at once
  Ops,        \* the operations of this instance
  None        \* no customer, no request, no subscription

AllOps == {"checkout", "pay", "change", "webhook"}
Paid == {"STARTER", "PRO"}
Plans == Paid \cup {"FREE"}

ASSUME OpsAssumption == Ops \subseteq AllOps
ASSUME NoneAssumption == None \notin Customers \cup Sessions \cup Legacy \cup Requests
ASSUME LegacyAssumption == Sessions \cap Legacy = {}

VARIABLES
  customerId,  \* Organization.stripeCustomerId
  plan,        \* Organization.planTier and .stripeSubscriptionId
  processed,   \* StripeWebhookEvent rows
  lock,        \* who holds the advisory lock of a customer
  req,         \* the requests in flight
  customer,    \* at Stripe: the customers,
  session,     \*   the status of the checkout sessions,
  of,          \*   the customer of a session or subscription,
  price,       \*   its tier,
  item,        \*   whether it has a price, and one of PRICE_MAP,
  sub,         \*   the status of the subscriptions,
  event,       \*   the customer an event is about
  known,       \* sessions whose URL has reached a browser
  entitled,    \* history: every tier the subscriptions amounted to, oldest first
  synced       \* history: which of them the plan was written from

orgVars == <<customerId, plan, processed, synced>>
stripeVars == <<customer, session, of, price, item, sub, event, entitled>>
vars == <<customerId, plan, processed, lock, req, customer, session, of, price, item, sub,
          event, known, entitled, synced>>

---------------------------------------------------------------------------
Subscriptions == Sessions \cup Legacy

\* active stands for trialing and past_due too, unpaid for paused and incomplete,
\* canceled for incomplete_expired: no code below tells them apart.
SubscriptionStatus == {"none", "active", "unpaid", "canceled"}

CouldStillBill(s) == sub[s] \in {"active", "unpaid"}
Entitling(c) == {s \in Subscriptions : sub[s] = "active" /\ of[s] = c}

\* The paying subscriptions that mapPriceIdToTier gives no tier.  Their price is the last
\* one it could map.
Unmapped(c) == {s \in Entitling(c) : item[s] # "known"}

Rank(p) == CASE p = "FREE" -> 0 [] p = "STARTER" -> 1 [] p = "PRO" -> 2

\* A mutant: the plan ends but the subscription stays.
PicksKeeping(c) ==
  IF Entitling(c) = {}
  THEN {[tier |-> "FREE", subscription |-> s] : s \in {t \in Subscriptions : of[t] = c} \cup {None}}
  ELSE {[tier |-> price[s], subscription |-> s] : s \in Entitling(c)}

\* pickEntitlement; which of equals is the newest is not told apart.
Picks(c) ==
  IF Entitling(c) = {}
  THEN {[tier |-> "FREE", subscription |-> None]}
  ELSE {[tier |-> price[s], subscription |-> s] :
          s \in {t \in Entitling(c) : \A u \in Entitling(c) : Rank(price[u]) <= Rank(price[t])}}

\* The tier the subscriptions amount to.
Tier(c) == (CHOOSE pick \in Picks(c) : TRUE).tier

Idle == [phase |-> "idle"]

Phases == {"read", "opened", "wait", "locked", "expiring", "checked", "listed", "made",
           "unknown", "unpriced"}

CheckoutHandlers ==
  [phase : Phases, op : {"checkout"}, tier : Paid, customer : Customers \cup {None},
   open : SUBSET Sessions, session : Sessions \cup {None}]

WebhookHandlers ==
  [phase : Phases, op : {"webhook"}, event : Events, customer : Customers,
   pick : [tier : Plans, subscription : Subscriptions \cup {None}], at : Nat]

Handlers == CheckoutHandlers \cup WebhookHandlers

At(r, op, phase) == req[r].phase = phase /\ req[r].op = op
Goes(r, phase) == req' = [req EXCEPT ![r].phase = phase]
Serves(r, e) == req[r] # Idle /\ req[r].op = "webhook" /\ req[r].event = e
HoldsLock(r) == lock[req[r].customer] = r
Released(r) == [c \in Customers |-> IF lock[c] = r THEN None ELSE lock[c]]
Finish(r) == req' = [req EXCEPT ![r] = Idle] /\ lock' = Released(r)

---------------------------------------------------------------------------
(* Checkout: createCheckoutSession.                                        *)

CheckoutRead(r, tier) ==
  /\ "checkout" \in Ops
  /\ req[r] = Idle
  /\ req' = [req EXCEPT ![r] =
       [phase |-> IF customerId = None THEN "read" ELSE "wait", op |-> "checkout",
        tier |-> tier, customer |-> customerId, open |-> {}, session |-> None]]
  /\ UNCHANGED <<orgVars, stripeVars, lock, known>>

CreateCustomer(r, c) ==
  /\ At(r, "checkout", "read")
  /\ customer[c] = "none"
  /\ customer' = [customer EXCEPT ![c] = "live"]
  /\ req' = [req EXCEPT ![r].phase = "opened", ![r].customer = c]
  /\ UNCHANGED <<orgVars, session, of, price, item, sub, event, entitled, lock, known>>

ClaimCustomerAnyway(r) ==                                        \* a mutant
  /\ At(r, "checkout", "opened")
  /\ customerId' = req[r].customer
  /\ Goes(r, "wait")
  /\ UNCHANGED <<plan, processed, synced, stripeVars, lock, known>>

\* The UPDATE that only stores a customer where there is none.
ClaimCustomer(r) ==
  /\ At(r, "checkout", "opened")
  /\ customerId = None
  /\ customerId' = req[r].customer
  /\ Goes(r, "wait")
  /\ UNCHANGED <<plan, processed, synced, stripeVars, lock, known>>

LoseClaimKeepingCustomer(r) ==                                   \* a mutant
  /\ At(r, "checkout", "opened")
  /\ customerId # None
  /\ Goes(r, "wait")
  /\ UNCHANGED <<orgVars, stripeVars, lock, known>>

\* Somebody stored another one: this one is deleted, unless that fails.
LoseClaim(r) ==
  /\ At(r, "checkout", "opened")
  /\ customerId # None
  /\ \E left \in {"live", "deleted"} : customer' = [customer EXCEPT ![req[r].customer] = left]
  /\ req' = [req EXCEPT ![r].phase = "wait", ![r].customer = customerId]
  /\ UNCHANGED <<orgVars, session, of, price, item, sub, event, entitled, lock, known>>

\* lockStripeCustomerTx, first thing in both transactions.
Lock(r) ==
  /\ req[r].phase = "wait"
  /\ lock[req[r].customer] = None
  /\ lock' = [lock EXCEPT ![req[r].customer] = r]
  /\ Goes(r, "locked")
  /\ UNCHANGED <<orgVars, stripeVars, known>>

ListOpenSessions(r) ==
  /\ At(r, "checkout", "locked")
  /\ req' = [req EXCEPT ![r].phase = "expiring", ![r].open =
               {s \in Sessions : session[s] = "open" /\ of[s] = req[r].customer}]
  /\ UNCHANGED <<orgVars, stripeVars, lock, known>>

\* Stripe refuses to expire a session that is not open: the checkout then fails.
ExpireSession(r, s) ==
  /\ At(r, "checkout", "expiring")
  /\ s \in req[r].open
  /\ session[s] = "open"
  /\ session' = [session EXCEPT ![s] = "expired"]
  /\ req' = [req EXCEPT ![r].open = @ \ {s}]
  /\ UNCHANGED <<orgVars, customer, of, price, item, sub, event, entitled, lock, known>>

CheckSubscriptionsFirst(r) ==                                    \* a mutant
  /\ At(r, "checkout", "expiring")
  /\ \A s \in Subscriptions : of[s] = req[r].customer => ~CouldStillBill(s)
  /\ Goes(r, "checked")
  /\ UNCHANGED <<orgVars, stripeVars, lock, known>>

CheckSubscriptions(r) ==
  /\ At(r, "checkout", "expiring")
  /\ req[r].open = {}
  /\ \A s \in Subscriptions : of[s] = req[r].customer => ~CouldStillBill(s)
  /\ Goes(r, "checked")
  /\ UNCHANGED <<orgVars, stripeVars, lock, known>>

CreateSession(r, s) ==
  /\ At(r, "checkout", "checked")
  /\ session[s] = "none"
  /\ session' = [session EXCEPT ![s] = "open"]
  /\ of' = [of EXCEPT ![s] = req[r].customer]
  /\ price' = [price EXCEPT ![s] = req[r].tier]
  /\ req' = [req EXCEPT ![r].phase = "made", ![r].session = s]
  /\ UNCHANGED <<orgVars, customer, item, sub, event, entitled, lock, known>>

ReturnUrlUncommitted(r) ==                                       \* a mutant
  /\ At(r, "checkout", "made")
  /\ known' = known \cup {req[r].session}
  /\ Finish(r)
  /\ UNCHANGED <<orgVars, stripeVars>>

\* The URL is returned after the commit, which fails once the transaction timed out.
ReturnUrl(r) ==
  /\ At(r, "checkout", "made")
  /\ HoldsLock(r)
  /\ known' = known \cup {req[r].session}
  /\ Finish(r)
  /\ UNCHANGED <<orgVars, stripeVars>>

---------------------------------------------------------------------------
(* Stripe.  What happens to a subscription is announced by an event, which *)
(* says whose it is; what else it says is never read.                      *)

Announce(c, e) == event[e] = None /\ event' = [event EXCEPT ![e] = c]

\* Somebody pays at a URL; the payment may take a while.
Pay(s, e) ==
  /\ "pay" \in Ops
  /\ session[s] = "open" /\ s \in known
  /\ session' = [session EXCEPT ![s] = "complete"]
  /\ \E status \in {"active", "unpaid"} : sub' = [sub EXCEPT ![s] = status]
  /\ Announce(of[s], e)
  /\ UNCHANGED <<orgVars, customer, of, price, item, lock, known, req>>
  /\ entitled' = Append(entitled, Tier(customerId)')

\* Cards fail and recover, customers cancel or change plans in the portal, and somebody may
\* take the price from a subscription or give it one that the server does not know, until
\* it has a known one again.
ChangeSubscription(s, e) ==
  /\ "change" \in Ops
  /\ CouldStillBill(s)
  /\ \/ \E status \in SubscriptionStatus \ {"none", sub[s]} :
          sub' = [sub EXCEPT ![s] = status] /\ UNCHANGED <<price, item>>
     \/ \E tier \in Paid :
          /\ tier # price[s] \/ item[s] # "known"
          /\ price' = [price EXCEPT ![s] = tier]
          /\ item' = [item EXCEPT ![s] = "known"]
          /\ UNCHANGED sub
     \/ \E lost \in {"none", "unknown"} \ {item[s]} :
          item' = [item EXCEPT ![s] = lost] /\ UNCHANGED <<price, sub>>
  /\ Announce(of[s], e)
  /\ UNCHANGED <<orgVars, customer, session, of, lock, known, req>>
  /\ entitled' = Append(entitled, Tier(customerId)')

---------------------------------------------------------------------------
(* Events: processStripeEvent, delivered by Stripe in any order, more than *)
(* once and several at a time, or replayed by reconcileStripeEvents.  An   *)
(* event that has been processed already changes nothing.                  *)

Receive(r, e) ==
  /\ "webhook" \in Ops
  /\ req[r] = Idle
  /\ event[e] # None
  /\ e \notin processed
  /\ req' = [req EXCEPT ![r] =
       [phase |-> IF event[e] = customerId THEN "wait" ELSE "unknown", op |-> "webhook",
        event |-> e, customer |-> event[e],
        pick |-> [tier |-> "FREE", subscription |-> None], at |-> 0]]
  /\ UNCHANGED <<orgVars, stripeVars, lock, known>>

\* A customer no organization has: the event is recorded, and never looked at again.
RecordUnknown(r) ==
  /\ At(r, "webhook", "unknown")
  /\ req[r].event \notin processed
  /\ processed' = processed \cup {req[r].event}
  /\ Finish(r)
  /\ UNCHANGED <<customerId, plan, synced, stripeVars, known>>

ListOrGiveUp(r) ==                                               \* a mutant
  /\ At(r, "webhook", "locked")
  /\ Unmapped(req[r].customer) = {}
  /\ \/ /\ \E pick \in Picks(req[r].customer) :
             req' = [req EXCEPT ![r].phase = "listed", ![r].pick = pick, ![r].at = Len(entitled)]
        /\ UNCHANGED <<processed, lock>>
     \/ processed' = processed \cup {req[r].event} /\ Finish(r)
  /\ UNCHANGED <<customerId, plan, synced, stripeVars, known>>

\* mapPriceIdToTier throws at a price it does not know: then there is only Rollback.
ListSubscriptions(r) ==
  /\ At(r, "webhook", "locked")
  /\ Unmapped(req[r].customer) = {}
  /\ \E pick \in Picks(req[r].customer) :
       req' = [req EXCEPT ![r].phase = "listed", ![r].pick = pick, ![r].at = Len(entitled)]
  /\ UNCHANGED <<orgVars, stripeVars, lock, known>>

\* A paying subscription has no price: the transaction commits with nothing written,
SkipUnpriced(r) ==
  /\ At(r, "webhook", "locked")
  /\ HoldsLock(r)
  /\ \E s \in Entitling(req[r].customer) : item[s] = "none"
  /\ Goes(r, "unpriced")
  /\ lock' = Released(r)
  /\ UNCHANGED <<orgVars, stripeVars, known>>

\* and the event is recorded after it: it is never looked at again.
RecordUnpriced(r) ==
  /\ At(r, "webhook", "unpriced")
  /\ req[r].event \notin processed
  /\ processed' = processed \cup {req[r].event}
  /\ Finish(r)
  /\ UNCHANGED <<customerId, plan, synced, stripeVars, known>>

WritePlanUnlocked(r) ==                                          \* a mutant
  /\ At(r, "webhook", "listed")
  /\ req[r].event \notin processed
  /\ processed' = processed \cup {req[r].event}
  /\ plan' = req[r].pick
  /\ synced' = req[r].at
  /\ Finish(r)
  /\ UNCHANGED <<customerId, stripeVars, known>>

\* The unique index on the event's id refuses a second record of it.
WritePlan(r) ==
  /\ At(r, "webhook", "listed")
  /\ HoldsLock(r)
  /\ req[r].event \notin processed
  /\ processed' = processed \cup {req[r].event}
  /\ plan' = req[r].pick
  /\ synced' = req[r].at
  /\ Finish(r)
  /\ UNCHANGED <<customerId, stripeVars, known>>

---------------------------------------------------------------------------
\* After 30 s the transaction is rolled back: the lock is free, and the handler goes
\* on until it next needs its transaction.
TimeOut(r) ==
  /\ \E c \in Customers : lock[c] = r
  /\ lock' = Released(r)
  /\ UNCHANGED <<orgVars, stripeVars, req, known>>

\* The handler refuses, Stripe or the database fails, or the invocation dies.
Rollback(r) ==
  /\ req[r] # Idle
  /\ Finish(r)
  /\ UNCHANGED <<orgVars, stripeVars, known>>

Init ==
  /\ processed = {}
  /\ lock = [c \in Customers |-> None]
  /\ req = [r \in Requests |-> Idle]
  /\ session = [s \in Sessions |-> "none"]
  /\ event = [e \in Events |-> None]
  /\ known = {}
  /\ price \in {f \in [Subscriptions -> Paid] : \A s \in Sessions : f[s] = "STARTER"}
  /\ item = [s \in Subscriptions |-> "known"]
  /\ sub \in {f \in [Subscriptions -> SubscriptionStatus] :
               \A s \in Subscriptions : f[s] = "none" <=> s \in Sessions}
  /\ \E owner \in [Legacy -> Customers] :
       of = [s \in Subscriptions |-> IF s \in Legacy THEN owner[s] ELSE None]
  /\ customerId \in Customers \cup {None}
  /\ customer = [c \in Customers |->
       IF c = customerId \/ \E s \in Legacy : of[s] = c THEN "live" ELSE "none"]
  /\ plan \in Picks(customerId)
  /\ entitled = <<plan.tier>>
  /\ synced = 1

CheckoutNext(r) ==
  \/ \E tier \in Paid : CheckoutRead(r, tier)
  \/ \E c \in Customers : CreateCustomer(r, c)
  \/ ClaimCustomer(r)
  \/ LoseClaim(r)
  \/ ListOpenSessions(r)
  \/ \E s \in Sessions : ExpireSession(r, s) \/ CreateSession(r, s)
  \/ CheckSubscriptions(r)
  \/ ReturnUrl(r)

WebhookNext(r) ==
  \/ \E e \in Events : Receive(r, e)
  \/ RecordUnknown(r)
  \/ ListSubscriptions(r)
  \/ SkipUnpriced(r)
  \/ RecordUnpriced(r)
  \/ WritePlan(r)

StripeNext ==
  \E e \in Events :
    \/ \E s \in Sessions : Pay(s, e)
    \/ \E s \in Subscriptions : ChangeSubscription(s, e)

Next ==
  \/ \E r \in Requests :
       CheckoutNext(r) \/ WebhookNext(r) \/ Lock(r) \/ TimeOut(r) \/ Rollback(r)
  \/ StripeNext

Spec == Init /\ [][Next]_vars

\* Every invocation ends, and Stripe delivers an event again until it is processed: not
\* every delivery is cut short before its transaction has done its work.
Fairness ==
  /\ \A r \in Requests : WF_vars(Rollback(r))
  /\ \A e \in Events :
       /\ SF_vars(\E r \in Requests : Receive(r, e))
       /\ SF_vars(\E r \in Requests : Serves(r, e) /\ Lock(r))
       /\ SF_vars(\E r \in Requests :
            Serves(r, e) /\ HoldsLock(r) /\ (ListSubscriptions(r) \/ SkipUnpriced(r)))
       /\ SF_vars(\E r \in Requests :
            Serves(r, e) /\ (WritePlan(r) \/ RecordUnknown(r) \/ RecordUnpriced(r)))

FairSpec == Spec /\ Fairness

---------------------------------------------------------------------------
\* Columns and Stripe objects stay within their types, and a handler holds what it read.
TypeOK ==
  /\ customerId \in Customers \cup {None}
  /\ plan \in [tier : Plans, subscription : Subscriptions \cup {None}]
  /\ plan.tier = "FREE" <=> plan.subscription = None
  /\ processed \subseteq Events
  /\ lock \in [Customers -> Requests \cup {None}]
  /\ req \in [Requests -> Handlers \cup {Idle}]
  /\ customer \in [Customers -> {"none", "live", "deleted"}]
  /\ session \in [Sessions -> {"none", "open", "expired", "complete"}]
  /\ of \in [Subscriptions -> Customers \cup {None}]
  /\ price \in [Subscriptions -> Paid]
  /\ item \in [Subscriptions -> {"known", "none", "unknown"}]
  /\ sub \in [Subscriptions -> SubscriptionStatus]
  /\ event \in [Events -> Customers \cup {None}]
  /\ known \subseteq Sessions
  /\ entitled \in Seq(Plans)
  /\ synced \in 1 .. Len(entitled)

\* No payment starts a subscription beside one of the same customer that could still
\* bill: whatever checkouts, timed-out checkouts and payments interleave, only one open
\* session can be paid, and none beside an older subscription (the comments at
\* billingService.ts:373 and :402).
NoDoubleBilling ==
  [][\A s \in Sessions : sub[s] = "none" /\ sub'[s] # "none" =>
       \A u \in Subscriptions \ {s} : of[u] = of[s] => ~CouldStillBill(u)]_vars

\* Every session of this organization, and so every payment, belongs to the customer that
\* is stored for it and still exists, although first checkouts race to create one: "a
\* payment against the other would never be matched to this org" (billingService.ts:353).
PaymentsReachOrg ==
  \A s \in Sessions : session[s] # "none" =>
    of[s] = customerId /\ customer[customerId] = "live"

\* Once every event about the stored customer is processed, in whatever order and however
\* often they came, the plan is the one its subscriptions amount to.  While a paying one
\* has no price or an unknown one, the plan stays what it was; events that were skipped
\* meanwhile are made up for by the one that says it has a price again.
SettledPlanIsExact ==
  (\A e \in Events : event[e] # None => e \in processed) /\ Unmapped(customerId) = {} =>
    plan.tier = Tier(customerId)

\* The plan mirrors Stripe: "an older list can never commit after a newer one"
\* (webhookRepo.ts:46).
Mirror == INSTANCE PlanMirror WITH at <- synced, tier <- plan.tier
MirrorSpec == Mirror!Spec

\* The plan becomes what the subscriptions amount to and stays it, once they stay and every
\* paying one has a price that is known.
PlanCatchesUp == <>[](plan.tier = Tier(customerId) \/ Unmapped(customerId) # {})
=============================================================================
