----------------------------- MODULE BillingProofs -----------------------------
(* Theorems about Billing, for every set of customers, sessions, older      *)
(* subscriptions, events, requests and operations.                          *)
EXTENDS Billing, SequenceTheorems, TLAPS

---------------------------------------------------------------------------
(* The inductive invariant.                                                *)

\* A customer that a checkout has opened and nobody knows of.
Fresh(c) ==
  /\ c \in Customers /\ c # customerId
  /\ customer[c] = "live"
  /\ \A s \in Subscriptions : of[s] # c
  /\ \A e \in Events : event[e] # c

Opened(r) == req[r] # Idle /\ req[r].phase = "opened"

\* What each handler has in hand, by its operation and how far it is.
HoldsOpened(r) ==
  Opened(r) =>
    /\ req[r].op = "checkout"
    /\ Fresh(req[r].customer)
    /\ \A q \in Requests \ {r} : Opened(q) => req[q].customer # req[r].customer

HoldsStored(r) ==
  req[r] # Idle /\ req[r].phase \in {"wait", "locked", "expiring", "checked", "listed", "made", "unpriced"} =>
    customerId # None /\ req[r].customer = customerId

HoldsEvent(r) ==
  req[r] # Idle /\ req[r].op = "webhook" =>
    /\ event[req[r].event] = req[r].customer
    /\ req[r].phase \in {"wait", "locked", "listed", "unknown", "unpriced"}
    /\ req[r].phase = "unknown" => req[r].customer # customerId
    /\ req[r].pick.tier = "FREE" <=> req[r].pick.subscription = None

HoldsSession(r) ==
  req[r] # Idle /\ req[r].phase = "made" =>
    /\ req[r].op = "checkout"
    /\ req[r].session \in Sessions /\ session[req[r].session] # "none"

HandlersHold ==
  \A r \in Requests : HoldsOpened(r) /\ HoldsStored(r) /\ HoldsEvent(r) /\ HoldsSession(r)

\* Only who is inside the transaction holds the lock.
LocksHold ==
  \A c \in Customers, r \in Requests :
    lock[c] = r =>
      /\ req[r] # Idle
      /\ req[r].phase \in {"locked", "expiring", "checked", "listed", "made"}
      /\ req[r].customer = c

\* Whose the objects at Stripe are.
StripeHolds ==
  /\ customerId # None => customer[customerId] = "live"
  /\ \A s \in Subscriptions : of[s] # None => customer[of[s]] # "none"
  /\ \A s \in Subscriptions : sub[s] # "none" => of[s] # None
  /\ \A e \in Events : event[e] # None => customer[event[e]] # "none"
  /\ \A s \in Sessions :
       /\ session[s] = "none" => of[s] = None
       /\ session[s] # "none" => customerId # None /\ of[s] = customerId
       /\ sub[s] # "none" => session[s] = "complete"
  /\ \A s \in known : session[s] # "none"
  /\ \A e \in processed : event[e] # None

Payable(s) == s \in known /\ session[s] = "open"

\* At most one session can be paid, and only where no subscription could bill; a checkout
\* that still holds the lock has expired every other before it makes its own.
PaymentsHold ==
  /\ \A s, t \in Sessions : Payable(s) /\ Payable(t) => s = t
  /\ \A s \in Sessions : Payable(s) =>
       \A u \in Subscriptions : of[u] = customerId => ~CouldStillBill(u)
  /\ \A r \in Requests : At(r, "checkout", "expiring") /\ HoldsLock(r) =>
       \A s \in Sessions : Payable(s) => s \in req[r].open
  /\ \A r \in Requests :
       (At(r, "checkout", "checked") \/ At(r, "checkout", "made")) /\ HoldsLock(r) =>
         /\ \A s \in Sessions : ~Payable(s)
         /\ \A u \in Subscriptions : of[u] = customerId => ~CouldStillBill(u)

\* No handler is about to record the event without having written the plan.
Unskipped(e) == \A r \in Requests : ~(At(r, "webhook", "unpriced") /\ req[r].event = e)

\* The plan may differ: a paying subscription has no price that is known, and the event
\* that says it has is still to come, or an event of the organization, other than those
\* given, is still to be processed, and by somebody who writes the plan.
Pending(but) ==
  \/ Unmapped(customerId) # {}
  \/ /\ customerId # None
     /\ \E e \in Events \ but : event[e] = customerId /\ e \notin processed /\ Unskipped(e)

\* The plan, and the list under the lock, are states of the subscriptions, and while one
\* is not the last state an event of it is still to be processed.
MirrorHolds ==
  /\ entitled[Len(entitled)] = Tier(customerId)
  /\ plan.tier = entitled[synced]
  /\ plan.tier # Tier(customerId) => Pending({})
  /\ \A r \in Requests : At(r, "webhook", "listed") /\ HoldsLock(r) =>
       /\ req[r].at \in synced .. Len(entitled)
       /\ req[r].pick.tier = entitled[req[r].at]
       /\ req[r].pick.tier # Tier(customerId) => Pending({req[r].event})

BillingInv ==
  /\ TypeOK
  /\ HandlersHold
  /\ LocksHold
  /\ StripeHolds
  /\ PaymentsHold
  /\ MirrorHolds

---------------------------------------------------------------------------
(* What a tier amounts to.                                                 *)

LEMMA RankOrder == Rank("FREE") = 0 /\ Rank("STARTER") = 1 /\ Rank("PRO") = 2
BY DEF Rank

LEMMA PicksType ==
  ASSUME price \in [Subscriptions -> Paid], NEW c, NEW pick \in Picks(c)
  PROVE  /\ pick \in [tier : Plans, subscription : Subscriptions \cup {None}]
         /\ pick.tier = "FREE" <=> pick.subscription = None
<1>1. None \notin Subscriptions
  BY NoneAssumption DEF Subscriptions
<1>2. CASE Entitling(c) = {}
  BY <1>2 DEF Picks, Plans
<1>3. CASE Entitling(c) # {}
  <2>1. PICK s \in Entitling(c) : pick = [tier |-> price[s], subscription |-> s]
    BY <1>3 DEF Picks
  <2>2. price[s] \in Paid /\ s \in Subscriptions
    BY DEF Entitling
  <2> QED
    BY <1>1, <2>1, <2>2 DEF Plans, Paid
<1> QED
  BY <1>2, <1>3

\* There is a best subscription where there is one, and all best ones are of one tier.
LEMMA PicksTier ==
  ASSUME price \in [Subscriptions -> Paid], NEW c
  PROVE  /\ Picks(c) # {}
         /\ \A pick \in Picks(c) : pick.tier = Tier(c)
<1>1. CASE Entitling(c) = {}
  <2>1. Picks(c) = {[tier |-> "FREE", subscription |-> None]}
    BY <1>1 DEF Picks
  <2> QED
    BY <2>1 DEF Tier
<1>2. CASE Entitling(c) # {}
  <2> DEFINE Best == {t \in Entitling(c) : \A u \in Entitling(c) : Rank(price[u]) <= Rank(price[t])}
  <2>1. \A s \in Entitling(c) : price[s] \in {"STARTER", "PRO"}
    BY DEF Entitling, Paid
  <2>2. Best # {}
    <3>1. CASE \E s \in Entitling(c) : price[s] = "PRO"
      BY <2>1, <3>1, RankOrder
    <3>2. CASE \A s \in Entitling(c) : price[s] = "STARTER"
      BY <1>2, <3>2, RankOrder
    <3> QED
      BY <2>1, <3>1, <3>2
  <2>3. \A s, t \in Best : price[s] = price[t]
    BY <2>1, RankOrder
  <2>4. Picks(c) = {[tier |-> price[s], subscription |-> s] : s \in Best}
    BY <1>2 DEF Picks
  <2>5. Picks(c) # {}
    BY <2>2, <2>4
  <2>6. \A x, y \in Picks(c) : x.tier = y.tier
    BY <2>3, <2>4
  <2> QED
    BY <2>5, <2>6 DEF Tier
<1> QED
  BY <1>1, <1>2

LEMMA TierType == price \in [Subscriptions -> Paid] => Tier(customerId) \in Plans
BY PicksTier, PicksType

\* What does not touch the subscriptions that entitle leaves the tier.
LEMMA TierKept ==
  ASSUME Entitling(customerId)' = Entitling(customerId),
         \A s \in Entitling(customerId) : price'[s] = price[s]
  PROVE  Tier(customerId)' = Tier(customerId)
<1> DEFINE Best == {t \in Entitling(customerId) :
                      \A u \in Entitling(customerId) : Rank(price[u]) <= Rank(price[t])}
<1>1. Best' = Best
  BY DEF Rank
<1>2. {[tier |-> price[s], subscription |-> s] : s \in Best}'
        = {[tier |-> price[s], subscription |-> s] : s \in Best}
  BY <1>1
<1>3. Picks(customerId)' = Picks(customerId)
  BY <1>2 DEF Picks
<1> QED
  BY <1>3 DEF Tier

---------------------------------------------------------------------------
(* Types.                                                                  *)

LEMMA AtCheckout ==
  ASSUME TypeOK, NEW r \in Requests, NEW phase \in Phases, At(r, "checkout", phase)
  PROVE  req[r] \in CheckoutHandlers /\ req[r] # Idle
BY DEF TypeOK, At, Idle, Phases, Handlers, WebhookHandlers

LEMMA AtWebhook ==
  ASSUME TypeOK, NEW r \in Requests, NEW phase \in Phases, At(r, "webhook", phase)
  PROVE  req[r] \in WebhookHandlers /\ req[r] # Idle
BY DEF TypeOK, At, Idle, Phases, Handlers, CheckoutHandlers

LEMMA InFlight ==
  ASSUME TypeOK, NEW r \in Requests, req[r] # Idle
  PROVE  /\ req[r] \in CheckoutHandlers \/ req[r] \in WebhookHandlers
         /\ req[r].op = "checkout" <=> req[r] \in CheckoutHandlers
         /\ req[r].op = "webhook" <=> req[r] \in WebhookHandlers
BY DEF TypeOK, Handlers, CheckoutHandlers, WebhookHandlers

\* A request that takes a handler on.
LEMMA SetType ==
  ASSUME TypeOK, NEW r \in Requests, NEW h \in Handlers \cup {Idle},
         req' = [req EXCEPT ![r] = h]
  PROVE  req' \in [Requests -> Handlers \cup {Idle}]
BY DEF TypeOK

LEMMA GoesType ==
  ASSUME TypeOK, NEW r \in Requests, req[r] # Idle, NEW phase \in Phases, Goes(r, phase)
  PROVE  req' \in [Requests -> Handlers \cup {Idle}]
<1>1. [req[r] EXCEPT !.phase = phase] \in Handlers
  <2>1. CASE req[r] \in CheckoutHandlers
    BY <2>1 DEF Handlers, CheckoutHandlers
  <2>2. CASE req[r] \in WebhookHandlers
    BY <2>2 DEF Handlers, WebhookHandlers
  <2> QED
    BY <2>1, <2>2, InFlight
<1> QED
  BY <1>1, SetType DEF Goes

LEMMA ReleasedType ==
  ASSUME TypeOK, NEW r \in Requests
  PROVE  Released(r) \in [Customers -> Requests \cup {None}]
BY DEF TypeOK, Released

LEMMA FinishType ==
  ASSUME TypeOK, NEW r \in Requests, Finish(r)
  PROVE  /\ req' \in [Requests -> Handlers \cup {Idle}]
         /\ lock' \in [Customers -> Requests \cup {None}]
BY ReleasedType DEF TypeOK, Finish

\* What a step that touches no column and no object of Stripe leaves to show.
LEMMA HandlersType ==
  ASSUME TypeOK, UNCHANGED <<orgVars, stripeVars>>,
         req' \in [Requests -> Handlers \cup {Idle}],
         lock' \in [Customers -> Requests \cup {None}],
         known' \subseteq Sessions
  PROVE  TypeOK'
BY DEF TypeOK, orgVars, stripeVars

LEMMA CheckoutType ==
  ASSUME BillingInv, NEW r \in Requests, CheckoutNext(r)
  PROVE  TypeOK'
<1> TypeOK
  BY DEF BillingInv
<1> lock \in [Customers -> Requests \cup {None}] /\ known \subseteq Sessions
  BY DEF TypeOK
<1> USE DEF Phases
<1>1. ASSUME NEW tier \in Paid, CheckoutRead(r, tier) PROVE TypeOK'
  <2> DEFINE h == [phase |-> IF customerId = None THEN "read" ELSE "wait", op |-> "checkout",
                   tier |-> tier, customer |-> customerId, open |-> {}, session |-> None]
  <2>1. h \in Handlers
    BY DEF Handlers, CheckoutHandlers, TypeOK
  <2> QED
    BY <1>1, <2>1, SetType, HandlersType DEF CheckoutRead
<1>2. ASSUME NEW c \in Customers, CreateCustomer(r, c) PROVE TypeOK'
  <2>1. req[r] \in CheckoutHandlers
    BY <1>2, AtCheckout DEF CreateCustomer
  <2>2. [req[r] EXCEPT !.phase = "opened", !.customer = c] \in Handlers
    BY <2>1 DEF Handlers, CheckoutHandlers
  <2> req' = [req EXCEPT ![r] = [req[r] EXCEPT !.phase = "opened", !.customer = c]]
    BY <1>2 DEF CreateCustomer, TypeOK
  <2>3. req' \in [Requests -> Handlers \cup {Idle}]
    BY <2>2, SetType
  <2> QED
    BY <1>2, <2>3 DEF CreateCustomer, TypeOK, orgVars
<1>3. CASE ClaimCustomer(r)
  <2>1. req[r] \in CheckoutHandlers /\ req[r] # Idle
    BY <1>3, AtCheckout DEF ClaimCustomer
  <2>2. req' \in [Requests -> Handlers \cup {Idle}]
    BY <1>3, <2>1, GoesType DEF ClaimCustomer
  <2> QED
    BY <1>3, <2>1, <2>2 DEF ClaimCustomer, TypeOK, CheckoutHandlers, stripeVars
<1>4. CASE LoseClaim(r)
  <2>1. req[r] \in CheckoutHandlers
    BY <1>4, AtCheckout DEF LoseClaim
  <2>2. [req[r] EXCEPT !.phase = "wait", !.customer = customerId] \in Handlers
    BY <2>1 DEF Handlers, CheckoutHandlers, TypeOK
  <2> req' = [req EXCEPT ![r] = [req[r] EXCEPT !.phase = "wait", !.customer = customerId]]
    BY <1>4 DEF LoseClaim, TypeOK
  <2>3. req' \in [Requests -> Handlers \cup {Idle}]
    BY <2>2, SetType
  <2>4. customer' \in [Customers -> {"none", "live", "deleted"}]
    BY <1>4 DEF LoseClaim, TypeOK
  <2> QED
    BY <1>4, <2>3, <2>4 DEF LoseClaim, TypeOK, orgVars
<1>5. CASE ListOpenSessions(r)
  <2>1. req[r] \in CheckoutHandlers
    BY <1>5, AtCheckout DEF ListOpenSessions
  <2> DEFINE open == {s \in Sessions : session[s] = "open" /\ of[s] = req[r].customer}
  <2>2. [req[r] EXCEPT !.phase = "expiring", !.open = open] \in Handlers
    BY <2>1 DEF Handlers, CheckoutHandlers
  <2> req' = [req EXCEPT ![r] = [req[r] EXCEPT !.phase = "expiring", !.open = open]]
    BY <1>5 DEF ListOpenSessions, TypeOK
  <2> QED
    BY <1>5, <2>2, SetType, HandlersType DEF ListOpenSessions
<1>6. ASSUME NEW s \in Sessions, ExpireSession(r, s) PROVE TypeOK'
  <2>1. req[r] \in CheckoutHandlers
    BY <1>6, AtCheckout DEF ExpireSession
  <2>2. [req[r] EXCEPT !.open = @ \ {s}] \in Handlers
    BY <2>1 DEF Handlers, CheckoutHandlers
  <2>3. req' \in [Requests -> Handlers \cup {Idle}]
    BY <1>6, <2>2, SetType DEF ExpireSession
  <2> QED
    BY <1>6, <2>3 DEF ExpireSession, TypeOK, orgVars
<1>7. ASSUME NEW s \in Sessions, CreateSession(r, s) PROVE TypeOK'
  <2>1. req[r] \in CheckoutHandlers
    BY <1>7, AtCheckout DEF CreateSession
  <2>2. [req[r] EXCEPT !.phase = "made", !.session = s] \in Handlers
    BY <2>1 DEF Handlers, CheckoutHandlers
  <2> req' = [req EXCEPT ![r] = [req[r] EXCEPT !.phase = "made", !.session = s]]
    BY <1>7 DEF CreateSession, TypeOK
  <2>3. req' \in [Requests -> Handlers \cup {Idle}]
    BY <2>2, SetType
  <2>4. req[r].customer \in Customers \cup {None} /\ req[r].tier \in Paid
    BY <2>1 DEF CheckoutHandlers
  <2> QED
    BY <1>7, <2>3, <2>4 DEF CreateSession, TypeOK, orgVars
<1>8. CASE CheckSubscriptions(r)
  BY <1>8, AtCheckout, GoesType, HandlersType DEF CheckSubscriptions
<1>9. CASE ReturnUrl(r)
  <2>1. req[r].session \in Sessions
    BY <1>9, AtCheckout DEF ReturnUrl, At, BillingInv, HandlersHold, HoldsSession
  <2> QED
    BY <1>9, <2>1, FinishType, HandlersType DEF ReturnUrl
<1> QED
  BY <1>1, <1>2, <1>3, <1>4, <1>5, <1>6, <1>7, <1>8, <1>9 DEF CheckoutNext

LEMMA WebhookType ==
  ASSUME BillingInv, NEW r \in Requests, WebhookNext(r)
  PROVE  TypeOK'
<1> TypeOK
  BY DEF BillingInv
<1> lock \in [Customers -> Requests \cup {None}] /\ known \subseteq Sessions
  BY DEF TypeOK
<1> USE DEF Phases
<1>1. ASSUME NEW e \in Events, Receive(r, e) PROVE TypeOK'
  <2> DEFINE h == [phase |-> IF event[e] = customerId THEN "wait" ELSE "unknown",
                   op |-> "webhook", event |-> e, customer |-> event[e],
                   pick |-> [tier |-> "FREE", subscription |-> None], at |-> 0]
  <2>1. h \in Handlers
    BY <1>1 DEF Handlers, WebhookHandlers, Receive, TypeOK, Plans
  <2> QED
    BY <1>1, <2>1, SetType, HandlersType DEF Receive
<1>2. CASE RecordUnknown(r)
  <2>1. req[r] \in WebhookHandlers
    BY <1>2, AtWebhook DEF RecordUnknown
  <2> QED
    BY <1>2, <2>1, FinishType DEF RecordUnknown, WebhookHandlers, TypeOK, stripeVars
<1>3. CASE ListSubscriptions(r)
  <2>1. req[r] \in WebhookHandlers
    BY <1>3, AtWebhook DEF ListSubscriptions
  <2>2. PICK pick \in Picks(req[r].customer) :
          req' = [req EXCEPT ![r].phase = "listed", ![r].pick = pick, ![r].at = Len(entitled)]
    BY <1>3 DEF ListSubscriptions
  <2>3. Len(entitled) \in Nat
    BY DEF TypeOK
  <2>4. [req[r] EXCEPT !.phase = "listed", !.pick = pick, !.at = Len(entitled)] \in Handlers
    BY <2>1, <2>2, <2>3, PicksType DEF Handlers, WebhookHandlers, TypeOK
  <2> req' = [req EXCEPT ![r] = [req[r] EXCEPT !.phase = "listed", !.pick = pick, !.at = Len(entitled)]]
    BY <2>2 DEF TypeOK
  <2> QED
    BY <1>3, <2>4, SetType, HandlersType DEF ListSubscriptions
<1>4. CASE WritePlan(r)
  <2>1. req[r] \in WebhookHandlers
    BY <1>4, AtWebhook DEF WritePlan
  <2>2. req[r].pick.tier = "FREE" <=> req[r].pick.subscription = None
    BY <1>4, AtWebhook DEF WritePlan, At, BillingInv, HandlersHold, HoldsEvent
  <2>3. req[r].at \in synced .. Len(entitled)
    BY <1>4 DEF WritePlan, BillingInv, MirrorHolds
  <2>4. synced' \in 1 .. Len(entitled)
    BY <1>4, <2>3 DEF WritePlan, TypeOK
  <2> QED
    BY <1>4, <2>1, <2>2, <2>4, FinishType DEF WritePlan, WebhookHandlers, TypeOK, stripeVars
<1>5. CASE SkipUnpriced(r)
  <2>1. req[r] # Idle /\ known' \subseteq Sessions
    BY <1>5, AtWebhook DEF SkipUnpriced
  <2> QED
    BY <1>5, <2>1, GoesType, ReleasedType, HandlersType DEF SkipUnpriced
<1>6. CASE RecordUnpriced(r)
  <2>1. req[r] \in WebhookHandlers
    BY <1>6, AtWebhook DEF RecordUnpriced
  <2> QED
    BY <1>6, <2>1, FinishType DEF RecordUnpriced, WebhookHandlers, TypeOK, stripeVars
<1> QED
  BY <1>1, <1>2, <1>3, <1>4, <1>5, <1>6 DEF WebhookNext

\* What happens at Stripe extends the history by a tier.
LEMMA AppendType ==
  ASSUME TypeOK, NEW p \in Plans, entitled' = Append(entitled, p), synced' = synced
  PROVE  /\ entitled' \in Seq(Plans) /\ synced' \in 1 .. Len(entitled')
         /\ Len(entitled') = Len(entitled) + 1
         /\ \A i \in 1 .. Len(entitled) : entitled'[i] = entitled[i]
         /\ entitled'[Len(entitled')] = p
<1>1. entitled \in Seq(Plans) /\ synced \in 1 .. Len(entitled) /\ Len(entitled) \in Nat
  BY DEF TypeOK
<1>2. /\ entitled' \in Seq(Plans) /\ Len(entitled') = Len(entitled) + 1
      /\ \A i \in 1 .. Len(entitled) : entitled'[i] = entitled[i]
      /\ entitled'[Len(entitled) + 1] = p
  BY <1>1, AppendProperties
<1> QED
  BY <1>1, <1>2

LEMMA StripeType ==
  ASSUME BillingInv, StripeNext
  PROVE  TypeOK'
<1> TypeOK
  BY DEF BillingInv
<1>1. ASSUME /\ customerId \in Customers \cup {None} /\ UNCHANGED <<orgVars, lock, known, req>>
             /\ customer' \in [Customers -> {"none", "live", "deleted"}]
             /\ session' \in [Sessions -> {"none", "open", "expired", "complete"}]
             /\ of' \in [Subscriptions -> Customers \cup {None}]
             /\ price' \in [Subscriptions -> Paid]
             /\ item' \in [Subscriptions -> {"known", "none", "unknown"}]
             /\ sub' \in [Subscriptions -> SubscriptionStatus]
             /\ event' \in [Events -> Customers \cup {None}],
             entitled' = Append(entitled, Tier(customerId)')
      PROVE  TypeOK'
  <2>1. (price \in [Subscriptions -> Paid] => Tier(customerId) \in Plans)'
    BY TierType, PTL
  <2>2. entitled' \in Seq(Plans) /\ synced' \in 1 .. Len(entitled')
    BY <1>1, <2>1, AppendType DEF orgVars
  <2> QED
    BY <1>1, <2>2 DEF TypeOK, orgVars
<1>2. ASSUME NEW s \in Sessions, NEW e \in Events, Pay(s, e) PROVE TypeOK'
  <2>1. s \in Subscriptions
    BY DEF Subscriptions
  <2>2. of[s] \in Customers \cup {None} /\ sub' \in [Subscriptions -> SubscriptionStatus]
    BY <1>2, <2>1 DEF Pay, TypeOK, SubscriptionStatus
  <2>3. /\ event' \in [Events -> Customers \cup {None}]
        /\ session' \in [Sessions -> {"none", "open", "expired", "complete"}]
    BY <1>2, <2>2 DEF Pay, Announce, TypeOK
  <2> QED
    BY <1>1, <1>2, <2>2, <2>3 DEF Pay, TypeOK
<1>3. ASSUME NEW s \in Subscriptions, NEW e \in Events, ChangeSubscription(s, e) PROVE TypeOK'
  <2>1. of[s] \in Customers \cup {None}
    BY DEF TypeOK
  <2>2. event' \in [Events -> Customers \cup {None}]
    BY <1>3, <2>1 DEF ChangeSubscription, Announce, TypeOK
  <2>3. /\ sub' \in [Subscriptions -> SubscriptionStatus] /\ price' \in [Subscriptions -> Paid]
        /\ item' \in [Subscriptions -> {"known", "none", "unknown"}]
    <3>1. /\ sub \in [Subscriptions -> SubscriptionStatus] /\ price \in [Subscriptions -> Paid]
          /\ item \in [Subscriptions -> {"known", "none", "unknown"}]
      BY DEF TypeOK
    <3>2. CASE \E status \in SubscriptionStatus \ {"none", sub[s]} :
                 sub' = [sub EXCEPT ![s] = status] /\ UNCHANGED <<price, item>>
      BY <3>1, <3>2
    <3>3. CASE \E tier \in Paid :
                 /\ price' = [price EXCEPT ![s] = tier] /\ item' = [item EXCEPT ![s] = "known"]
                 /\ UNCHANGED sub
      BY <3>1, <3>3
    <3>4. CASE \E lost \in {"none", "unknown"} \ {item[s]} :
                 item' = [item EXCEPT ![s] = lost] /\ UNCHANGED <<price, sub>>
      BY <3>1, <3>4
    <3> QED
      BY <1>3, <3>2, <3>3, <3>4 DEF ChangeSubscription
  <2> QED
    BY <1>1, <1>3, <2>2, <2>3 DEF ChangeSubscription, TypeOK
<1> QED
  BY <1>2, <1>3 DEF StripeNext

LEMMA OtherType ==
  ASSUME TypeOK, NEW r \in Requests, Lock(r) \/ TimeOut(r) \/ Rollback(r)
  PROVE  TypeOK'
<1>1. CASE Lock(r)
  <2>1. req[r] # Idle
    BY <1>1 DEF Lock, Idle
  <2>2. req' \in [Requests -> Handlers \cup {Idle}]
    BY <1>1, <2>1, GoesType DEF Lock, Phases
  <2>3. lock' \in [Customers -> Requests \cup {None}] /\ known' \subseteq Sessions
    BY <1>1 DEF Lock, TypeOK
  <2> QED
    BY <1>1, <2>2, <2>3, HandlersType DEF Lock
<1>2. CASE TimeOut(r)
  BY <1>2, ReleasedType, HandlersType DEF TimeOut, TypeOK
<1>3. CASE Rollback(r)
  BY <1>3, FinishType, HandlersType DEF Rollback, TypeOK
<1> QED
  BY <1>1, <1>2, <1>3

---------------------------------------------------------------------------
(* Handlers hold what they have read.                                      *)

\* What a step leaves: a stored customer, the status of a session that is there, an event.
Lasting ==
  /\ \/ customerId' = customerId
     \/ customerId = None /\ \A e \in Events : event[e] # customerId'
  /\ \A s \in Sessions : session[s] # "none" => session'[s] # "none"
  /\ \A e \in Events : event[e] # None => event'[e] = event[e]

LEMMA StillHolds ==
  ASSUME TypeOK, HandlersHold, Lasting, NEW q \in Requests, req'[q] = req[q]
  PROVE  HoldsStored(q)' /\ HoldsEvent(q)' /\ HoldsSession(q)'
<1>1. HoldsStored(q)'
  BY DEF HandlersHold, HoldsStored, Lasting
<1>2. HoldsEvent(q)'
  <2>1. CASE req[q] # Idle /\ req[q].op = "webhook"
    <3>1. req[q].event \in Events /\ req[q].customer # None
      BY <2>1, InFlight, NoneAssumption DEF WebhookHandlers
    <3> QED
      BY <2>1, <3>1 DEF HandlersHold, HoldsEvent, Lasting
  <2>2. CASE ~(req[q] # Idle /\ req[q].op = "webhook")
    BY <2>2 DEF HoldsEvent
  <2> QED
    BY <2>1, <2>2
<1>3. HoldsSession(q)'
  BY DEF HandlersHold, HoldsSession, Lasting
<1> QED
  BY <1>1, <1>2, <1>3

\* Opened customers stay fresh and distinct.
LEMMA OpenedHold ==
  ASSUME HandlersHold,
         \A q \in Requests : Opened(q)' => req'[q] = req[q],
         \A q \in Requests, c \in Customers :
           Opened(q) /\ Opened(q)' /\ req[q].customer = c /\ Fresh(c) => Fresh(c)'
  PROVE  \A q \in Requests : HoldsOpened(q)'
<1> SUFFICES ASSUME NEW q \in Requests, Opened(q)' PROVE HoldsOpened(q)'
  BY DEF HoldsOpened
<1>1. req'[q] = req[q] /\ Opened(q)
  BY DEF Opened
<1>2. PICK c \in Customers : c = req[q].customer /\ Fresh(c)
  BY <1>1 DEF HandlersHold, HoldsOpened, Fresh
<1>3. Fresh(c)' /\ req'[q].customer = c
  BY <1>1, <1>2
<1>4. Fresh(req[q].customer)'
  BY <1>3
<1>5. \A p \in Requests \ {q} : Opened(p)' => req'[p].customer # req'[q].customer
  BY <1>1 DEF HandlersHold, HoldsOpened, Opened
<1> QED
  BY <1>1, <1>4, <1>5 DEF HandlersHold, HoldsOpened

\* Together, for a step of request r that opens no customer.
LEMMA StepHolds ==
  ASSUME TypeOK, HandlersHold, Lasting, NEW r \in Requests,
         \A q \in Requests \ {r} : req'[q] = req[q],
         \A c \in Customers : Fresh(c) /\ (Opened(r) => c # req[r].customer) => Fresh(c)',
         ~Opened(r)', HoldsStored(r)', HoldsEvent(r)', HoldsSession(r)'
  PROVE  HandlersHold'
<1>1. \A q \in Requests : HoldsStored(q)' /\ HoldsEvent(q)' /\ HoldsSession(q)'
  BY StillHolds
<1>2. \A q \in Requests : Opened(q)' => q # r /\ req'[q] = req[q]
  OBVIOUS
<1>3. \A q \in Requests \ {r} : Opened(q) /\ Opened(r) => req[q].customer # req[r].customer
  BY DEF HandlersHold, HoldsOpened
<1>4. \A q \in Requests, c \in Customers :
        Opened(q) /\ Opened(q)' /\ req[q].customer = c /\ Fresh(c) => Fresh(c)'
  BY <1>2, <1>3
<1>5. \A q \in Requests : HoldsOpened(q)'
  BY <1>2, <1>4, OpenedHold
<1> QED
  BY <1>1, <1>5 DEF HandlersHold

\* A step that touches nothing but the request and its lock.
LEMMA QuietHolds ==
  ASSUME TypeOK, HandlersHold, NEW r \in Requests,
         \A q \in Requests \ {r} : req'[q] = req[q],
         UNCHANGED <<customerId, customer, session, of, event>>,
         ~Opened(r)', HoldsStored(r)', HoldsEvent(r)', HoldsSession(r)'
  PROVE  HandlersHold'
<1>1. Lasting
  BY DEF Lasting
<1>2. \A c \in Customers : Fresh(c) => Fresh(c)'
  BY DEF Fresh
<1> QED
  BY <1>1, <1>2, StepHolds

\* A request that ends holds nothing.
LEMMA IdleHolds ==
  ASSUME TypeOK, NEW r \in Requests, Finish(r)
  PROVE  /\ \A q \in Requests \ {r} : req'[q] = req[q]
         /\ ~Opened(r)' /\ HoldsStored(r)' /\ HoldsEvent(r)' /\ HoldsSession(r)'
BY DEF TypeOK, Finish, Opened, HoldsStored, HoldsEvent, HoldsSession

LEMMA CheckoutHolds ==
  ASSUME BillingInv, NEW r \in Requests, CheckoutNext(r)
  PROVE  HandlersHold'
<1> TypeOK /\ HandlersHold /\ StripeHolds
  BY DEF BillingInv
<1> USE DEF Phases, orgVars, stripeVars
<1>1. ASSUME NEW tier \in Paid, CheckoutRead(r, tier) PROVE HandlersHold'
  <2>1. /\ req'[r].phase = (IF customerId = None THEN "read" ELSE "wait")
        /\ req'[r].op = "checkout" /\ req'[r].customer = customerId
    BY <1>1 DEF CheckoutRead, TypeOK
  <2>2. ~Opened(r)' /\ HoldsStored(r)' /\ HoldsEvent(r)' /\ HoldsSession(r)'
    BY <1>1, <2>1 DEF CheckoutRead, Opened, HoldsStored, HoldsEvent, HoldsSession
  <2> QED
    BY <1>1, <2>2, QuietHolds DEF CheckoutRead, TypeOK
<1>2. ASSUME NEW c \in Customers, CreateCustomer(r, c) PROVE HandlersHold'
  <2>1. Lasting
    BY <1>2 DEF CreateCustomer, Lasting
  <2>2. \A q \in Requests \ {r} : req'[q] = req[q]
    BY <1>2 DEF CreateCustomer, TypeOK
  <2>3. req'[r].phase = "opened" /\ req'[r].op = "checkout" /\ req'[r].customer = c
    BY <1>2, AtCheckout DEF CreateCustomer, At, TypeOK
  <2>4. \A q \in Requests : HoldsStored(q)' /\ HoldsEvent(q)' /\ HoldsSession(q)'
    <3>1. HoldsStored(r)' /\ HoldsEvent(r)' /\ HoldsSession(r)'
      BY <2>3 DEF HoldsStored, HoldsEvent, HoldsSession
    <3> QED
      BY <2>1, <2>2, <3>1, StillHolds
  <2>5. \A d \in Customers : Fresh(d) => d # c /\ Fresh(d)'
    BY <1>2 DEF CreateCustomer, Fresh, TypeOK
  <2>6. Fresh(c)'
    <3>1. c # customerId /\ customer'[c] = "live"
      BY <1>2, NoneAssumption DEF CreateCustomer, StripeHolds, TypeOK
    <3>2. \A s \in Subscriptions : of[s] # c
      BY <1>2, NoneAssumption DEF CreateCustomer, StripeHolds
    <3>3. \A e \in Events : event[e] # c
      BY <1>2, NoneAssumption DEF CreateCustomer, StripeHolds
    <3> QED
      BY <1>2, <3>1, <3>2, <3>3 DEF CreateCustomer, Fresh
  <2>7. ASSUME NEW q \in Requests PROVE HoldsOpened(q)'
    <3>1. \A p \in Requests \ {r} : Opened(p)' => Opened(p) /\ Fresh(req[p].customer)
      BY <2>2 DEF Opened, HandlersHold, HoldsOpened
    <3>2. \A p \in Requests \ {r} : Opened(p)' => req[p].customer # c
      BY <2>5, <3>1 DEF Fresh
    <3>3. CASE q = r
      BY <2>2, <2>3, <2>6, <3>2, <3>3 DEF HoldsOpened
    <3>4. CASE q # r /\ Opened(q)'
      <4>1. PICK d \in Customers : d = req[q].customer /\ Fresh(d)
        BY <3>1, <3>4 DEF Fresh
      <4>2. Fresh(d)' /\ req'[q].customer = d /\ req'[q].op = "checkout"
        BY <2>2, <2>5, <3>1, <3>4, <4>1 DEF HandlersHold, HoldsOpened
      <4>3. Fresh(req[q].customer)'
        BY <4>2
      <4>4. \A p \in Requests \ {q} : Opened(p)' => req'[p].customer # req'[q].customer
        BY <2>2, <2>3, <3>1, <3>2, <3>4 DEF HandlersHold, HoldsOpened
      <4> QED
        BY <4>2, <4>3, <4>4 DEF HoldsOpened
    <3> QED
      BY <3>3, <3>4 DEF HoldsOpened
  <2> QED
    BY <2>4, <2>7 DEF HandlersHold
<1>3. CASE ClaimCustomer(r)
  <2>1. Opened(r) /\ Fresh(req[r].customer) /\ req[r].op = "checkout"
    BY <1>3, AtCheckout DEF ClaimCustomer, At, Opened, HandlersHold, HoldsOpened
  <2>2. Lasting
    BY <1>3, <2>1 DEF ClaimCustomer, Lasting, Fresh
  <2>3. \A c \in Customers : Fresh(c) /\ c # req[r].customer => Fresh(c)'
    BY <1>3 DEF ClaimCustomer, Fresh
  <2>4. /\ \A q \in Requests \ {r} : req'[q] = req[q]
        /\ req'[r].phase = "wait" /\ req'[r].op = "checkout"
        /\ req'[r].customer = req[r].customer
    BY <1>3, <2>1 DEF ClaimCustomer, Goes, TypeOK, Opened
  <2>5. ~Opened(r)' /\ HoldsStored(r)' /\ HoldsEvent(r)' /\ HoldsSession(r)'
    BY <1>3, <2>1, <2>4, NoneAssumption
    DEF ClaimCustomer, Opened, HoldsStored, HoldsEvent, HoldsSession, Fresh
  <2> QED
    BY <2>1, <2>2, <2>3, <2>4, <2>5, StepHolds
<1>4. CASE LoseClaim(r)
  <2>1. Opened(r) /\ Fresh(req[r].customer) /\ req[r].op = "checkout"
    BY <1>4, AtCheckout DEF LoseClaim, At, Opened, HandlersHold, HoldsOpened
  <2>2. Lasting
    BY <1>4 DEF LoseClaim, Lasting
  <2>3. \A c \in Customers : Fresh(c) /\ c # req[r].customer => Fresh(c)'
    BY <1>4 DEF LoseClaim, Fresh, TypeOK
  <2>4. /\ \A q \in Requests \ {r} : req'[q] = req[q]
        /\ req'[r].phase = "wait" /\ req'[r].op = "checkout" /\ req'[r].customer = customerId
    BY <1>4, <2>1, InFlight DEF LoseClaim, TypeOK, Opened, CheckoutHandlers
  <2>5. ~Opened(r)' /\ HoldsStored(r)' /\ HoldsEvent(r)' /\ HoldsSession(r)'
    BY <1>4, <2>4 DEF LoseClaim, Opened, HoldsStored, HoldsEvent, HoldsSession
  <2> QED
    BY <2>1, <2>2, <2>3, <2>4, <2>5, StepHolds
<1>5. CASE ListOpenSessions(r)
  <2>1. HoldsStored(r) /\ req[r].op = "checkout" /\ req[r].phase = "locked" /\ req[r] # Idle
    BY <1>5, AtCheckout DEF ListOpenSessions, At, HandlersHold
  <2>2. /\ \A q \in Requests \ {r} : req'[q] = req[q]
        /\ req'[r].phase = "expiring" /\ req'[r].op = "checkout"
        /\ req'[r].customer = req[r].customer
    BY <1>5, <2>1, InFlight DEF ListOpenSessions, TypeOK, CheckoutHandlers
  <2>3. ~Opened(r)' /\ HoldsStored(r)' /\ HoldsEvent(r)' /\ HoldsSession(r)'
    BY <1>5, <2>1, <2>2 DEF ListOpenSessions, Opened, HoldsStored, HoldsEvent, HoldsSession
  <2> QED
    BY <1>5, <2>2, <2>3, QuietHolds DEF ListOpenSessions
<1>6. ASSUME NEW s \in Sessions, ExpireSession(r, s) PROVE HandlersHold'
  <2>1. HoldsStored(r) /\ req[r].op = "checkout" /\ req[r].phase = "expiring" /\ req[r] # Idle
    BY <1>6, AtCheckout DEF ExpireSession, At, HandlersHold
  <2>2. /\ \A q \in Requests \ {r} : req'[q] = req[q]
        /\ req'[r].phase = "expiring" /\ req'[r].op = "checkout"
        /\ req'[r].customer = req[r].customer
    BY <1>6, <2>1, InFlight DEF ExpireSession, TypeOK, CheckoutHandlers
  <2>3. ~Opened(r)' /\ HoldsStored(r)' /\ HoldsEvent(r)' /\ HoldsSession(r)'
    BY <1>6, <2>1, <2>2 DEF ExpireSession, Opened, HoldsStored, HoldsEvent, HoldsSession
  <2>4. Lasting /\ \A c \in Customers : Fresh(c) => Fresh(c)'
    BY <1>6 DEF ExpireSession, Lasting, Fresh, TypeOK
  <2> QED
    BY <2>2, <2>3, <2>4, StepHolds
<1>7. ASSUME NEW s \in Sessions, CreateSession(r, s) PROVE HandlersHold'
  <2>1. HoldsStored(r) /\ req[r].op = "checkout" /\ req[r].phase = "checked" /\ req[r] # Idle
    BY <1>7, AtCheckout DEF CreateSession, At, HandlersHold
  <2>2. /\ \A q \in Requests \ {r} : req'[q] = req[q]
        /\ req'[r].phase = "made" /\ req'[r].op = "checkout"
        /\ req'[r].customer = req[r].customer /\ req'[r].session = s
    BY <1>7, <2>1, InFlight DEF CreateSession, TypeOK, CheckoutHandlers
  <2>3. session'[s] # "none"
    BY <1>7 DEF CreateSession, TypeOK
  <2>4. ~Opened(r)' /\ HoldsStored(r)' /\ HoldsEvent(r)' /\ HoldsSession(r)'
    BY <1>7, <2>1, <2>2, <2>3 DEF CreateSession, Opened, HoldsStored, HoldsEvent, HoldsSession
  <2>5. Lasting /\ \A c \in Customers : Fresh(c) => Fresh(c)'
    BY <1>7, <2>1 DEF CreateSession, Lasting, Fresh, TypeOK, HoldsStored
  <2> QED
    BY <2>2, <2>4, <2>5, StepHolds
<1>8. CASE CheckSubscriptions(r)
  <2>1. HoldsStored(r) /\ req[r].op = "checkout" /\ req[r].phase = "expiring" /\ req[r] # Idle
    BY <1>8, AtCheckout DEF CheckSubscriptions, At, HandlersHold
  <2>2. /\ \A q \in Requests \ {r} : req'[q] = req[q]
        /\ req'[r].phase = "checked" /\ req'[r].op = "checkout"
        /\ req'[r].customer = req[r].customer
    BY <1>8, <2>1, InFlight DEF CheckSubscriptions, Goes, TypeOK, CheckoutHandlers
  <2>3. ~Opened(r)' /\ HoldsStored(r)' /\ HoldsEvent(r)' /\ HoldsSession(r)'
    BY <1>8, <2>1, <2>2 DEF CheckSubscriptions, Opened, HoldsStored, HoldsEvent, HoldsSession
  <2> QED
    BY <1>8, <2>2, <2>3, QuietHolds DEF CheckSubscriptions
<1>9. CASE ReturnUrl(r)
  BY <1>9, IdleHolds, QuietHolds DEF ReturnUrl
<1> QED
  BY <1>1, <1>2, <1>3, <1>4, <1>5, <1>6, <1>7, <1>8, <1>9 DEF CheckoutNext

LEMMA WebhookHolds ==
  ASSUME BillingInv, NEW r \in Requests, WebhookNext(r)
  PROVE  HandlersHold'
<1> TypeOK /\ HandlersHold /\ StripeHolds
  BY DEF BillingInv
<1> USE DEF Phases, orgVars, stripeVars
<1>1. ASSUME NEW e \in Events, Receive(r, e) PROVE HandlersHold'
  <2>1. /\ \A q \in Requests \ {r} : req'[q] = req[q]
        /\ req'[r].phase = (IF event[e] = customerId THEN "wait" ELSE "unknown")
        /\ req'[r].op = "webhook" /\ req'[r].customer = event[e] /\ req'[r].event = e
        /\ req'[r].pick = [tier |-> "FREE", subscription |-> None]
    BY <1>1 DEF Receive, TypeOK
  <2>2. ~Opened(r)' /\ HoldsStored(r)' /\ HoldsEvent(r)' /\ HoldsSession(r)'
    BY <1>1, <2>1 DEF Receive, Opened, HoldsStored, HoldsEvent, HoldsSession
  <2> QED
    BY <1>1, <2>1, <2>2, QuietHolds DEF Receive
<1>2. CASE RecordUnknown(r)
  BY <1>2, IdleHolds, QuietHolds DEF RecordUnknown
<1>3. CASE ListSubscriptions(r)
  <2>1. PICK pick \in Picks(req[r].customer) :
          req' = [req EXCEPT ![r].phase = "listed", ![r].pick = pick, ![r].at = Len(entitled)]
    BY <1>3 DEF ListSubscriptions
  <2>2. pick.tier = "FREE" <=> pick.subscription = None
    BY PicksType DEF TypeOK
  <2>3. /\ HoldsStored(r) /\ HoldsEvent(r)
        /\ req[r].op = "webhook" /\ req[r].phase = "locked" /\ req[r] # Idle
    BY <1>3, AtWebhook DEF ListSubscriptions, At, HandlersHold
  <2>4. /\ \A q \in Requests \ {r} : req'[q] = req[q]
        /\ req'[r].phase = "listed" /\ req'[r].op = "webhook" /\ req'[r].pick = pick
        /\ req'[r].customer = req[r].customer /\ req'[r].event = req[r].event
    BY <2>1, <2>3, InFlight DEF TypeOK, WebhookHandlers
  <2>5. ~Opened(r)' /\ HoldsStored(r)' /\ HoldsEvent(r)' /\ HoldsSession(r)'
    BY <1>3, <2>2, <2>3, <2>4
    DEF ListSubscriptions, Opened, HoldsStored, HoldsEvent, HoldsSession
  <2> QED
    BY <1>3, <2>4, <2>5, QuietHolds DEF ListSubscriptions
<1>4. CASE WritePlan(r)
  BY <1>4, IdleHolds, QuietHolds DEF WritePlan
<1>5. CASE SkipUnpriced(r)
  <2>1. /\ HoldsStored(r) /\ HoldsEvent(r)
        /\ req[r].op = "webhook" /\ req[r].phase = "locked" /\ req[r] # Idle
    BY <1>5, AtWebhook DEF SkipUnpriced, At, HandlersHold
  <2>2. /\ \A q \in Requests \ {r} : req'[q] = req[q]
        /\ req'[r].phase = "unpriced" /\ req'[r].op = "webhook" /\ req'[r].pick = req[r].pick
        /\ req'[r].customer = req[r].customer /\ req'[r].event = req[r].event
    BY <1>5, <2>1, InFlight DEF SkipUnpriced, Goes, TypeOK, WebhookHandlers
  <2>3. ~Opened(r)' /\ HoldsStored(r)' /\ HoldsEvent(r)' /\ HoldsSession(r)'
    BY <1>5, <2>1, <2>2
    DEF SkipUnpriced, Opened, HoldsStored, HoldsEvent, HoldsSession
  <2> QED
    BY <1>5, <2>2, <2>3, QuietHolds DEF SkipUnpriced
<1>6. CASE RecordUnpriced(r)
  BY <1>6, IdleHolds, QuietHolds DEF RecordUnpriced
<1> QED
  BY <1>1, <1>2, <1>3, <1>4, <1>5, <1>6 DEF WebhookNext

LEMMA OtherHolds ==
  ASSUME BillingInv, NEW r \in Requests, Lock(r) \/ TimeOut(r) \/ Rollback(r)
  PROVE  HandlersHold'
<1> TypeOK /\ HandlersHold
  BY DEF BillingInv
<1> USE DEF orgVars, stripeVars
<1>1. CASE Lock(r)
  <2>1. /\ HoldsStored(r) /\ HoldsEvent(r) /\ req[r] # Idle /\ req[r].phase = "wait"
    BY <1>1 DEF Lock, HandlersHold, Idle
  <2>2. /\ \A q \in Requests \ {r} : req'[q] = req[q]
        /\ req'[r].phase = "locked" /\ req'[r].op = req[r].op
        /\ req'[r].customer = req[r].customer
        /\ req[r].op = "webhook" => req'[r].event = req[r].event /\ req'[r].pick = req[r].pick
    <3>1. CASE req[r] \in CheckoutHandlers
      BY <1>1, <3>1 DEF Lock, Goes, TypeOK, CheckoutHandlers
    <3>2. CASE req[r] \in WebhookHandlers
      BY <1>1, <3>2 DEF Lock, Goes, TypeOK, WebhookHandlers
    <3> QED
      BY <2>1, <3>1, <3>2, InFlight
  <2>3. ~Opened(r)' /\ HoldsStored(r)' /\ HoldsEvent(r)' /\ HoldsSession(r)'
    BY <1>1, <2>1, <2>2 DEF Lock, Opened, HoldsStored, HoldsEvent, HoldsSession
  <2> QED
    BY <1>1, <2>2, <2>3, QuietHolds DEF Lock
<1>2. CASE TimeOut(r)
  BY <1>2
  DEF TimeOut, HandlersHold, HoldsOpened, HoldsStored, HoldsEvent, HoldsSession, Opened, Fresh
<1>3. CASE Rollback(r)
  BY <1>3, IdleHolds, QuietHolds DEF Rollback
<1> QED
  BY <1>1, <1>2, <1>3

LEMMA StripeNextHolds ==
  ASSUME BillingInv, StripeNext
  PROVE  HandlersHold'
<1> TypeOK /\ HandlersHold /\ StripeHolds
  BY DEF BillingInv
<1> USE DEF orgVars
<1>1. ASSUME Lasting, req' = req, \A c \in Customers : Fresh(c) => Fresh(c)'
      PROVE  HandlersHold'
  <2>1. \A q \in Requests : HoldsStored(q)' /\ HoldsEvent(q)' /\ HoldsSession(q)'
    BY <1>1, StillHolds
  <2>2. \A q \in Requests : HoldsOpened(q)'
    BY <1>1, OpenedHold
  <2> QED
    BY <2>1, <2>2 DEF HandlersHold
<1>2. ASSUME NEW s \in Sessions, NEW e \in Events, Pay(s, e) PROVE HandlersHold'
  <2>1. Lasting
    BY <1>2 DEF Pay, Announce, Lasting, TypeOK
  <2>2. of[s] = customerId
    BY <1>2 DEF Pay, StripeHolds
  <2>3. \A c \in Customers : Fresh(c) => Fresh(c)'
    BY <1>2, <2>2 DEF Pay, Announce, Fresh, TypeOK
  <2> QED
    BY <1>1, <1>2, <2>1, <2>3 DEF Pay
<1>3. ASSUME NEW s \in Subscriptions, NEW e \in Events, ChangeSubscription(s, e)
      PROVE  HandlersHold'
  <2>1. Lasting
    BY <1>3 DEF ChangeSubscription, Announce, Lasting, TypeOK
  <2>2. \A c \in Customers : Fresh(c) => Fresh(c)'
    BY <1>3 DEF ChangeSubscription, Announce, Fresh, TypeOK
  <2> QED
    BY <1>1, <1>3, <2>1, <2>2 DEF ChangeSubscription
<1> QED
  BY <1>2, <1>3 DEF StripeNext

---------------------------------------------------------------------------
(* Locks.                                                                  *)

InTransaction == {"locked", "expiring", "checked", "listed", "made"}

LEMMA LocksKept ==
  ASSUME TypeOK, LocksHold, NEW r \in Requests, lock' = lock,
         \A q \in Requests \ {r} : req'[q] = req[q],
         \/ req[r] = Idle \/ req[r].phase \notin InTransaction
         \/ req'[r] # Idle /\ req'[r].phase \in InTransaction /\ req'[r].customer = req[r].customer
  PROVE  LocksHold'
BY DEF LocksHold, InTransaction

LEMMA LocksReleased ==
  ASSUME TypeOK, LocksHold, NEW r \in Requests, lock' = Released(r),
         \A q \in Requests \ {r} : req'[q] = req[q]
  PROVE  LocksHold'
<1>1. \A c \in Customers, q \in Requests : lock'[c] = q => q # r /\ lock[c] = q
  BY NoneAssumption DEF Released
<1> QED
  BY <1>1 DEF LocksHold

LEMMA FinishLocks ==
  ASSUME TypeOK, LocksHold, NEW r \in Requests, Finish(r)
  PROVE  LocksHold'
BY LocksReleased DEF Finish, TypeOK

\* A handler that goes on keeps its customer, before its transaction and within it.
LEMMA CheckoutLocks ==
  ASSUME BillingInv, NEW r \in Requests, CheckoutNext(r)
  PROVE  LocksHold'
<1> TypeOK /\ LocksHold
  BY DEF BillingInv
<1> USE DEF Phases, orgVars, stripeVars
<1>1. ASSUME NEW tier \in Paid, CheckoutRead(r, tier) PROVE LocksHold'
  BY <1>1, LocksKept DEF CheckoutRead, TypeOK
<1>2. ASSUME NEW c \in Customers, CreateCustomer(r, c) PROVE LocksHold'
  BY <1>2, LocksKept DEF CreateCustomer, TypeOK, At, InTransaction
<1>3. CASE ClaimCustomer(r)
  BY <1>3, LocksKept DEF ClaimCustomer, Goes, TypeOK, At, InTransaction
<1>4. CASE LoseClaim(r)
  BY <1>4, LocksKept DEF LoseClaim, TypeOK, At, InTransaction
<1>5. CASE ListOpenSessions(r)
  <2>1. req[r] \in CheckoutHandlers
    BY <1>5, AtCheckout DEF ListOpenSessions
  <2>2. req'[r].phase = "expiring" /\ req'[r].customer = req[r].customer
    BY <1>5, <2>1 DEF ListOpenSessions, TypeOK, CheckoutHandlers
  <2>3. lock' = lock /\ \A q \in Requests \ {r} : req'[q] = req[q]
    BY <1>5 DEF ListOpenSessions, TypeOK
  <2> QED
    BY <2>2, <2>3, LocksKept DEF InTransaction, Idle
<1>6. ASSUME NEW s \in Sessions, ExpireSession(r, s) PROVE LocksHold'
  <2>1. req[r] \in CheckoutHandlers
    BY <1>6, AtCheckout DEF ExpireSession
  <2>2. req'[r].phase = "expiring" /\ req'[r].customer = req[r].customer
    BY <1>6, <2>1 DEF ExpireSession, TypeOK, CheckoutHandlers, At
  <2> QED
    BY <1>6, <2>2, LocksKept DEF ExpireSession, TypeOK, InTransaction, Idle
<1>7. ASSUME NEW s \in Sessions, CreateSession(r, s) PROVE LocksHold'
  <2>1. req[r] \in CheckoutHandlers
    BY <1>7, AtCheckout DEF CreateSession
  <2>2. req'[r].phase = "made" /\ req'[r].customer = req[r].customer
    BY <1>7, <2>1 DEF CreateSession, TypeOK, CheckoutHandlers
  <2>3. lock' = lock /\ \A q \in Requests \ {r} : req'[q] = req[q]
    BY <1>7 DEF CreateSession, TypeOK
  <2> QED
    BY <2>2, <2>3, LocksKept DEF InTransaction, Idle
<1>8. CASE CheckSubscriptions(r)
  <2>1. req[r] \in CheckoutHandlers
    BY <1>8, AtCheckout DEF CheckSubscriptions
  <2>2. req'[r].phase = "checked" /\ req'[r].customer = req[r].customer
    BY <1>8, <2>1 DEF CheckSubscriptions, Goes, TypeOK, CheckoutHandlers
  <2> QED
    BY <1>8, <2>2, LocksKept DEF CheckSubscriptions, Goes, TypeOK, InTransaction, Idle
<1>9. CASE ReturnUrl(r)
  BY <1>9, FinishLocks DEF ReturnUrl
<1> QED
  BY <1>1, <1>2, <1>3, <1>4, <1>5, <1>6, <1>7, <1>8, <1>9 DEF CheckoutNext

LEMMA WebhookLocks ==
  ASSUME BillingInv, NEW r \in Requests, WebhookNext(r)
  PROVE  LocksHold'
<1> TypeOK /\ LocksHold
  BY DEF BillingInv
<1> USE DEF Phases, orgVars, stripeVars
<1>1. ASSUME NEW e \in Events, Receive(r, e) PROVE LocksHold'
  BY <1>1, LocksKept DEF Receive, TypeOK
<1>2. CASE RecordUnknown(r)
  BY <1>2, FinishLocks DEF RecordUnknown
<1>3. CASE ListSubscriptions(r)
  <2>1. PICK pick \in Picks(req[r].customer) :
          req' = [req EXCEPT ![r].phase = "listed", ![r].pick = pick, ![r].at = Len(entitled)]
    BY <1>3 DEF ListSubscriptions
  <2>2. req[r] \in WebhookHandlers
    BY <1>3, AtWebhook DEF ListSubscriptions
  <2>3. req'[r].phase = "listed" /\ req'[r].customer = req[r].customer
    BY <2>1, <2>2 DEF TypeOK, WebhookHandlers
  <2>4. lock' = lock /\ \A q \in Requests \ {r} : req'[q] = req[q]
    BY <1>3, <2>1 DEF ListSubscriptions, TypeOK
  <2> QED
    BY <2>3, <2>4, LocksKept DEF InTransaction, Idle
<1>4. CASE WritePlan(r)
  BY <1>4, FinishLocks DEF WritePlan
<1>5. CASE SkipUnpriced(r)
  BY <1>5, LocksReleased DEF SkipUnpriced, Goes, TypeOK
<1>6. CASE RecordUnpriced(r)
  BY <1>6, FinishLocks DEF RecordUnpriced
<1> QED
  BY <1>1, <1>2, <1>3, <1>4, <1>5, <1>6 DEF WebhookNext

LEMMA OtherLocks ==
  ASSUME BillingInv, NEW r \in Requests, Lock(r) \/ TimeOut(r) \/ Rollback(r)
  PROVE  LocksHold'
<1> TypeOK /\ LocksHold /\ HandlersHold
  BY DEF BillingInv
<1>1. CASE Lock(r)
  <2>1. req[r] # Idle
    BY <1>1 DEF Lock, Idle
  <2>2. req'[r] # Idle /\ req'[r].phase = "locked" /\ req'[r].customer = req[r].customer
    BY <1>1, <2>1, InFlight DEF Lock, Goes, TypeOK, CheckoutHandlers, WebhookHandlers, Idle
  <2>3. \A c \in Customers, q \in Requests :
          lock'[c] = q => (q = r /\ c = req[r].customer) \/ (q # r /\ lock[c] = q)
    BY <1>1 DEF Lock, TypeOK, LocksHold
  <2>4. \A q \in Requests \ {r} : req'[q] = req[q]
    BY <1>1 DEF Lock, Goes, TypeOK
  <2> QED
    BY <2>2, <2>3, <2>4 DEF LocksHold
<1>2. CASE TimeOut(r)
  BY <1>2, LocksReleased DEF TimeOut
<1>3. CASE Rollback(r)
  BY <1>3, FinishLocks DEF Rollback
<1> QED
  BY <1>1, <1>2, <1>3

---------------------------------------------------------------------------
(* Whose the objects at Stripe are.                                        *)

LEMMA CheckoutStripe ==
  ASSUME BillingInv, NEW r \in Requests, CheckoutNext(r)
  PROVE  StripeHolds'
<1> TypeOK /\ HandlersHold /\ StripeHolds
  BY DEF BillingInv
<1> USE DEF Phases, orgVars, stripeVars
<1>1. ASSUME NEW tier \in Paid, CheckoutRead(r, tier) PROVE StripeHolds'
  BY <1>1 DEF CheckoutRead, StripeHolds
<1>2. ASSUME NEW c \in Customers, CreateCustomer(r, c) PROVE StripeHolds'
  <2>1. \A d : customer'[d] = customer[d] \/ customer'[d] = "live"
    BY <1>2 DEF CreateCustomer, TypeOK
  <2> QED
    BY <1>2, <2>1 DEF CreateCustomer, StripeHolds, TypeOK
<1>3. CASE ClaimCustomer(r)
  <2>1. Fresh(req[r].customer)
    BY <1>3, AtCheckout DEF ClaimCustomer, At, Opened, HandlersHold, HoldsOpened
  <2> QED
    BY <1>3, <2>1 DEF ClaimCustomer, StripeHolds, Fresh
<1>4. CASE LoseClaim(r)
  <2>1. Fresh(req[r].customer)
    BY <1>4, AtCheckout DEF LoseClaim, At, Opened, HandlersHold, HoldsOpened
  <2>2. customer'[customerId] = customer[customerId]
    BY <1>4, <2>1 DEF LoseClaim, Fresh, TypeOK
  <2>3. \A d \in Customers : customer[d] # "none" => customer'[d] # "none"
    BY <1>4 DEF LoseClaim, TypeOK
  <2> QED
    BY <1>4, <2>2, <2>3 DEF LoseClaim, StripeHolds, TypeOK
<1>5. CASE ListOpenSessions(r) \/ CheckSubscriptions(r)
  BY <1>5 DEF ListOpenSessions, CheckSubscriptions, StripeHolds
<1>6. ASSUME NEW s \in Sessions, ExpireSession(r, s) PROVE StripeHolds'
  BY <1>6 DEF ExpireSession, StripeHolds, TypeOK
<1>7. ASSUME NEW s \in Sessions, CreateSession(r, s) PROVE StripeHolds'
  <2>1. customerId # None /\ req[r].customer = customerId
    BY <1>7, AtCheckout DEF CreateSession, At, HandlersHold, HoldsStored
  <2>2. of[s] = None /\ sub[s] = "none" /\ s \in Subscriptions
    BY <1>7 DEF CreateSession, StripeHolds, Subscriptions
  <2>3. session' = [session EXCEPT ![s] = "open"] /\ of' = [of EXCEPT ![s] = customerId]
    BY <1>7, <2>1 DEF CreateSession
  <2>4. UNCHANGED <<customerId, customer, sub, event, known, processed>>
    BY <1>7 DEF CreateSession
  <2>5. \A t \in Subscriptions : of'[t] = IF t = s THEN customerId ELSE of[t]
    BY <2>3 DEF TypeOK
  <2>6. \A t \in Sessions : session'[t] = IF t = s THEN "open" ELSE session[t]
    BY <2>3 DEF TypeOK
  <2>7. Sessions \subseteq Subscriptions /\ known \subseteq Sessions
    BY DEF Subscriptions, TypeOK
  <2> HIDE <1>7
  <2> QED
    BY <2>1, <2>2, <2>4, <2>5, <2>6, <2>7 DEF StripeHolds
<1>8. CASE ReturnUrl(r)
  <2>1. session[req[r].session] # "none"
    BY <1>8, AtCheckout DEF ReturnUrl, At, HandlersHold, HoldsSession
  <2> QED
    BY <1>8, <2>1 DEF ReturnUrl, StripeHolds
<1> QED
  BY <1>1, <1>2, <1>3, <1>4, <1>5, <1>6, <1>7, <1>8 DEF CheckoutNext

LEMMA WebhookStripe ==
  ASSUME BillingInv, NEW r \in Requests, WebhookNext(r)
  PROVE  StripeHolds'
<1> TypeOK /\ HandlersHold /\ StripeHolds
  BY DEF BillingInv
<1> USE DEF Phases, orgVars, stripeVars
<1>1. CASE RecordUnknown(r) \/ RecordUnpriced(r) \/ WritePlan(r)
  <2>1. req[r] \in WebhookHandlers /\ HoldsEvent(r) /\ req[r] # Idle /\ req[r].op = "webhook"
    BY <1>1, AtWebhook DEF RecordUnknown, RecordUnpriced, WritePlan, At, HandlersHold
  <2>2. event[req[r].event] # None
    BY <2>1, NoneAssumption DEF HoldsEvent, WebhookHandlers
  <2>3. processed' = processed \cup {req[r].event}
    BY <1>1 DEF RecordUnknown, RecordUnpriced, WritePlan
  <2>4. UNCHANGED <<customerId, customer, session, of, sub, event, known>>
    BY <1>1 DEF RecordUnknown, RecordUnpriced, WritePlan
  <2> QED
    BY <2>2, <2>3, <2>4 DEF StripeHolds
<1>2. CASE ListSubscriptions(r) \/ SkipUnpriced(r) \/ \E e \in Events : Receive(r, e)
  <2>1. UNCHANGED <<orgVars, stripeVars, known>>
    BY <1>2 DEF ListSubscriptions, SkipUnpriced, Receive
  <2> QED
    BY <2>1 DEF StripeHolds
<1> QED
  BY <1>1, <1>2 DEF WebhookNext

LEMMA OtherStripe ==
  ASSUME BillingInv, NEW r \in Requests, Lock(r) \/ TimeOut(r) \/ Rollback(r)
  PROVE  StripeHolds'
BY DEF BillingInv, Lock, TimeOut, Rollback, StripeHolds, orgVars, stripeVars

LEMMA StripeNextStripe ==
  ASSUME BillingInv, StripeNext
  PROVE  StripeHolds'
<1> TypeOK /\ StripeHolds
  BY DEF BillingInv
<1> USE DEF orgVars
<1>1. ASSUME NEW s \in Sessions, NEW e \in Events, Pay(s, e) PROVE StripeHolds'
  <2>1. of[s] = customerId /\ customerId # None /\ s \in Subscriptions
    BY <1>1 DEF Pay, StripeHolds, Subscriptions
  <2>2. UNCHANGED <<customerId, customer, of, known, processed>>
    BY <1>1 DEF Pay
  <2>3. \A t \in Sessions : session'[t] = IF t = s THEN "complete" ELSE session[t]
    BY <1>1 DEF Pay, TypeOK
  <2>4. \A t \in Subscriptions : t # s => sub'[t] = sub[t]
    BY <1>1 DEF Pay, TypeOK
  <2>5. \A d \in Events : event'[d] = event[d] \/ event'[d] = customerId
    BY <1>1, <2>1 DEF Pay, Announce, TypeOK
  <2>6. \A d \in Events : event[d] # None => event'[d] # None
    BY <1>1, <2>1 DEF Pay, Announce, TypeOK
  <2>7. Sessions \subseteq Subscriptions /\ known \subseteq Sessions /\ processed \subseteq Events
    BY DEF Subscriptions, TypeOK
  <2>8. customer[customerId] = "live"
    BY <2>1 DEF StripeHolds
  <2> HIDE <1>1
  <2> QED
    BY <2>1, <2>2, <2>3, <2>4, <2>5, <2>6, <2>7, <2>8 DEF StripeHolds
<1>2. ASSUME NEW s \in Subscriptions, NEW e \in Events, ChangeSubscription(s, e)
      PROVE  StripeHolds'
  <2>1. sub[s] # "none" /\ of[s] # None /\ customer[of[s]] # "none"
    BY <1>2 DEF ChangeSubscription, CouldStillBill, StripeHolds
  <2>2. UNCHANGED <<customerId, customer, session, of, known, processed>>
    BY <1>2 DEF ChangeSubscription
  <2>3. \A t \in Subscriptions : t # s => sub'[t] = sub[t]
    BY <1>2 DEF ChangeSubscription, TypeOK
  <2>4. \A d \in Events : event'[d] = event[d] \/ event'[d] = of[s]
    BY <1>2 DEF ChangeSubscription, Announce, TypeOK
  <2>5. \A d \in Events : event[d] # None => event'[d] # None
    BY <1>2, <2>1 DEF ChangeSubscription, Announce, TypeOK
  <2>6. Sessions \subseteq Subscriptions /\ processed \subseteq Events
    BY DEF Subscriptions, TypeOK
  <2> HIDE <1>2
  <2> QED
    BY <2>1, <2>2, <2>3, <2>4, <2>5, <2>6 DEF StripeHolds
<1> QED
  BY <1>1, <1>2 DEF StripeNext

---------------------------------------------------------------------------
(* Payments.                                                               *)

NothingPayable == \A s \in Sessions : ~Payable(s)
NothingBills == \A u \in Subscriptions : of[u] = customerId => ~CouldStillBill(u)

LEMMA PaymentsAre ==
  PaymentsHold <=>
    /\ \A s, t \in Sessions : Payable(s) /\ Payable(t) => s = t
    /\ \A s \in Sessions : Payable(s) => NothingBills
    /\ \A r \in Requests : At(r, "checkout", "expiring") /\ HoldsLock(r) =>
         \A s \in Sessions : Payable(s) => s \in req[r].open
    /\ \A r \in Requests :
         (At(r, "checkout", "checked") \/ At(r, "checkout", "made")) /\ HoldsLock(r) =>
           NothingPayable /\ NothingBills
BY DEF PaymentsHold, NothingPayable, NothingBills

\* Who holds a lock holds it for the stored customer, so nobody else does.
LEMMA OneHolder ==
  ASSUME TypeOK, HandlersHold, NEW r \in Requests, NEW q \in Requests,
         req[r] # Idle, req[r].phase \in InTransaction, HoldsLock(r),
         req[q] # Idle, req[q].phase \in InTransaction, HoldsLock(q)
  PROVE  q = r
<1>1. req[r].customer = customerId /\ req[q].customer = customerId
  BY DEF HandlersHold, HoldsStored, InTransaction
<1> QED
  BY <1>1 DEF HoldsLock

\* A step that makes no session payable and no subscription bill, and in which whoever
\* still is between its list and its URL was there before, with the same list.
LEMMA PaymentsKept ==
  ASSUME TypeOK, PaymentsHold,
         \A s \in Sessions : Payable(s)' => Payable(s),
         NothingBills => NothingBills',
         \A q \in Requests : At(q, "checkout", "expiring")' /\ HoldsLock(q)' =>
           /\ At(q, "checkout", "expiring") /\ HoldsLock(q)
           /\ \A s \in Sessions : Payable(s)' /\ s \in req[q].open => s \in req'[q].open,
         \A q \in Requests :
           (At(q, "checkout", "checked")' \/ At(q, "checkout", "made")') /\ HoldsLock(q)' =>
             /\ At(q, "checkout", "checked") \/ At(q, "checkout", "made")
             /\ HoldsLock(q)
  PROVE  PaymentsHold'
<1>1. PaymentsHold' <=>
        /\ \A s, t \in Sessions : Payable(s)' /\ Payable(t)' => s = t
        /\ \A s \in Sessions : Payable(s)' => NothingBills'
        /\ \A r \in Requests : At(r, "checkout", "expiring")' /\ HoldsLock(r)' =>
             \A s \in Sessions : Payable(s)' => s \in req'[r].open
        /\ \A r \in Requests :
             (At(r, "checkout", "checked")' \/ At(r, "checkout", "made")') /\ HoldsLock(r)' =>
               NothingPayable' /\ NothingBills'
  BY DEF PaymentsHold, NothingPayable, NothingBills
<1>2. NothingPayable => NothingPayable'
  BY DEF NothingPayable
<1>3. /\ \A s, t \in Sessions : Payable(s)' /\ Payable(t)' => s = t
      /\ \A s \in Sessions : Payable(s)' => NothingBills'
  BY PaymentsAre
<1>4. ASSUME NEW r \in Requests, At(r, "checkout", "expiring")', HoldsLock(r)', NEW s \in Sessions, Payable(s)'
      PROVE  s \in req'[r].open
  BY <1>4, PaymentsAre
<1>5. ASSUME NEW r \in Requests, At(r, "checkout", "checked")' \/ At(r, "checkout", "made")', HoldsLock(r)'
      PROVE  NothingPayable' /\ NothingBills'
  BY <1>2, <1>5, PaymentsAre
<1> QED
  BY <1>1, <1>3, <1>4, <1>5

\* Nobody comes by another's lock.
LEMMA LockStays ==
  ASSUME TypeOK, HandlersHold, NEW r \in Requests, NEW q \in Requests \ {r}, req'[q] = req[q],
         \/ lock' = lock
         \/ lock' = Released(r)
         \/ lock' = [lock EXCEPT ![req[r].customer] = r],
         req[q] # Idle, req[q].phase \in InTransaction, HoldsLock(q)'
  PROVE  HoldsLock(q)
<1>1. req[q].customer \in Customers
  BY DEF HandlersHold, HoldsStored, InTransaction, TypeOK
<1> QED
  BY <1>1, NoneAssumption DEF HoldsLock, Released, TypeOK

Choosing(q) ==
  At(q, "checkout", "expiring") \/ At(q, "checkout", "checked") \/ At(q, "checkout", "made")

LEMMA ChoosingInTransaction ==
  ASSUME NEW q \in Requests, Choosing(q)
  PROVE  req[q] # Idle /\ req[q].phase \in InTransaction
BY DEF Choosing, At, Idle, InTransaction

\* A step of a request that is not between its list and its URL afterwards.
LEMMA PaymentsQuiet ==
  ASSUME TypeOK, HandlersHold, PaymentsHold, NEW r \in Requests, ~Choosing(r)',
         \A q \in Requests \ {r} : req'[q] = req[q],
         \/ lock' = lock
         \/ lock' = Released(r)
         \/ lock' = [lock EXCEPT ![req[r].customer] = r],
         \A s \in Sessions : Payable(s)' => Payable(s),
         NothingBills => NothingBills'
  PROVE  PaymentsHold'
<1>1. ASSUME NEW q \in Requests, Choosing(q)', HoldsLock(q)'
      PROVE  q # r /\ req'[q] = req[q] /\ HoldsLock(q)
  <2>1. q # r /\ req'[q] = req[q]
    BY <1>1
  <2>2. Choosing(q)
    BY <1>1, <2>1 DEF Choosing, At
  <2> QED
    BY <1>1, <2>1, <2>2, LockStays, ChoosingInTransaction
<1>2. \A q \in Requests : At(q, "checkout", "expiring")' /\ HoldsLock(q)' =>
        /\ At(q, "checkout", "expiring") /\ HoldsLock(q)
        /\ \A s \in Sessions : Payable(s)' /\ s \in req[q].open => s \in req'[q].open
  BY <1>1 DEF Choosing, At
<1>3. \A q \in Requests :
        (At(q, "checkout", "checked")' \/ At(q, "checkout", "made")') /\ HoldsLock(q)' =>
          /\ At(q, "checkout", "checked") \/ At(q, "checkout", "made")
          /\ HoldsLock(q)
  BY <1>1 DEF Choosing, At
<1> QED
  BY <1>2, <1>3, PaymentsKept

LEMMA PaymentsSame ==
  ASSUME UNCHANGED <<customerId, session, of, sub, known>>
  PROVE  (\A s \in Sessions : Payable(s)' => Payable(s)) /\ (NothingBills => NothingBills')
BY DEF Payable, NothingBills, CouldStillBill

LEMMA FinishPayments ==
  ASSUME TypeOK, HandlersHold, PaymentsHold, NEW r \in Requests, Finish(r),
         UNCHANGED <<customerId, session, of, sub, known>>
  PROVE  PaymentsHold'
<1>1. ~Choosing(r)' /\ \A q \in Requests \ {r} : req'[q] = req[q]
  BY DEF Finish, Choosing, At, Idle, TypeOK
<1> QED
  BY <1>1, PaymentsSame, PaymentsQuiet DEF Finish

LEMMA OtherPayments ==
  ASSUME BillingInv, NEW r \in Requests, WebhookNext(r) \/ Lock(r) \/ TimeOut(r) \/ Rollback(r)
  PROVE  PaymentsHold'
<1> TypeOK /\ HandlersHold /\ PaymentsHold
  BY DEF BillingInv
<1> UNCHANGED <<customerId, session, of, sub, known>>
  BY DEF WebhookNext, Receive, RecordUnknown, ListSubscriptions, SkipUnpriced, RecordUnpriced,
         WritePlan, Lock, TimeOut, Rollback, orgVars, stripeVars
<1>1. ASSUME NEW e \in Events, Receive(r, e) PROVE PaymentsHold'
  <2>1. ~Choosing(r)' /\ lock' = lock /\ \A q \in Requests \ {r} : req'[q] = req[q]
    BY <1>1 DEF Receive, TypeOK, Choosing, At
  <2> QED
    BY <2>1, PaymentsSame, PaymentsQuiet
<1>2. CASE RecordUnknown(r) \/ RecordUnpriced(r) \/ WritePlan(r) \/ Rollback(r)
  BY <1>2, FinishPayments DEF RecordUnknown, RecordUnpriced, WritePlan, Rollback
<1>3. CASE ListSubscriptions(r)
  <2>1. PICK pick \in Picks(req[r].customer) :
          req' = [req EXCEPT ![r].phase = "listed", ![r].pick = pick, ![r].at = Len(entitled)]
    BY <1>3 DEF ListSubscriptions
  <2>2. req[r] \in WebhookHandlers
    BY <1>3, AtWebhook DEF ListSubscriptions, Phases
  <2>3. req'[r].op = "webhook" /\ \A q \in Requests \ {r} : req'[q] = req[q]
    BY <2>1, <2>2 DEF TypeOK, WebhookHandlers
  <2>4. ~Choosing(r)' /\ lock' = lock
    BY <1>3, <2>3 DEF ListSubscriptions, Choosing, At
  <2> QED
    BY <2>3, <2>4, PaymentsSame, PaymentsQuiet
<1>4. CASE Lock(r)
  <2>1. req[r] # Idle
    BY <1>4 DEF Lock, Idle
  <2>2. req'[r].phase = "locked" /\ \A q \in Requests \ {r} : req'[q] = req[q]
    BY <1>4, <2>1, InFlight DEF Lock, Goes, TypeOK, CheckoutHandlers, WebhookHandlers
  <2>3. ~Choosing(r)' /\ lock' = [lock EXCEPT ![req[r].customer] = r]
    BY <1>4, <2>2 DEF Lock, Choosing, At
  <2> QED
    BY <2>2, <2>3, PaymentsSame, PaymentsQuiet
<1>5. CASE TimeOut(r)
  <2>1. req' = req /\ lock' = Released(r)
    BY <1>5 DEF TimeOut
  <2>2. CASE ~Choosing(r)
    <3>1. ~Choosing(r)'
      BY <2>1, <2>2 DEF Choosing, At
    <3> QED
      BY <2>1, <3>1, PaymentsSame, PaymentsQuiet
  <2>3. CASE Choosing(r)
    <3>1. ASSUME NEW q \in Requests, Choosing(q), HoldsLock(q)' PROVE HoldsLock(q)
      <4>1. req[q].customer \in Customers
        BY <3>1, ChoosingInTransaction DEF HandlersHold, HoldsStored, InTransaction, TypeOK
      <4> QED
        BY <2>1, <3>1, <4>1, NoneAssumption DEF HoldsLock, Released, TypeOK
    <3> QED
      BY <2>1, <3>1, PaymentsSame, PaymentsKept DEF Choosing, At
  <2> QED
    BY <2>2, <2>3
<1>6. CASE SkipUnpriced(r)
  <2>1. req'[r].phase = "unpriced" /\ \A q \in Requests \ {r} : req'[q] = req[q]
    BY <1>6, AtWebhook DEF SkipUnpriced, Goes, TypeOK, Phases, WebhookHandlers
  <2>2. ~Choosing(r)' /\ lock' = Released(r)
    BY <1>6, <2>1 DEF SkipUnpriced, Choosing, At
  <2> QED
    BY <2>1, <2>2, PaymentsSame, PaymentsQuiet
<1> QED
  BY <1>1, <1>2, <1>3, <1>4, <1>5, <1>6 DEF WebhookNext

\* A step of a checkout between its list and its URL, which keeps the lock if it has it.
LEMMA PaymentsStep ==
  ASSUME TypeOK, HandlersHold, PaymentsHold, NEW r \in Requests, lock' = lock,
         \A q \in Requests \ {r} : req'[q] = req[q],
         \A s \in Sessions : Payable(s)' => Payable(s),
         NothingBills => NothingBills',
         At(r, "checkout", "expiring")' /\ HoldsLock(r)' =>
           \A s \in Sessions : Payable(s)' => s \in req'[r].open,
         (At(r, "checkout", "checked")' \/ At(r, "checkout", "made")') /\ HoldsLock(r)' =>
           NothingPayable /\ NothingBills
  PROVE  PaymentsHold'
<1>1. ASSUME NEW q \in Requests \ {r}, Choosing(q)', HoldsLock(q)'
      PROVE  req'[q] = req[q] /\ Choosing(q) /\ HoldsLock(q)
  <2>1. req'[q] = req[q] /\ Choosing(q)
    BY <1>1 DEF Choosing, At
  <2> QED
    BY <1>1, <2>1, LockStays, ChoosingInTransaction
<1>2. /\ \A s, t \in Sessions : Payable(s)' /\ Payable(t)' => s = t
      /\ \A s \in Sessions : Payable(s)' => NothingBills'
  BY PaymentsAre
<1>3. NothingPayable => NothingPayable'
  BY DEF NothingPayable
<1>4. ASSUME NEW q \in Requests, At(q, "checkout", "expiring")', HoldsLock(q)',
             NEW s \in Sessions, Payable(s)'
      PROVE  s \in req'[q].open
  <2>1. CASE q # r
    BY <1>1, <1>4, <2>1, PaymentsAre DEF Choosing, At
  <2> QED
    BY <1>4, <2>1
<1>5. ASSUME NEW q \in Requests, At(q, "checkout", "checked")' \/ At(q, "checkout", "made")',
             HoldsLock(q)'
      PROVE  NothingPayable' /\ NothingBills'
  <2>1. CASE q # r
    BY <1>1, <1>3, <1>5, <2>1, PaymentsAre DEF Choosing, At
  <2> QED
    BY <1>3, <1>5, <2>1
<1> QED
  BY <1>2, <1>4, <1>5 DEF PaymentsHold, NothingPayable, NothingBills

LEMMA CheckoutPayments ==
  ASSUME BillingInv, NEW r \in Requests, CheckoutNext(r)
  PROVE  PaymentsHold'
<1> TypeOK /\ HandlersHold /\ StripeHolds /\ PaymentsHold
  BY DEF BillingInv
<1> USE DEF Phases
<1>1. ASSUME NEW tier \in Paid, CheckoutRead(r, tier) PROVE PaymentsHold'
  <2>1. ~Choosing(r)' /\ lock' = lock /\ \A q \in Requests \ {r} : req'[q] = req[q]
    BY <1>1 DEF CheckoutRead, TypeOK, Choosing, At
  <2> QED
    BY <1>1, <2>1, PaymentsSame, PaymentsQuiet DEF CheckoutRead, orgVars, stripeVars
<1>2. ASSUME NEW c \in Customers, CreateCustomer(r, c) PROVE PaymentsHold'
  <2>1. req'[r].phase = "opened" /\ \A q \in Requests \ {r} : req'[q] = req[q]
    BY <1>2, AtCheckout DEF CreateCustomer, TypeOK
  <2>2. ~Choosing(r)' /\ lock' = lock
    BY <1>2, <2>1 DEF CreateCustomer, Choosing, At
  <2> QED
    BY <1>2, <2>1, <2>2, PaymentsSame, PaymentsQuiet DEF CreateCustomer, orgVars
<1>3. CASE ClaimCustomer(r)
  <2>1. Fresh(req[r].customer) /\ req[r] # Idle
    BY <1>3, AtCheckout DEF ClaimCustomer, At, Opened, HandlersHold, HoldsOpened
  <2>2. req'[r].phase = "wait" /\ \A q \in Requests \ {r} : req'[q] = req[q]
    BY <1>3, <2>1 DEF ClaimCustomer, Goes, TypeOK
  <2>3. ~Choosing(r)' /\ lock' = lock
    BY <1>3, <2>2 DEF ClaimCustomer, Choosing, At
  <2>4. NothingBills' /\ \A s \in Sessions : Payable(s)' => Payable(s)
    BY <1>3, <2>1 DEF ClaimCustomer, NothingBills, Fresh, Payable, stripeVars
  <2> QED
    BY <2>2, <2>3, <2>4, PaymentsQuiet
<1>4. CASE LoseClaim(r)
  <2>1. req'[r].phase = "wait" /\ \A q \in Requests \ {r} : req'[q] = req[q]
    BY <1>4, AtCheckout DEF LoseClaim, TypeOK
  <2>2. ~Choosing(r)' /\ lock' = lock
    BY <1>4, <2>1 DEF LoseClaim, Choosing, At
  <2> QED
    BY <1>4, <2>1, <2>2, PaymentsSame, PaymentsQuiet DEF LoseClaim, orgVars
<1>5. CASE ListOpenSessions(r)
  <2>1. req[r].customer = customerId /\ customerId # None
    BY <1>5, AtCheckout DEF ListOpenSessions, At, HandlersHold, HoldsStored
  <2>2. /\ \A q \in Requests \ {r} : req'[q] = req[q]
        /\ req'[r].phase = "expiring"
        /\ req'[r].open = {s \in Sessions : session[s] = "open" /\ of[s] = customerId}
    BY <1>5, <2>1, AtCheckout DEF ListOpenSessions, TypeOK, CheckoutHandlers
  <2>3. UNCHANGED <<customerId, session, of, sub, known, lock>>
    BY <1>5 DEF ListOpenSessions, orgVars, stripeVars
  <2>4. \A s \in Sessions : Payable(s) => s \in req'[r].open
    BY <2>2 DEF Payable, StripeHolds
  <2>5. ~(At(r, "checkout", "checked")' \/ At(r, "checkout", "made")')
    BY <2>2 DEF At
  <2> QED
    BY <2>2, <2>3, <2>4, <2>5, PaymentsSame, PaymentsStep
<1>6. ASSUME NEW s \in Sessions, ExpireSession(r, s) PROVE PaymentsHold'
  <2>1. /\ \A q \in Requests \ {r} : req'[q] = req[q]
        /\ req'[r].phase = "expiring" /\ req'[r].op = "checkout"
        /\ req'[r].customer = req[r].customer
        /\ req'[r].open = req[r].open \ {s}
    BY <1>6, AtCheckout DEF ExpireSession, TypeOK, CheckoutHandlers, At
  <2>2. UNCHANGED <<customerId, of, sub, known, lock>> /\ session' = [session EXCEPT ![s] = "expired"]
    BY <1>6 DEF ExpireSession, orgVars
  <2>3. \A t \in Sessions : Payable(t)' => t # s /\ Payable(t)
    BY <2>2 DEF Payable, TypeOK
  <2>4. NothingBills => NothingBills'
    BY <2>2 DEF NothingBills, CouldStillBill
  <2>5. HoldsLock(r)' => \A t \in Sessions : Payable(t)' => t \in req'[r].open
    BY <1>6, <2>1, <2>2, <2>3, PaymentsAre DEF ExpireSession, HoldsLock
  <2>6. ~(At(r, "checkout", "checked")' \/ At(r, "checkout", "made")')
    BY <2>1 DEF At
  <2> QED
    BY <2>1, <2>2, <2>3, <2>4, <2>5, <2>6, PaymentsStep
<1>7. ASSUME NEW s \in Sessions, CreateSession(r, s) PROVE PaymentsHold'
  <2>1. /\ \A q \in Requests \ {r} : req'[q] = req[q]
        /\ req'[r].phase = "made" /\ req'[r].customer = req[r].customer
    BY <1>7, AtCheckout DEF CreateSession, TypeOK, CheckoutHandlers
  <2>2. UNCHANGED <<customerId, sub, known, lock>> /\ session' = [session EXCEPT ![s] = "open"]
        /\ s \notin known /\ sub[s] = "none"
    BY <1>7 DEF CreateSession, orgVars, StripeHolds
  <2>3. \A t \in Sessions : Payable(t)' => Payable(t)
    BY <2>2 DEF Payable, TypeOK
  <2>4. NothingBills => NothingBills'
    BY <1>7, <2>2 DEF CreateSession, NothingBills, CouldStillBill, TypeOK
  <2>5. HoldsLock(r)' => NothingPayable /\ NothingBills
    BY <1>7, <2>1, <2>2, PaymentsAre DEF CreateSession, HoldsLock
  <2>6. ~At(r, "checkout", "expiring")'
    BY <2>1 DEF At
  <2> QED
    BY <2>1, <2>2, <2>3, <2>4, <2>5, <2>6, PaymentsStep
<1>8. CASE CheckSubscriptions(r)
  <2>1. req[r].customer = customerId
    BY <1>8, AtCheckout DEF CheckSubscriptions, At, HandlersHold, HoldsStored
  <2>2. /\ \A q \in Requests \ {r} : req'[q] = req[q]
        /\ req'[r].phase = "checked" /\ req'[r].customer = req[r].customer
    BY <1>8, AtCheckout DEF CheckSubscriptions, Goes, TypeOK, CheckoutHandlers
  <2>3. UNCHANGED <<customerId, session, of, sub, known, lock>>
    BY <1>8 DEF CheckSubscriptions, orgVars, stripeVars
  <2>4. HoldsLock(r)' => NothingPayable /\ NothingBills
    BY <1>8, <2>1, <2>2, <2>3, PaymentsAre
    DEF CheckSubscriptions, HoldsLock, NothingPayable, NothingBills
  <2>5. ~At(r, "checkout", "expiring")'
    BY <2>2 DEF At
  <2> QED
    BY <2>2, <2>3, <2>4, <2>5, PaymentsSame, PaymentsStep
<1>9. CASE ReturnUrl(r)
  <2>1. Choosing(r) /\ HoldsLock(r) /\ NothingPayable /\ NothingBills
    BY <1>9, PaymentsAre DEF ReturnUrl, Choosing
  <2>2. ASSUME NEW q \in Requests, Choosing(q)', HoldsLock(q)' PROVE FALSE
    <3>1. q # r /\ req'[q] = req[q] /\ lock' = Released(r)
      BY <1>9, <2>2 DEF ReturnUrl, Finish, TypeOK, Choosing, At, Idle
    <3>2. Choosing(q)
      BY <2>2, <3>1 DEF Choosing, At
    <3>3. HoldsLock(q)
      BY <2>2, <3>1, <3>2, LockStays, ChoosingInTransaction
    <3> QED
      BY <2>1, <3>1, <3>2, <3>3, OneHolder, ChoosingInTransaction
  <2>3. \A s \in Sessions : Payable(s)' => s = req[r].session
    BY <1>9, <2>1 DEF ReturnUrl, Payable, NothingPayable, stripeVars
  <2>4. NothingBills'
    BY <1>9, <2>1 DEF ReturnUrl, NothingBills, CouldStillBill, orgVars, stripeVars
  <2> QED
    BY <2>2, <2>3, <2>4 DEF PaymentsHold, NothingBills, Choosing
<1> QED
  BY <1>1, <1>2, <1>3, <1>4, <1>5, <1>6, <1>7, <1>8, <1>9 DEF CheckoutNext

LEMMA StripePayments ==
  ASSUME BillingInv, StripeNext
  PROVE  PaymentsHold'
<1> TypeOK /\ HandlersHold /\ StripeHolds /\ PaymentsHold
  BY DEF BillingInv
<1>1. ASSUME NEW s \in Sessions, NEW e \in Events, Pay(s, e) PROVE PaymentsHold'
  <2>1. Payable(s) /\ UNCHANGED <<known, lock, req>>
    BY <1>1 DEF Pay, Payable
  <2>2. NothingPayable'
    BY <1>1, <2>1, PaymentsAre DEF Pay, Payable, NothingPayable, TypeOK
  <2>3. \A q \in Requests : ~((At(q, "checkout", "checked") \/ At(q, "checkout", "made")) /\ HoldsLock(q))
    BY <2>1, PaymentsAre DEF NothingPayable
  <2>4. \A q \in Requests :
          ~((At(q, "checkout", "checked")' \/ At(q, "checkout", "made")') /\ HoldsLock(q)')
    BY <2>1, <2>3 DEF At, HoldsLock
  <2> QED
    BY <2>2, <2>4 DEF PaymentsHold, NothingPayable
<1>2. ASSUME NEW s \in Subscriptions, NEW e \in Events, ChangeSubscription(s, e)
      PROVE  PaymentsHold'
  <2>1. UNCHANGED <<customerId, session, of, known, lock, req>>
    BY <1>2 DEF ChangeSubscription, orgVars
  <2>2. \A t \in Sessions : Payable(t)' => Payable(t)
    BY <2>1 DEF Payable
  <2>3. NothingBills => NothingBills'
    BY <1>2, <2>1 DEF ChangeSubscription, NothingBills, CouldStillBill, TypeOK
  <2>4. \A q \in Requests, phase \in {"expiring", "checked", "made"} :
          At(q, "checkout", phase)' = At(q, "checkout", phase) /\ HoldsLock(q)' = HoldsLock(q)
    BY <2>1 DEF At, HoldsLock
  <2> QED
    BY <2>1, <2>2, <2>3, <2>4, PaymentsKept
<1> QED
  BY <1>1, <1>2 DEF StripeNext

---------------------------------------------------------------------------
(* The plan mirrors Stripe.                                                *)

\* A step leaves the events of the organization to whoever is to process them.
PendingStays ==
  /\ customerId # None => customerId' # None
  /\ Unmapped(customerId)' = Unmapped(customerId)
  /\ \/ Unmapped(customerId) # {}
     \/ \A e \in Events :
          customerId # None /\ event[e] = customerId /\ e \notin processed /\ Unskipped(e) =>
            event'[e] = customerId' /\ e \notin processed' /\ Unskipped(e)'

LEMMA PendingKept ==
  ASSUME PendingStays
  PROVE  /\ Pending({}) => Pending({})'
         /\ \A d \in Events : Pending({d}) => Pending({d})'
BY DEF PendingStays, Pending

LEMMA UnmappedSame ==
  ASSUME UNCHANGED <<customerId, of, item, sub>>
  PROVE  Unmapped(customerId)' = Unmapped(customerId)
BY DEF Unmapped, Entitling

\* Only a handler that finds no price skips an event.
LEMMA UnskippedStays ==
  ASSUME NEW r \in Requests, ~At(r, "webhook", "unpriced")',
         \A q \in Requests \ {r} : req'[q] = req[q]
  PROVE  \A e : Unskipped(e) => Unskipped(e)'
BY DEF Unskipped, At

LEMMA PendingSame ==
  ASSUME UNCHANGED <<customerId, event, processed>>,
         Unmapped(customerId)' = Unmapped(customerId),
         NEW r \in Requests, ~At(r, "webhook", "unpriced")',
         \A q \in Requests \ {r} : req'[q] = req[q]
  PROVE  PendingStays
BY UnskippedStays DEF PendingStays

\* What the handler that is about to write the plan has in hand.
ListHolds(r) ==
  /\ req[r].at \in synced .. Len(entitled)
  /\ req[r].pick.tier = entitled[req[r].at]
  /\ req[r].pick.tier # Tier(customerId) => Pending({req[r].event})

LEMMA MirrorIs ==
  MirrorHolds <=>
    /\ entitled[Len(entitled)] = Tier(customerId)
    /\ plan.tier = entitled[synced]
    /\ plan.tier # Tier(customerId) => Pending({})
    /\ \A r \in Requests : At(r, "webhook", "listed") /\ HoldsLock(r) => ListHolds(r)
BY DEF MirrorHolds, ListHolds

LEMMA MirrorIntro ==
  ASSUME entitled'[Len(entitled')] = Tier(customerId)',
         plan'.tier = entitled'[synced'],
         plan'.tier # Tier(customerId)' => Pending({})',
         \A r \in Requests : At(r, "webhook", "listed")' /\ HoldsLock(r)' => ListHolds(r)'
  PROVE  MirrorHolds'
BY DEF MirrorHolds, ListHolds

LEMMA ListedInTransaction ==
  ASSUME TypeOK, NEW r \in Requests, At(r, "webhook", "listed")
  PROVE  /\ req[r] # Idle /\ req[r].phase \in InTransaction /\ req[r] \in WebhookHandlers
         /\ req[r].op = "webhook" /\ req[r].event \in Events
<1>1. req[r] \in WebhookHandlers /\ req[r] # Idle
  BY AtWebhook DEF Phases
<1> QED
  BY <1>1 DEF At, InTransaction, WebhookHandlers

\* A step of a request that has no list afterwards, and leaves plan and subscriptions.
LEMMA MirrorQuiet ==
  ASSUME TypeOK, HandlersHold, MirrorHolds, NEW r \in Requests,
         UNCHANGED <<plan, synced, entitled>>,
         Tier(customerId)' = Tier(customerId), PendingStays,
         ~At(r, "webhook", "listed")',
         \A q \in Requests \ {r} : req'[q] = req[q],
         \/ lock' = lock
         \/ lock' = Released(r)
         \/ lock' = [lock EXCEPT ![req[r].customer] = r]
  PROVE  MirrorHolds'
<1>1. ASSUME NEW q \in Requests, At(q, "webhook", "listed")', HoldsLock(q)' PROVE ListHolds(q)'
  <2>1. q # r /\ req'[q] = req[q]
    BY <1>1
  <2>2. At(q, "webhook", "listed")
    BY <1>1, <2>1 DEF At
  <2>3. HoldsLock(q) /\ req[q].event \in Events
    BY <1>1, <2>1, <2>2, LockStays, ListedInTransaction
  <2>4. ListHolds(q)
    BY <2>2, <2>3, MirrorIs
  <2>5. Pending({req[q].event}) => Pending({req[q].event})'
    <3>1. PICK d \in Events : d = req[q].event
      BY <2>3
    <3>2. Pending({d}) => Pending({d})'
      BY PendingKept
    <3> QED
      BY <2>1, <3>1, <3>2 DEF Pending
  <2> QED
    BY <2>1, <2>4, <2>5 DEF ListHolds
<1> QED
  BY <1>1, MirrorIs, MirrorIntro, PendingKept

LEMMA TierSame ==
  ASSUME UNCHANGED <<customerId, of, price, sub>>
  PROVE  Tier(customerId)' = Tier(customerId)
<1>1. Entitling(customerId)' = Entitling(customerId)
  BY DEF Entitling
<1> QED
  BY <1>1, TierKept

LEMMA FinishMirror ==
  ASSUME TypeOK, HandlersHold, MirrorHolds, NEW r \in Requests, Finish(r),
         UNCHANGED <<customerId, of, price, sub, plan, synced, entitled>>, PendingStays
  PROVE  MirrorHolds'
<1>1. ~At(r, "webhook", "listed")' /\ \A q \in Requests \ {r} : req'[q] = req[q]
  BY DEF Finish, At, Idle, TypeOK
<1> QED
  BY <1>1, TierSame, MirrorQuiet DEF Finish

LEMMA CheckoutMirror ==
  ASSUME BillingInv, NEW r \in Requests, CheckoutNext(r)
  PROVE  MirrorHolds'
<1> TypeOK /\ HandlersHold /\ StripeHolds /\ MirrorHolds
  BY DEF BillingInv
<1> USE DEF Phases
<1>1. ASSUME UNCHANGED <<customerId, plan, processed, synced, event, entitled, lock>>,
             Tier(customerId)' = Tier(customerId),
             Unmapped(customerId)' = Unmapped(customerId),
             ~At(r, "webhook", "listed")', ~At(r, "webhook", "unpriced")',
             \A q \in Requests \ {r} : req'[q] = req[q]
      PROVE  MirrorHolds'
  <2>1. PendingStays
    BY <1>1, PendingSame
  <2> QED
    BY <1>1, <2>1, MirrorQuiet
<1>2. ASSUME NEW tier \in Paid, CheckoutRead(r, tier) PROVE MirrorHolds'
  <2>1. /\ ~At(r, "webhook", "listed")' /\ ~At(r, "webhook", "unpriced")'
        /\ \A q \in Requests \ {r} : req'[q] = req[q]
    BY <1>2 DEF CheckoutRead, TypeOK, At
  <2> QED
    BY <1>1, <1>2, <2>1, TierSame, UnmappedSame DEF CheckoutRead, orgVars, stripeVars
<1>3. ASSUME NEW c \in Customers, CreateCustomer(r, c) PROVE MirrorHolds'
  <2>1. /\ ~At(r, "webhook", "listed")' /\ ~At(r, "webhook", "unpriced")'
        /\ \A q \in Requests \ {r} : req'[q] = req[q]
    BY <1>3, AtCheckout DEF CreateCustomer, TypeOK, At
  <2> QED
    BY <1>1, <1>3, <2>1, TierSame, UnmappedSame DEF CreateCustomer, orgVars
<1>4. CASE ClaimCustomer(r)
  <2>1. Fresh(req[r].customer) /\ req[r] # Idle
    BY <1>4, AtCheckout DEF ClaimCustomer, At, Opened, HandlersHold, HoldsOpened
  <2>2. req'[r].phase = "wait" /\ \A q \in Requests \ {r} : req'[q] = req[q]
    BY <1>4, <2>1 DEF ClaimCustomer, Goes, TypeOK
  <2>3. ~At(r, "webhook", "listed")' /\ ~At(r, "webhook", "unpriced")'
    BY <2>2 DEF At
  <2>4. Entitling(customerId) = {} /\ Entitling(customerId)' = {}
    BY <1>4, <2>1 DEF ClaimCustomer, Entitling, StripeHolds, Fresh, stripeVars
  <2>5. Tier(customerId)' = Tier(customerId)
    BY <2>4, TierKept
  <2>6. UNCHANGED <<plan, synced, entitled, lock>>
    BY <1>4 DEF ClaimCustomer, stripeVars
  <2>7. PendingStays
    BY <1>4, <2>4 DEF ClaimCustomer, PendingStays, Unmapped
  <2> QED
    BY <2>2, <2>3, <2>5, <2>6, <2>7, MirrorQuiet
<1>5. CASE LoseClaim(r)
  <2>1. /\ ~At(r, "webhook", "listed")' /\ ~At(r, "webhook", "unpriced")'
        /\ \A q \in Requests \ {r} : req'[q] = req[q]
    BY <1>5, AtCheckout DEF LoseClaim, TypeOK, At
  <2> QED
    BY <1>1, <1>5, <2>1, TierSame, UnmappedSame DEF LoseClaim, orgVars
<1>6. CASE ListOpenSessions(r)
  <2>1. /\ ~At(r, "webhook", "listed")' /\ ~At(r, "webhook", "unpriced")'
        /\ \A q \in Requests \ {r} : req'[q] = req[q]
    BY <1>6, AtCheckout DEF ListOpenSessions, TypeOK, At
  <2> QED
    BY <1>1, <1>6, <2>1, TierSame, UnmappedSame DEF ListOpenSessions, orgVars, stripeVars
<1>7. ASSUME NEW s \in Sessions, ExpireSession(r, s) PROVE MirrorHolds'
  <2>1. /\ ~At(r, "webhook", "listed")' /\ ~At(r, "webhook", "unpriced")'
        /\ \A q \in Requests \ {r} : req'[q] = req[q]
    BY <1>7, AtCheckout DEF ExpireSession, TypeOK, At, CheckoutHandlers
  <2> QED
    BY <1>1, <1>7, <2>1, TierSame, UnmappedSame DEF ExpireSession, orgVars
<1>8. ASSUME NEW s \in Sessions, CreateSession(r, s) PROVE MirrorHolds'
  <2>1. req'[r].phase = "made" /\ \A q \in Requests \ {r} : req'[q] = req[q]
    BY <1>8, AtCheckout DEF CreateSession, TypeOK, CheckoutHandlers
  <2>2. s \in Subscriptions /\ sub[s] = "none" /\ of[s] = None
    BY <1>8 DEF CreateSession, StripeHolds, Subscriptions
  <2>3. /\ \A t \in Subscriptions \ {s} : of'[t] = of[t] /\ price'[t] = price[t]
        /\ UNCHANGED <<customerId, sub>>
    BY <1>8 DEF CreateSession, TypeOK, orgVars
  <2>4. /\ Entitling(customerId)' = Entitling(customerId)
        /\ \A t \in Entitling(customerId) : price'[t] = price[t]
    BY <2>2, <2>3 DEF Entitling
  <2>5. Tier(customerId)' = Tier(customerId)
    BY <2>4, TierKept
  <2>6. ~At(r, "webhook", "listed")' /\ ~At(r, "webhook", "unpriced")'
    BY <2>1 DEF At
  <2>7. UNCHANGED <<customerId, plan, processed, synced, event, entitled, lock>>
    BY <1>8 DEF CreateSession, orgVars
  <2>8. Unmapped(customerId)' = Unmapped(customerId)
    BY <1>8, <2>4 DEF CreateSession, Unmapped
  <2> QED
    BY <1>1, <2>1, <2>5, <2>6, <2>7, <2>8
<1>9. CASE CheckSubscriptions(r)
  <2>1. /\ ~At(r, "webhook", "listed")' /\ ~At(r, "webhook", "unpriced")'
        /\ \A q \in Requests \ {r} : req'[q] = req[q]
    BY <1>9, AtCheckout DEF CheckSubscriptions, Goes, TypeOK, At
  <2> QED
    BY <1>1, <1>9, <2>1, TierSame, UnmappedSame DEF CheckSubscriptions, orgVars, stripeVars
<1>10. CASE ReturnUrl(r)
  <2>1. ~At(r, "webhook", "unpriced")' /\ \A q \in Requests \ {r} : req'[q] = req[q]
    BY <1>10 DEF ReturnUrl, Finish, At, Idle, TypeOK
  <2>2. PendingStays
    BY <1>10, <2>1, UnmappedSame, PendingSame DEF ReturnUrl, orgVars, stripeVars
  <2> QED
    BY <1>10, <2>2, FinishMirror DEF ReturnUrl, orgVars, stripeVars
<1> QED
  BY <1>2, <1>3, <1>4, <1>5, <1>6, <1>7, <1>8, <1>9, <1>10 DEF CheckoutNext

LEMMA WebhookMirror ==
  ASSUME BillingInv, NEW r \in Requests, WebhookNext(r)
  PROVE  MirrorHolds'
<1> TypeOK /\ HandlersHold /\ MirrorHolds
  BY DEF BillingInv
<1> USE DEF Phases
<1>1. ASSUME NEW e \in Events, Receive(r, e) PROVE MirrorHolds'
  <2>1. /\ ~At(r, "webhook", "listed")' /\ ~At(r, "webhook", "unpriced")'
        /\ \A q \in Requests \ {r} : req'[q] = req[q]
    BY <1>1 DEF Receive, TypeOK, At
  <2>2. PendingStays
    BY <1>1, <2>1, UnmappedSame, PendingSame DEF Receive, orgVars, stripeVars
  <2> QED
    BY <1>1, <2>1, <2>2, TierSame, MirrorQuiet DEF Receive, orgVars, stripeVars
<1>2. CASE RecordUnknown(r)
  <2>1. event[req[r].event] # customerId
    BY <1>2, AtWebhook DEF RecordUnknown, At, HandlersHold, HoldsEvent
  <2>2. ~At(r, "webhook", "unpriced")' /\ \A q \in Requests \ {r} : req'[q] = req[q]
    BY <1>2 DEF RecordUnknown, Finish, At, Idle, TypeOK
  <2>3. PendingStays
    BY <1>2, <2>1, <2>2, UnskippedStays, UnmappedSame
    DEF RecordUnknown, PendingStays, stripeVars
  <2> QED
    BY <1>2, <2>3, FinishMirror DEF RecordUnknown, stripeVars
<1>3. CASE ListSubscriptions(r)
  <2>1. PICK pick \in Picks(req[r].customer) :
          req' = [req EXCEPT ![r].phase = "listed", ![r].pick = pick, ![r].at = Len(entitled)]
    BY <1>3 DEF ListSubscriptions
  <2>2. req[r] \in WebhookHandlers /\ req[r].customer = customerId /\ req[r] # Idle
    BY <1>3, AtWebhook DEF ListSubscriptions, At, HandlersHold, HoldsStored
  <2>3. UNCHANGED <<customerId, of, price, item, sub, plan, synced, entitled, event, processed, lock>>
    BY <1>3 DEF ListSubscriptions, orgVars, stripeVars
  <2>4. pick.tier = Tier(customerId)
    BY <2>1, <2>2, PicksTier DEF TypeOK
  <2>5. /\ req'[r].pick = pick /\ req'[r].at = Len(entitled) /\ req'[r].phase = "listed"
        /\ \A q \in Requests \ {r} : req'[q] = req[q]
    BY <2>1, <2>2 DEF TypeOK, WebhookHandlers
  <2>6. Tier(customerId)' = Tier(customerId)
    BY <2>3, TierSame
  <2>11. PendingStays
    BY <2>3, <2>5, UnmappedSame, PendingSame DEF At
  <2>7. Len(entitled) \in synced .. Len(entitled)
    BY DEF TypeOK
  <2>8. ListHolds(r)'
    BY <2>3, <2>4, <2>5, <2>6, <2>7, MirrorIs DEF ListHolds
  <2>9. ASSUME NEW q \in Requests \ {r}, At(q, "webhook", "listed")', HoldsLock(q)'
        PROVE  ListHolds(q)'
    <3>1. At(q, "webhook", "listed") /\ HoldsLock(q)
      BY <2>3, <2>5, <2>9 DEF At, HoldsLock
    <3>2. PICK d \in Events : d = req[q].event
      BY <3>1, ListedInTransaction
    <3>3. Pending({d}) => Pending({d})'
      BY <2>11, PendingKept
    <3> QED
      BY <2>3, <2>5, <2>6, <3>1, <3>2, <3>3, MirrorIs DEF ListHolds, Pending
  <2>10. Pending({}) => Pending({})'
    BY <2>11, PendingKept
  <2> QED
    BY <2>3, <2>6, <2>8, <2>9, <2>10, MirrorIs, MirrorIntro
<1>4. CASE WritePlan(r)
  <2>1. ListHolds(r) /\ At(r, "webhook", "listed") /\ HoldsLock(r)
    BY <1>4, MirrorIs DEF WritePlan
  <2>2. ASSUME NEW q \in Requests, At(q, "webhook", "listed")', HoldsLock(q)' PROVE FALSE
    <3>1. q # r /\ req'[q] = req[q] /\ lock' = Released(r)
      BY <1>4, <2>2 DEF WritePlan, Finish, TypeOK, At, Idle
    <3>2. At(q, "webhook", "listed")
      BY <2>2, <3>1 DEF At
    <3>3. HoldsLock(q)
      BY <2>2, <3>1, <3>2, LockStays, ListedInTransaction
    <3> QED
      BY <2>1, <3>1, <3>2, <3>3, OneHolder, ListedInTransaction
  <2>3. Tier(customerId)' = Tier(customerId)
    BY <1>4, TierSame DEF WritePlan, stripeVars
  <2>6. \A e : Unskipped(e) => Unskipped(e)'
    BY <1>4, UnskippedStays DEF WritePlan, Finish, At, Idle, TypeOK
  <2>7. Unmapped(customerId)' = Unmapped(customerId)
    BY <1>4, UnmappedSame DEF WritePlan, stripeVars
  <2>4. Pending({req[r].event}) => Pending({})'
    BY <1>4, <2>6, <2>7 DEF WritePlan, Pending, stripeVars
  <2>5. /\ plan'.tier = req[r].pick.tier /\ synced' = req[r].at /\ entitled' = entitled
    BY <1>4 DEF WritePlan, stripeVars
  <2> QED
    BY <2>1, <2>2, <2>3, <2>4, <2>5, MirrorIs, MirrorIntro DEF ListHolds
<1>5. CASE SkipUnpriced(r)
  <2>1. req[r] \in WebhookHandlers /\ req[r].customer = customerId /\ req[r] # Idle
    BY <1>5, AtWebhook DEF SkipUnpriced, At, HandlersHold, HoldsStored
  <2>2. UNCHANGED <<customerId, of, price, item, sub, plan, synced, entitled>>
    BY <1>5 DEF SkipUnpriced, orgVars, stripeVars
  <2>3. PendingStays
    BY <1>5, <2>1, <2>2, UnmappedSame DEF SkipUnpriced, PendingStays, Unmapped
  <2>4. req'[r].phase = "unpriced" /\ \A q \in Requests \ {r} : req'[q] = req[q]
    BY <1>5, <2>1 DEF SkipUnpriced, Goes, TypeOK, WebhookHandlers
  <2>5. ~At(r, "webhook", "listed")' /\ lock' = Released(r)
    BY <1>5, <2>4 DEF SkipUnpriced, At
  <2> QED
    BY <2>2, <2>3, <2>4, <2>5, TierSame, MirrorQuiet
<1>6. CASE RecordUnpriced(r)
  <2>1. \A e : Unskipped(e) => e # req[r].event
    BY <1>6 DEF RecordUnpriced, Unskipped
  <2>2. ~At(r, "webhook", "unpriced")' /\ \A q \in Requests \ {r} : req'[q] = req[q]
    BY <1>6 DEF RecordUnpriced, Finish, At, Idle, TypeOK
  <2>3. PendingStays
    BY <1>6, <2>1, <2>2, UnskippedStays, UnmappedSame
    DEF RecordUnpriced, PendingStays, stripeVars
  <2> QED
    BY <1>6, <2>3, FinishMirror DEF RecordUnpriced, stripeVars
<1> QED
  BY <1>1, <1>2, <1>3, <1>4, <1>5, <1>6 DEF WebhookNext

LEMMA OtherMirror ==
  ASSUME BillingInv, NEW r \in Requests, Lock(r) \/ TimeOut(r) \/ Rollback(r)
  PROVE  MirrorHolds'
<1> TypeOK /\ HandlersHold /\ MirrorHolds
  BY DEF BillingInv
<1> UNCHANGED <<customerId, of, price, item, sub, plan, synced, entitled, event, processed>>
  BY DEF Lock, TimeOut, Rollback, orgVars, stripeVars
<1> Unmapped(customerId)' = Unmapped(customerId)
  BY UnmappedSame
<1>1. CASE Lock(r)
  <2>1. req[r] # Idle
    BY <1>1 DEF Lock, Idle
  <2>2. req'[r].phase = "locked" /\ \A q \in Requests \ {r} : req'[q] = req[q]
    BY <1>1, <2>1, InFlight DEF Lock, Goes, TypeOK, CheckoutHandlers, WebhookHandlers
  <2>3. ~At(r, "webhook", "listed")' /\ lock' = [lock EXCEPT ![req[r].customer] = r]
    BY <1>1, <2>2 DEF Lock, At
  <2>4. PendingStays
    BY <2>2, PendingSame DEF At
  <2> QED
    BY <2>2, <2>3, <2>4, TierSame, MirrorQuiet
<1>2. CASE TimeOut(r)
  <2>1. req' = req /\ lock' = Released(r) /\ Tier(customerId)' = Tier(customerId)
    BY <1>2, TierSame DEF TimeOut
  <2>2. ASSUME NEW q \in Requests, At(q, "webhook", "listed")', HoldsLock(q)'
        PROVE  ListHolds(q)'
    <3>1. At(q, "webhook", "listed")
      BY <2>1, <2>2 DEF At
    <3>2. req[q].customer \in Customers
      BY <3>1, ListedInTransaction DEF WebhookHandlers
    <3>3. HoldsLock(q)
      BY <2>1, <2>2, <3>2, NoneAssumption DEF HoldsLock, Released, TypeOK
    <3> QED
      BY <2>1, <3>1, <3>3, MirrorIs DEF ListHolds, Pending, Unskipped, At
  <2> QED
    BY <2>1, <2>2, MirrorIs, MirrorIntro DEF Pending, Unskipped, At
<1>3. CASE Rollback(r)
  <2>1. ~At(r, "webhook", "unpriced")' /\ \A q \in Requests \ {r} : req'[q] = req[q]
    BY <1>3 DEF Rollback, Finish, At, Idle, TypeOK
  <2>2. PendingStays
    BY <2>1, PendingSame
  <2> QED
    BY <1>3, <2>2, FinishMirror DEF Rollback
<1> QED
  BY <1>1, <1>2, <1>3

\* Stripe announces every change by an event, which is then pending.
LEMMA AnnouncedMirror ==
  ASSUME TypeOK, HandlersHold, StripeHolds, MirrorHolds, (price \in [Subscriptions -> Paid])',
         NEW e \in Events, NEW c \in Customers, Announce(c, e),
         c # customerId => /\ Tier(customerId)' = Tier(customerId)
                           /\ Unmapped(customerId)' = Unmapped(customerId),
         UNCHANGED <<customerId, plan, processed, synced, lock, req>>,
         entitled' = Append(entitled, Tier(customerId)')
  PROVE  MirrorHolds'
<1>1. (price \in [Subscriptions -> Paid] => Tier(customerId) \in Plans)'
  BY TierType, PTL
<1>2. /\ Len(entitled') = Len(entitled) + 1 /\ Len(entitled) \in Nat
      /\ \A i \in 1 .. Len(entitled) : entitled'[i] = entitled[i]
      /\ entitled'[Len(entitled')] = Tier(customerId)'
      /\ synced \in 1 .. Len(entitled)
  BY <1>1, AppendType DEF TypeOK
<1>3. event[e] = None /\ e \notin processed /\ event'[e] = c
      /\ \A d \in Events \ {e} : event'[d] = event[d]
  BY DEF Announce, StripeHolds, TypeOK
<1>10. Unskipped(e)' /\ \A d : Unskipped(d) => Unskipped(d)'
  <2>1. ASSUME NEW r \in Requests, At(r, "webhook", "unpriced") PROVE req[r].event # e
    <3>1. event[req[r].event] = req[r].customer /\ req[r].customer \in Customers
      BY <2>1, AtWebhook DEF Phases, At, HandlersHold, HoldsEvent, WebhookHandlers
    <3> QED
      BY <1>3, <3>1, NoneAssumption
  <2> QED
    BY <2>1 DEF Unskipped, At
<1>4. c # customerId => PendingStays
  BY <1>3, <1>10 DEF PendingStays
<1>5. c = customerId => \A d \in Events : d # e => Pending({d})'
  BY <1>3, <1>10, NoneAssumption DEF Pending
<1>6. c = customerId => Pending({})'
  BY <1>3, <1>10, NoneAssumption DEF Pending
<1>7. plan'.tier # Tier(customerId)' => Pending({})'
  BY <1>4, <1>6, PendingKept, MirrorIs
<1>8. ASSUME NEW q \in Requests, At(q, "webhook", "listed")', HoldsLock(q)'
      PROVE  ListHolds(q)'
  <2>1. At(q, "webhook", "listed") /\ HoldsLock(q)
    BY <1>8 DEF At, HoldsLock
  <2>2. ListHolds(q) /\ req[q].event \in Events /\ req[q].event # e
    <3>1. event[req[q].event] = req[q].customer /\ req[q].customer \in Customers
      BY <2>1, ListedInTransaction DEF HandlersHold, HoldsEvent, WebhookHandlers
    <3> QED
      BY <1>3, <2>1, <3>1, MirrorIs, ListedInTransaction, NoneAssumption
  <2>3. PICK d \in Events : d = req[q].event /\ d # e
    BY <2>2
  <2>4. Pending({d}) \/ c = customerId => Pending({req[q].event})'
    BY <1>4, <1>5, <2>3, PendingKept DEF Pending
  <2>5. req[q].at \in synced .. Len(entitled') /\ entitled'[req[q].at] = entitled[req[q].at]
    BY <1>2, <2>2 DEF ListHolds
  <2> QED
    BY <2>2, <2>3, <2>4, <2>5 DEF ListHolds
<1>9. plan'.tier = entitled'[synced']
  BY <1>2, MirrorIs
<1> QED
  BY <1>2, <1>7, <1>8, <1>9, MirrorIntro

LEMMA StripeMirror ==
  ASSUME BillingInv, StripeNext
  PROVE  MirrorHolds'
<1> TypeOK /\ HandlersHold /\ StripeHolds /\ MirrorHolds
  BY DEF BillingInv
<1> TypeOK'
  BY StripeType
<1> (price \in [Subscriptions -> Paid])'
  BY DEF TypeOK
<1>1. ASSUME NEW s \in Sessions, NEW e \in Events, Pay(s, e) PROVE MirrorHolds'
  <2>1. of[s] = customerId /\ customerId \in Customers
    BY <1>1 DEF Pay, StripeHolds, TypeOK
  <2>2. PICK c \in Customers : c = of[s] /\ c = customerId
    BY <2>1
  <2>3. Announce(c, e)
    BY <1>1, <2>2 DEF Pay, Announce
  <2>4. UNCHANGED <<customerId, plan, processed, synced, lock, req>>
        /\ entitled' = Append(entitled, Tier(customerId)')
    BY <1>1 DEF Pay, orgVars
  <2> QED
    BY <2>2, <2>3, <2>4, AnnouncedMirror
<1>2. ASSUME NEW s \in Subscriptions, NEW e \in Events, ChangeSubscription(s, e)
      PROVE  MirrorHolds'
  <2>1. of[s] \in Customers
    BY <1>2 DEF ChangeSubscription, CouldStillBill, StripeHolds, TypeOK
  <2>2. PICK c \in Customers : c = of[s]
    BY <2>1
  <2>3. Announce(c, e)
    BY <1>2, <2>2 DEF ChangeSubscription, Announce
  <2>4. UNCHANGED <<customerId, of, plan, processed, synced, lock, req>>
        /\ entitled' = Append(entitled, Tier(customerId)')
    BY <1>2 DEF ChangeSubscription, orgVars
  <2>5. ASSUME c # customerId
        PROVE  Tier(customerId)' = Tier(customerId) /\ Unmapped(customerId)' = Unmapped(customerId)
    <3>1. \A t \in Subscriptions \ {s} :
            sub'[t] = sub[t] /\ price'[t] = price[t] /\ item'[t] = item[t]
      BY <1>2 DEF ChangeSubscription, TypeOK
    <3>2. /\ Entitling(customerId)' = Entitling(customerId)
          /\ \A t \in Entitling(customerId) : price'[t] = price[t]
      BY <2>2, <2>4, <2>5, <3>1 DEF Entitling
    <3>3. Unmapped(customerId)' = Unmapped(customerId)
      BY <2>2, <2>4, <2>5, <3>1, <3>2 DEF Unmapped, Entitling
    <3> QED
      BY <3>2, <3>3, TierKept
  <2> QED
    BY <2>2, <2>3, <2>4, <2>5, AnnouncedMirror
<1> QED
  BY <1>1, <1>2 DEF StripeNext

---------------------------------------------------------------------------
(* The theorems.                                                           *)

LEMMA InitInv ==
  ASSUME Init
  PROVE  BillingInv
<1> None \notin Subscriptions /\ None \notin Customers /\ None \notin Requests
  BY NoneAssumption DEF Subscriptions
<1> Sessions \subseteq Subscriptions /\ Legacy \subseteq Subscriptions
  BY DEF Subscriptions
<1>1. /\ price \in [Subscriptions -> Paid] /\ sub \in [Subscriptions -> SubscriptionStatus]
      /\ \A s \in Subscriptions : sub[s] = "none" <=> s \in Sessions
  BY DEF Init
<1>2. PICK owner \in [Legacy -> Customers] :
        of = [s \in Subscriptions |-> IF s \in Legacy THEN owner[s] ELSE None]
  BY DEF Init
<1>3. /\ of \in [Subscriptions -> Customers \cup {None}]
      /\ \A s \in Legacy : of[s] \in Customers
      /\ \A s \in Sessions : of[s] = None
  BY <1>2, LegacyAssumption DEF Subscriptions
<1>4. /\ plan \in [tier : Plans, subscription : Subscriptions \cup {None}]
      /\ plan.tier = "FREE" <=> plan.subscription = None
      /\ plan.tier = Tier(customerId)
  BY <1>1, PicksType, PicksTier DEF Init
<1>5. /\ entitled = <<plan.tier>> /\ entitled \in Seq(Plans) /\ Len(entitled) = 1
      /\ entitled[1] = plan.tier /\ synced = 1
  <2>1. plan.tier \in Plans
    BY <1>4
  <2> QED
    BY <2>1 DEF Init
<1>11. item \in [Subscriptions -> {"known", "none", "unknown"}]
  BY DEF Init
<1>12. /\ customerId \in Customers \cup {None} /\ processed \subseteq Events /\ known \subseteq Sessions
       /\ lock \in [Customers -> Requests \cup {None}]
       /\ req \in [Requests -> Handlers \cup {Idle}]
       /\ customer \in [Customers -> {"none", "live", "deleted"}]
       /\ session \in [Sessions -> {"none", "open", "expired", "complete"}]
       /\ event \in [Events -> Customers \cup {None}]
  BY DEF Init
<1>6. TypeOK
  BY <1>1, <1>3, <1>4, <1>5, <1>11, <1>12 DEF TypeOK
<1>7. HandlersHold /\ LocksHold
  BY DEF Init, HandlersHold, HoldsOpened, HoldsStored, HoldsEvent, HoldsSession, Opened,
         LocksHold
<1>8. StripeHolds
  <2>1. \A c \in Customers : c = customerId \/ (\E s \in Legacy : of[s] = c) => customer[c] = "live"
    BY DEF Init
  <2>2. \A s \in Subscriptions : of[s] # None => customer[of[s]] # "none"
    BY <1>3, <2>1 DEF Subscriptions
  <2>3. \A s \in Subscriptions : sub[s] # "none" => of[s] # None
    BY <1>1, <1>3 DEF Subscriptions
  <2>4. \A s \in Sessions : session[s] = "none" /\ sub[s] = "none"
    BY <1>1 DEF Init
  <2>5. customerId # None => customer[customerId] = "live"
    BY <2>1 DEF Init
  <2> QED
    BY <1>3, <2>2, <2>3, <2>4, <2>5 DEF Init, StripeHolds
<1>9. PaymentsHold
  BY DEF Init, PaymentsHold, Payable, At, Idle
<1>10. MirrorHolds
  BY <1>4, <1>5 DEF Init, MirrorHolds, At, Idle
<1> QED
  BY <1>6, <1>7, <1>8, <1>9, <1>10 DEF BillingInv

LEMMA StutterInv ==
  ASSUME BillingInv, UNCHANGED vars
  PROVE  BillingInv'
<1> USE DEF vars
<1>1. TypeOK' /\ LocksHold' /\ StripeHolds'
  BY DEF BillingInv, TypeOK, LocksHold, StripeHolds
<1>2. HandlersHold'
  BY DEF BillingInv, HandlersHold, HoldsOpened, HoldsStored, HoldsEvent, HoldsSession,
         Opened, Fresh
<1>3. PaymentsHold'
  BY DEF BillingInv, PaymentsHold, Payable, CouldStillBill, At, HoldsLock
<1>4. MirrorHolds'
  <2>1. Tier(customerId)' = Tier(customerId)
    BY TierSame
  <2>5. Unmapped(customerId)' = Unmapped(customerId)
    BY UnmappedSame
  <2>4. Pending({})' = Pending({}) /\ \A r \in Requests : Pending({req[r].event})' = Pending({req[r].event})
    BY <2>5 DEF Pending, Unskipped, At
  <2>2. \A r \in Requests : ListHolds(r) => ListHolds(r)'
    BY <2>1, <2>4 DEF ListHolds
  <2>3. /\ \A r \in Requests : At(r, "webhook", "listed")' => At(r, "webhook", "listed")
        /\ \A r \in Requests : HoldsLock(r)' => HoldsLock(r)
    BY DEF At, HoldsLock
  <2> QED
    BY <2>1, <2>2, <2>3, <2>4, MirrorIs, MirrorIntro DEF BillingInv
<1> QED
  BY <1>1, <1>2, <1>3, <1>4 DEF BillingInv

LEMMA NextInv ==
  ASSUME BillingInv, Next
  PROVE  BillingInv'
<1>1. ASSUME NEW r \in Requests, CheckoutNext(r) PROVE BillingInv'
  BY <1>1, CheckoutType, CheckoutHolds, CheckoutLocks, CheckoutStripe, CheckoutPayments,
     CheckoutMirror DEF BillingInv
<1>2. ASSUME NEW r \in Requests, WebhookNext(r) PROVE BillingInv'
  BY <1>2, WebhookType, WebhookHolds, WebhookLocks, WebhookStripe, OtherPayments,
     WebhookMirror DEF BillingInv
<1>3. ASSUME NEW r \in Requests, Lock(r) \/ TimeOut(r) \/ Rollback(r) PROVE BillingInv'
  BY <1>3, OtherType, OtherHolds, OtherLocks, OtherStripe, OtherPayments, OtherMirror
     DEF BillingInv
<1>4. ASSUME StripeNext PROVE BillingInv'
  <2>1. LocksHold'
    BY <1>4 DEF StripeNext, Pay, ChangeSubscription, BillingInv, LocksHold
  <2> QED
    BY <1>4, <2>1, StripeType, StripeNextHolds, StripeNextStripe, StripePayments,
       StripeMirror DEF BillingInv
<1> QED
  BY <1>1, <1>2, <1>3, <1>4 DEF Next

\* The inductive invariant holds in every reachable state, whatever checkouts, deliveries,
\* timeouts, payments and changes interleave.
THEOREM BillingInvariant == Spec => []BillingInv
<1>1. Init => BillingInv
  BY InitInv
<1>2. BillingInv /\ [Next]_vars => BillingInv'
  BY NextInv, StutterInv
<1> QED
  BY <1>1, <1>2, PTL DEF Spec

\* TypeOK holds in every reachable state: the plan has a subscription exactly when it is paid.
THEOREM TypeCorrect == Spec => []TypeOK
<1>1. BillingInv => TypeOK
  BY DEF BillingInv
<1> QED
  BY <1>1, BillingInvariant, PTL

\* Every session, and so every payment, is the stored customer's, however first checkouts
\* race (createCheckoutSession).
THEOREM PaymentsMatched == Spec => []PaymentsReachOrg
<1>1. BillingInv => PaymentsReachOrg
  BY DEF BillingInv, StripeHolds, PaymentsReachOrg
<1> QED
  BY <1>1, BillingInvariant, PTL

\* Once all its events are processed, the plan is what the subscriptions amount to
\* (processStripeEvent, in whatever order and how often).
THEOREM SettledPlanCorrect == Spec => []SettledPlanIsExact
<1>1. BillingInv => SettledPlanIsExact
  <2> SUFFICES ASSUME BillingInv, \A e \in Events : event[e] # None => e \in processed,
                      Unmapped(customerId) = {}, plan.tier # Tier(customerId)
               PROVE  FALSE
    BY DEF SettledPlanIsExact
  <2>1. Pending({})
    BY DEF BillingInv, MirrorHolds
  <2> QED
    BY <2>1 DEF Pending
<1> QED
  BY <1>1, BillingInvariant, PTL

\* No payment starts a subscription beside one that could still bill
\* (createCheckoutSession: expire, look, then create, under the lock).
THEOREM NobodyBilledTwice == Spec => NoDoubleBilling
<1>1. ASSUME BillingInv, [Next]_vars, NEW s \in Sessions, sub[s] = "none", sub'[s] # "none",
             NEW u \in Subscriptions \ {s}, of[u] = of[s]
      PROVE  ~CouldStillBill(u)
  <2>1. sub' # sub
    BY <1>1
  <2>2. StripeNext
    <3>1. ASSUME NEW r \in Requests, CheckoutNext(r) PROVE FALSE
      BY <2>1, <3>1
      DEF CheckoutNext, CheckoutRead, CreateCustomer, ClaimCustomer, LoseClaim,
          ListOpenSessions, ExpireSession, CheckSubscriptions, CreateSession, ReturnUrl,
          stripeVars
    <3>2. ASSUME NEW r \in Requests, WebhookNext(r) PROVE FALSE
      BY <2>1, <3>2
      DEF WebhookNext, Receive, RecordUnknown, ListSubscriptions, SkipUnpriced, RecordUnpriced,
          WritePlan, stripeVars
    <3>3. ASSUME NEW r \in Requests, Lock(r) \/ TimeOut(r) \/ Rollback(r) PROVE FALSE
      BY <2>1, <3>3 DEF Lock, TimeOut, Rollback, stripeVars
    <3> QED
      BY <1>1, <2>1, <3>1, <3>2, <3>3 DEF Next, vars
  <2>3. ~ \E t \in Subscriptions, e \in Events : ChangeSubscription(t, e)
    <3>1. ASSUME NEW t \in Subscriptions, NEW e \in Events, ChangeSubscription(t, e) PROVE FALSE
      <4>1. t # s /\ s \in Subscriptions
        BY <1>1, <3>1 DEF ChangeSubscription, CouldStillBill, Subscriptions
      <4> QED
        BY <1>1, <3>1, <4>1 DEF ChangeSubscription, BillingInv, TypeOK
    <3> QED
      BY <3>1
  <2>4. PICK t \in Sessions, e \in Events : Pay(t, e)
    BY <2>2, <2>3 DEF StripeNext
  <2>5. t = s
    BY <1>1, <2>4 DEF Pay, BillingInv, TypeOK
  <2>6. Payable(s) /\ of[s] = customerId
    BY <1>1, <2>4, <2>5 DEF Pay, Payable, BillingInv, StripeHolds
  <2> QED
    BY <1>1, <2>6 DEF BillingInv, PaymentsHold
<1>2. BillingInv /\ [Next]_vars =>
        [\A s \in Sessions : sub[s] = "none" /\ sub'[s] # "none" =>
           \A u \in Subscriptions \ {s} : of[u] = of[s] => ~CouldStillBill(u)]_vars
  BY <1>1
<1> QED
  BY <1>2, BillingInvariant, PTL DEF Spec, NoDoubleBilling

LEMMA MirrorStep ==
  ASSUME BillingInv, [Next]_vars
  PROVE  Mirror!Next \/ UNCHANGED Mirror!mirrorVars
<1> TypeOK
  BY DEF BillingInv
<1>1. ASSUME NEW r \in Requests, WritePlan(r) PROVE Mirror!Next
  <2>1. ListHolds(r)
    BY <1>1, MirrorIs DEF WritePlan, BillingInv
  <2>2. entitled' = entitled /\ synced' = req[r].at /\ plan'.tier = req[r].pick.tier
    BY <1>1 DEF WritePlan, stripeVars
  <2>3. Mirror!Sync
    BY <2>1, <2>2 DEF ListHolds, Mirror!Sync
  <2> QED
    BY <2>3 DEF Mirror!Next
<1>2. ASSUME StripeNext PROVE Mirror!Next
  <2>1. /\ entitled' = Append(entitled, Tier(customerId)') /\ UNCHANGED <<plan, synced>>
    BY <1>2 DEF StripeNext, Pay, ChangeSubscription, orgVars
  <2>2. (price \in [Subscriptions -> Paid] => Tier(customerId) \in Plans)'
    BY TierType, PTL
  <2>3. Tier(customerId)' \in Plans
    BY <1>2, <2>2, StripeType DEF TypeOK
  <2>4. Mirror!Change
    BY <2>1, <2>3 DEF Mirror!Change
  <2> QED
    BY <2>4 DEF Mirror!Next
<1>3. ASSUME NEW r \in Requests, CheckoutNext(r) PROVE UNCHANGED <<plan, synced, entitled>>
  BY <1>3
  DEF CheckoutNext, CheckoutRead, CreateCustomer, ClaimCustomer, LoseClaim, ListOpenSessions,
      ExpireSession, CheckSubscriptions, CreateSession, ReturnUrl, orgVars, stripeVars
<1>4. ASSUME NEW r \in Requests, WebhookNext(r), ~WritePlan(r)
      PROVE  UNCHANGED <<plan, synced, entitled>>
  BY <1>4
  DEF WebhookNext, Receive, RecordUnknown, ListSubscriptions, SkipUnpriced, RecordUnpriced,
      orgVars, stripeVars
<1>5. ASSUME NEW r \in Requests, Lock(r) \/ TimeOut(r) \/ Rollback(r)
      PROVE  UNCHANGED <<plan, synced, entitled>>
  BY <1>5 DEF Lock, TimeOut, Rollback, orgVars, stripeVars
<1>6. ASSUME UNCHANGED <<plan, synced, entitled>> PROVE UNCHANGED Mirror!mirrorVars
  BY <1>6 DEF Mirror!mirrorVars
<1> QED
  BY <1>1, <1>2, <1>3, <1>4, <1>5, <1>6 DEF Next, vars

\* The plan implements PlanMirror: it is always some state the subscriptions had, and
\* never an older one than before (lockStripeCustomerTx).
THEOREM PlanImplementsMirror == Spec => MirrorSpec
<1>1. Init => Mirror!Init
  <2> SUFFICES ASSUME Init PROVE Mirror!Init
    OBVIOUS
  <2>1. plan.tier \in Plans
    BY InitInv DEF BillingInv, TypeOK
  <2>2. entitled = <<plan.tier>> /\ synced = 1
    BY DEF Init
  <2> QED
    BY <2>1, <2>2 DEF Mirror!Init
<1>2. BillingInv /\ [Next]_vars => [Mirror!Next]_(Mirror!mirrorVars)
  BY MirrorStep
<1> QED
  BY <1>1, <1>2, BillingInvariant, PTL DEF Spec, MirrorSpec, Mirror!Spec
=============================================================================
