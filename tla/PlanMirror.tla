------------------------------ MODULE PlanMirror ------------------------------
(***************************************************************************)
(* What webhookRepo.ts and billingService.ts promise of an organization's  *)
(* plan: it mirrors what the subscriptions at Stripe entitle it to, maybe  *)
(* late, but never going back to an older state.                           *)
(***************************************************************************)
EXTENDS Naturals, Sequences

CONSTANT Plans   \* plan tiers

VARIABLES
  entitled,  \* every tier Stripe ever entitled the organization to, oldest first
  at,        \* how far the plan has got in it
  tier       \* the plan

mirrorVars == <<entitled, at, tier>>

Init ==
  /\ entitled \in {<<p>> : p \in Plans}
  /\ at = 1
  /\ tier = entitled[1]

\* A subscription starts, changes or ends at Stripe.
Change ==
  /\ \E p \in Plans : entitled' = Append(entitled, p)
  /\ UNCHANGED <<at, tier>>

\* The plan catches up with some state not older than its own.
Sync ==
  /\ at' \in at .. Len(entitled)
  /\ tier' = entitled[at']
  /\ UNCHANGED entitled

Next == Change \/ Sync

Spec == Init /\ [][Next]_mirrorVars
=============================================================================
