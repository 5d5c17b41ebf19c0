-------------------------- MODULE MCBackgroundChecks --------------------------
(* Instances of BackgroundChecks for TLC: what staff do in each, and what  *)
(* can be exchanged for one another in the runs without liveness.          *)
EXTENDS BackgroundChecks, TLC

ReviewOps == {"initiate", "cancel", "notice", "finalize", "resolve", "approve"}
DeliveryOps == {"initiate", "cancel", "remove"}
RecheckOps == {"initiate", "revoke"}

Symmetry == Permutations(Checks) \cup Permutations(Events) \cup Permutations(Requests)
=============================================================================
