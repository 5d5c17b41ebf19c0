------------------------------ MODULE MCBilling ------------------------------
EXTENDS Billing, TLC

\* Requests, events and sessions are interchangeable (not for liveness).
Symmetry == Permutations(Requests) \cup Permutations(Events) \cup Permutations(Sessions)
=============================================================================
