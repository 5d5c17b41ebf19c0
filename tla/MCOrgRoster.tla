----------------------------- MODULE MCOrgRoster -----------------------------
EXTENDS OrgRoster, TLC

CONSTANT o1

\* Every application is for the same opportunity.
Same == [a \in Applications |-> o1]

\* Rows, applications and requests are interchangeable.
Symmetry ==
  Permutations(Rows) \cup Permutations(Applications) \cup Permutations(Requests)
=============================================================================
