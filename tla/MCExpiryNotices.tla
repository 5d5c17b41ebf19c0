--------------------------- MODULE MCExpiryNotices ---------------------------
EXTENDS ExpiryNotices, TLC

\* Credentials, staff, runs, digests and rows are interchangeable.
Symmetry == Permutations(Credentials) \cup Permutations(Staff)
              \cup Permutations(Runs) \cup Permutations(Digests) \cup Permutations(Rows)
=============================================================================
