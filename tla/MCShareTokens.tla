---------------------------- MODULE MCShareTokens ----------------------------
(* Instances of ShareTokens for TLC.  No definition tells two organizations, *)
(* credentials, links or requests apart.                                     *)
EXTENDS ShareTokens, TLC

Symmetry == Permutations(Orgs) \cup Permutations(Credentials)
              \cup Permutations(Tokens) \cup Permutations(Requests)
=============================================================================
