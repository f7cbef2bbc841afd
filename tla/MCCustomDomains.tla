-------------------------- MODULE MCCustomDomains --------------------------
(* An instance of CustomDomains for TLC. *)
EXTENDS CustomDomains, TLC

Symmetry ==
    Permutations(Apps) \cup Permutations(Names) \cup Permutations(Ids)
        \cup Permutations(Requests)
=============================================================================
