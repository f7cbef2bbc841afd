---------------------------- MODULE MCAppAssets ----------------------------
(* Instances of AppAssets for TLC.                                         *)
EXTENDS AppAssets, TLC

CONSTANTS c1, c2, c3, old

\* `old` holds the bytes of c1 under a key from before keys were hashes.
ShaOf == [k \in Keys |-> IF k = old THEN c1 ELSE k]
SizeOf == [k \in Keys |-> IF k \in {c1, old} THEN 1 ELSE 2]

Symmetry == Permutations(Requests)
=============================================================================
