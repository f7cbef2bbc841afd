--------------------------- MODULE MCOAuthTokens ---------------------------
(* Instances of OAuthTokens for TLC. *)
EXTENDS OAuthTokens, TLC

Symmetry ==
    Permutations(Codes) \cup Permutations(Requests) \cup Permutations(FreshIds)

(* A run about two lineages leaves revokeConnection out. *)
NoRevokeConnection == connPc = "idle" /\ cutOff = {}

(* With the clock running on to the prune, revokeConnection comes early or   *)
(* not at all.                                                              *)
EarlyRevocation == connPc # "idle" \/ cutOff # {} => now = 0
=============================================================================
