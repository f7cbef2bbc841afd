------------------------ MODULE MCWorkspaceDeletion ------------------------
(* Instances of WorkspaceDeletion for TLC.                                 *)
EXTENDS WorkspaceDeletion, TLC

CONSTANTS p, t

\* The apps are the team's: a personal workspace has nobody who could join it
\* while its apps are taken.
HomeOf == [x \in Apps |-> t]

Symmetry == Permutations(Requests) \cup Permutations(Users)
=============================================================================
