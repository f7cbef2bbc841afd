---------------------------- MODULE MCAppWrites ----------------------------
(***************************************************************************)
(* A small instance of AppWrites: two users with an agent's session each.  *)
(***************************************************************************)
EXTENDS AppWrites, FiniteSets, TLC

CONSTANTS u1, u2, s1, s2, f1, f2

MCUserOf == (s1 :> u1) @@ (s2 :> u2)

\* Files are alike, and so are a user and their session.
Same == [x \in {u1, u2, s1, s2} |-> x]
Swapped == (u1 :> u2) @@ (u2 :> u1) @@ (s1 :> s2) @@ (s2 :> s1)
Symmetry == {p @@ q : p \in Permutations({f1, f2}), q \in {Same, Swapped}}

\* One restore in a behaviour, by an agent or in the dashboard, and writes of
\* one file each.
Narrow ==
    /\ Cardinality({n \in 1..Newest : Kinds[n] = "copy"})
       + Cardinality({s \in Sessions : pc[s] # "idle" /\ call[s].kind = "restore"})
       + (IF dashboard = None THEN 0 ELSE 1) <= 1
    /\ \A s \in Sessions :
        pc[s] # "idle" /\ call[s].kind # "restore" => Cardinality(call[s].files) = 1

=============================================================================
