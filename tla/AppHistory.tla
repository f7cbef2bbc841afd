----------------------------- MODULE AppHistory -----------------------------
(***************************************************************************)
(* What the history of an app's sources promises: an edit is the newest    *)
(* version with the named files changed, a restore is a copy of an earlier *)
(* version, and a whole-file write changes its files in some version that  *)
(* was the newest when the write began.  Nothing else happens to a file.   *)
(*                                                                         *)
(* A version maps each file to the number of the version that wrote the    *)
(* content the file has in it.                                             *)
(***************************************************************************)
EXTENDS Integers, Sequences

CONSTANT Files     \* paths of the app's source files

VARIABLES
    versions,      \* the stored versions, oldest first
    kinds          \* how each of them came about

Changed(version, files) ==
    [f \in Files |-> IF f \in files THEN Len(versions) + 1 ELSE version[f]]

Add(version, kind) ==
    /\ versions' = Append(versions, version)
    /\ kinds' = Append(kinds, kind)

Init == versions = << [f \in Files |-> 1] >> /\ kinds = << "create" >>

Edit(files) == Add(Changed(versions[Len(versions)], files), "edit")

WholeWrite(files, base) == Add(Changed(versions[base], files), "whole")

Copy(n) == Add(versions[n], "copy")

Next ==
    \/ \E files \in SUBSET Files : Edit(files)
    \/ \E files \in SUBSET Files, base \in 1..Len(versions) : WholeWrite(files, base)
    \/ \E n \in 1..Len(versions) : Copy(n)

Spec == Init /\ [][Next]_<<versions, kinds>>

=============================================================================
