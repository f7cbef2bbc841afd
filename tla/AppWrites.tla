----------------------------- MODULE AppWrites -----------------------------
(***************************************************************************)
(* Writing an app's sources: write_files and restore_version of            *)
(* packages/mcp/src/tools.ts, the single-writer lease of                   *)
(* packages/mcp/src/lease.ts and the dashboard's restore.                  *)
(*                                                                         *)
(* A write takes the lease, reads the newest version, applies its changes, *)
(* compiles, and stores the result in a transaction of its own; anything   *)
(* can happen in between, and the lease may run out (its TTL is three      *)
(* minutes), be released, or be removed in the dashboard.  Edits are       *)
(* stored only on top of the version they were applied to (baseVersion);   *)
(* whole files are stored on top of whatever is newest by then.            *)
(*                                                                         *)
(* Left out: what the compiler says (a failed build is stored too), the    *)
(* retention (the newest version always stays) and the limits, which       *)
(* refuse a write before it changes anything.                              *)
(***************************************************************************)
EXTENDS Integers, Sequences

CONSTANTS
    Users,         \* members of the workspace
    Sessions,      \* agents' sessions
    UserOf,        \* the user a session works for
    Files,         \* paths of the app's source files
    Attempts,      \* EDIT_WRITE_ATTEMPTS
    MaxVersions,   \* bound: versions ever stored
    None           \* nobody

ASSUME SessionAssumption == UserOf \in [Sessions -> Users] /\ None \notin Users
ASSUME AttemptAssumption == Attempts \in Nat \ {0} /\ MaxVersions \in Nat \ {0}

VARIABLES
    versions,      \* the stored versions; each maps a file to the version that wrote it
    author,        \* history: who stored a version, how, and on top of which
    lease,         \* the user who holds drobek:applock:<app_id>, or None
    pc,            \* where a session's call stands
    call,          \* what it asks for
    base,          \* the newest version it read
    attempt,       \* how often it has applied its edits
    holding,       \* history: the lease it took has not ended since
    dashboard      \* a dashboard restore that has read the lease, or None

sessionVars == <<pc, call, base, attempt, holding>>
vars == <<versions, author, lease, sessionVars, dashboard>>

Calls == [kind : {"edit", "whole"}, files : (SUBSET Files) \ {{}}]
         \cup [kind : {"restore"}, from : 1..MaxVersions]
Vias == {"create", "edit", "whole", "restore", "dashboard"}
Authors == [user : Users, via : Vias, base : 0..MaxVersions, held : BOOLEAN]

TypeOK ==
    /\ versions \in Seq([Files -> 1..MaxVersions]) /\ Len(versions) \in 1..MaxVersions
    /\ author \in Seq(Authors) /\ Len(author) = Len(versions)
    /\ lease \in Users \cup {None}
    /\ pc \in [Sessions -> {"idle", "read", "store"}]
    /\ call \in [Sessions -> Calls \cup {None}]
    /\ base \in [Sessions -> 0..MaxVersions]
    /\ attempt \in [Sessions -> 0..Attempts]
    /\ holding \in [Sessions -> BOOLEAN]
    /\ dashboard \in [user : Users, from : 1..MaxVersions] \cup {None}

-----------------------------------------------------------------------------
Newest == Len(versions)

\* create_app stores version 1 before anybody else knows the app.
Init ==
    /\ versions = << [f \in Files |-> 1] >>
    /\ \E u \in Users :
        author = << [user |-> u, via |-> "create", base |-> 0, held |-> FALSE] >>
    /\ lease = None
    /\ pc = [s \in Sessions |-> "idle"] /\ call = [s \in Sessions |-> None]
    /\ base = [s \in Sessions |-> 0] /\ attempt = [s \in Sessions |-> 0]
    /\ holding = [s \in Sessions |-> FALSE]
    /\ dashboard = None

MayTakeMutant(u) == TRUE
\* ACQUIRE_LUA: a free lease, or the user's own whichever grant holds it.
MayTake(u) == lease \in {None, u}

\* The call is authorised and takes or renews the lease; a restore reads nothing.
TakeLease(s, c) ==
    /\ pc[s] = "idle"
    /\ MayTake(UserOf[s])
    /\ c.kind = "restore" => c.from <= Newest
    /\ lease' = UserOf[s]
    /\ call' = [call EXCEPT ![s] = c]
    /\ pc' = [pc EXCEPT ![s] = IF c.kind = "restore" THEN "store" ELSE "read"]
    /\ attempt' = [attempt EXCEPT ![s] = 1]
    /\ holding' = [holding EXCEPT ![s] = TRUE]
    /\ UNCHANGED <<versions, author, base, dashboard>>

\* latestSources: the newest version's number and its files.
LatestSources(s) ==
    /\ pc[s] = "read"
    /\ base' = [base EXCEPT ![s] = Newest]
    /\ pc' = [pc EXCEPT ![s] = "store"]
    /\ UNCHANGED <<versions, author, lease, call, attempt, holding, dashboard>>

\* The call answers; the lease stays for its three minutes.
Answer(s) ==
    /\ pc' = [pc EXCEPT ![s] = "idle"]
    /\ call' = [call EXCEPT ![s] = None]
    /\ base' = [base EXCEPT ![s] = 0]
    /\ attempt' = [attempt EXCEPT ![s] = 0]
    /\ holding' = [holding EXCEPT ![s] = FALSE]

Store(version, who) ==
    /\ Newest < MaxVersions
    /\ versions' = Append(versions, version)
    /\ author' = Append(author, who)
    /\ UNCHANGED lease

Merged(s) == [f \in Files |-> IF f \in call[s].files THEN Newest + 1 ELSE versions[base[s]][f]]

OnBaseMutant(s) == TRUE
\* createVersion's baseVersion, checked under the app's row lock.
OnBase(s) == base[s] = Newest

TriesLeft(s) == attempt[s] < Attempts

\* The transaction that stores a write.  Only a call with edits passes its base.
StoreWrite(s) ==
    /\ pc[s] = "store" /\ call[s].kind \in {"edit", "whole"}
    /\ call[s].kind = "edit" => OnBase(s)
    /\ Store(Merged(s), [user |-> UserOf[s], via |-> call[s].kind,
                         base |-> base[s], held |-> holding[s]])
    /\ Answer(s)
    /\ UNCHANGED dashboard

\* version_conflict: the edits are applied again to what is newest now.
Reapply(s) ==
    /\ pc[s] = "store" /\ call[s].kind = "edit"
    /\ ~OnBase(s)
    /\ TriesLeft(s)
    /\ pc' = [pc EXCEPT ![s] = "read"]
    /\ attempt' = [attempt EXCEPT ![s] = @ + 1]
    /\ UNCHANGED <<versions, author, lease, call, base, holding, dashboard>>

StoreRestore(s) ==
    /\ pc[s] = "store" /\ call[s].kind = "restore"
    /\ Store(versions[call[s].from], [user |-> UserOf[s], via |-> "restore",
                                      base |-> Newest, held |-> holding[s]])
    /\ Answer(s)
    /\ UNCHANGED dashboard

\* Nothing is stored: the edits do not match, the compiler is busy, a secret, a
\* limit, a lost connection, or the edits were overtaken too often.
Refuse(s) ==
    /\ pc[s] # "idle"
    /\ Answer(s)
    /\ UNCHANGED <<versions, author, lease, dashboard>>

\* The TTL, release_lease by the user's other session, the dashboard's unlock,
\* or the release when a member loses write access.
LeaseEnds ==
    /\ lease # None
    /\ lease' = None
    /\ holding' = [s \in Sessions |-> FALSE]
    /\ UNCHANGED <<versions, author, pc, call, base, attempt, dashboard>>

\* The dashboard's restore reads the lease and refuses another member's ...
ReadAppLease(u, n) ==
    /\ dashboard = None
    /\ MayTake(u)
    /\ n \in 1..Newest
    /\ dashboard' = [user |-> u, from |-> n]
    /\ UNCHANGED <<versions, author, lease, sessionVars>>

\* ... then restores, in another call and without taking the lease.
DashboardRestore ==
    /\ dashboard # None
    /\ Store(versions[dashboard.from], [user |-> dashboard.user, via |-> "dashboard",
                                        base |-> Newest, held |-> FALSE])
    /\ dashboard' = None
    /\ UNCHANGED sessionVars

Next ==
    \/ \E s \in Sessions :
        \/ \E c \in Calls : TakeLease(s, c)
        \/ LatestSources(s) \/ StoreWrite(s) \/ Reapply(s) \/ StoreRestore(s) \/ Refuse(s)
    \/ LeaseEnds
    \/ \E u \in Users, n \in 1..MaxVersions : ReadAppLease(u, n)
    \/ DashboardRestore

Spec == Init /\ [][Next]_vars

-----------------------------------------------------------------------------
(* Properties.                                                             *)

Kinds == [n \in 1..Len(author) |->
    IF author[n].via \in {"restore", "dashboard"} THEN "copy" ELSE author[n].via]

\* Whoever writes at once and whatever happens to the lease, every stored
\* version is what AppHistory allows: an edit loses nobody's change.
History == INSTANCE AppHistory WITH kinds <- Kinds
ImplementsHistory == History!Spec

\* Between the version a write read and the version it stores, no other user's
\* agent stores anything, unless one of the two leases ended under its holder.
LeaseKeepsUsersApart ==
    \A n \in 2..Newest : author[n].via \in {"edit", "whole"} /\ author[n].held =>
        \A k \in (author[n].base + 1)..(n - 1) :
            author[k].user = author[n].user \/ ~author[k].held

\* What the refinement proof needs of a reachable state.
Inv ==
    /\ versions \in Seq([Files -> Nat]) /\ Len(versions) \in 1..MaxVersions
    /\ author \in Seq([user : Users, via : Vias, base : Nat, held : BOOLEAN])
    /\ Len(author) = Len(versions)
    /\ pc \in [Sessions -> {"idle", "read", "store"}]
    /\ call \in [Sessions -> Calls \cup {None}]
    /\ base \in [Sessions -> Nat] /\ holding \in [Sessions -> BOOLEAN]
    /\ \A s \in Sessions : pc[s] # "idle" =>
        /\ call[s] \in Calls
        /\ call[s].kind = "restore" => pc[s] = "store" /\ call[s].from \in 1..Newest
        /\ call[s].kind # "restore" /\ pc[s] = "store" => base[s] \in 1..Newest
    /\ dashboard # None => dashboard.from \in 1..Newest /\ dashboard.user \in Users

\* What a session that still holds its lease knows: the lease is its user's, and
\* since it read the newest version only its user's agents stored anything.
Holding ==
    \A s \in Sessions : holding[s] =>
        /\ lease = UserOf[s] /\ pc[s] # "idle"
        /\ pc[s] = "store" /\ call[s].kind # "restore" =>
            \A k \in (base[s] + 1)..Newest : author[k].user = UserOf[s] \/ ~author[k].held

=============================================================================
