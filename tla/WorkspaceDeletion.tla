------------------------- MODULE WorkspaceDeletion -------------------------
(***************************************************************************)
(* The deletion of workspaces and accounts, a long walk over apps, rows    *)
(* and invites that other requests interleave with and that may stop       *)
(* anywhere: packages/tenancy/src/deletion.server.ts.                      *)
(*                                                                         *)
(* A transaction that locks the workspace's row (or the user's row and     *)
(* those of all their workspaces) is one step: memberships and apps are    *)
(* inserted under a foreign key, which waits for the row, and members are  *)
(* changed and removed under the same lock.                                *)
(*                                                                         *)
(* Left out: audit rows, sessions and the leases of who leaves, module     *)
(* hooks, the super-admin (who acts as an admin of every workspace), the   *)
(* pending invites dropped after the row and accepts by who is a member    *)
(* already (Members has invites).                                          *)
(***************************************************************************)
EXTENDS Integers, FiniteSets, FiniteSetsExt

CONSTANTS
    Users, Workspaces,
    Personal,    \* the workspaces of kind personal
    Apps,        \* ids: numbers, in the order they are taken
    Home,        \* the workspace an app is created in
    Attempts,    \* ROW_DELETE_ATTEMPTS
    Requests,    \* bound: deletions in flight at once
    Nobody       \* no user, no workspace

ASSUME DeletionAssumption ==
    /\ Personal \subseteq Workspaces
    /\ Apps \subseteq Nat /\ Home \in [Apps -> Workspaces]
    /\ Attempts \in Nat \ {0}
    /\ Nobody \notin Users \cup Workspaces

VARIABLES
    users,       \* the users whose row is there
    ws,          \* of a workspace: unused, live, gone
    members,     \* pairs of a user and a workspace
    admins,      \* those with the role workspace-admin
    app,         \* of an app: none, live, deleted, purged
    pc,          \* the step each deletion takes next
    account,     \* whether it deletes an account or a workspace only
    who,         \* whose it is
    cur,         \* the workspace it is at
    todo,        \* the workspaces after it
    lives, rows, \* apps it has listed: still to be deleted, to be purged
    attempt,
    late         \* apps it took since its guard last held, with others there

tenancy == <<users, ws, members, admins>>
local == <<pc, account, who, cur, todo, lives, rows, attempt, late>>
vars == <<tenancy, app, local>>

Steps == {"idle", "list", "guard", "delete", "purgeguard", "purge", "row", "user"}

TypeOK ==
    /\ users \subseteq Users
    /\ ws \in [Workspaces -> {"unused", "live", "gone"}]
    /\ admins \subseteq members
    /\ members \subseteq users \X {w \in Workspaces : ws[w] = "live"}
    /\ app \in [Apps -> {"none", "live", "deleted", "purged"}]
    /\ \A x \in Apps : app[x] \in {"live", "deleted"} => ws[Home[x]] = "live"
    /\ pc \in [Requests -> Steps] /\ account \in [Requests -> BOOLEAN]
    /\ who \in [Requests -> Users \cup {Nobody}]
    /\ cur \in [Requests -> Workspaces \cup {Nobody}]
    /\ todo \in [Requests -> SUBSET Workspaces]
    /\ lives \in [Requests -> SUBSET Apps] /\ rows \in [Requests -> SUBSET Apps]
    /\ attempt \in [Requests -> 0..Attempts] /\ late \in [Requests -> Nat]

-----------------------------------------------------------------------------
Others(w, u) == {m \in Users : <<m, w>> \in members} \ {u}
Mine(u) == {w \in Workspaces : <<u, w>> \in members}
HasApps(w) == \E x \in Apps : Home[x] = w /\ app[x] \in {"live", "deleted"}

\* split: what becomes of each workspace when its member u goes.
Deletes(u) == {w \in Mine(u) : w \in Personal \/ Others(w, u) = {}}

BlockersMutant(u) == {}
Blockers(u) ==
    {w \in Mine(u) \ Deletes(u) :
        <<u, w>> \in admins /\ \A m \in Others(w, u) : <<m, w>> \notin admins}

First(S) ==
    IF S \cap Personal # {} THEN CHOOSE w \in S \cap Personal : TRUE ELSE CHOOSE w \in S : TRUE

\* The row goes, its memberships with it.
Gone(S) == [w \in Workspaces |-> IF w \in S THEN "gone" ELSE ws[w]]
Without(M, S) == {m \in M : m[2] \notin S}

GuardHoldsMutant(r) == TRUE
\* assertNoNewMembers.  The plan saw nobody else: a team workspace is deleted
\* with an account when it has one member, and a personal one has one always.
GuardHolds(r) == account[r] => Others(cur[r], who[r]) = {}

RowGuardMutant(r) == TRUE
\* The same under the workspace's lock.
RowGuard(r) == GuardHolds(r)

\* A foreign key refused the row: the whole pass is repeated.
Again(r) == attempt[r] < Attempts

-----------------------------------------------------------------------------
\* A team somebody has made and others have joined, or none yet.
Init ==
    /\ users = Users
    /\ \E W \in SUBSET (Workspaces \ Personal), a \in Users, M \in SUBSET Users :
        /\ ws = [v \in Workspaces |-> IF v \in W THEN "live" ELSE "unused"]
        /\ members = (M \cup {a}) \X W /\ admins = {a} \X W
    /\ app = [x \in Apps |-> "none"]
    /\ pc = [r \in Requests |-> "idle"] /\ account = [r \in Requests |-> FALSE]
    /\ who = [r \in Requests |-> Nobody] /\ cur = [r \in Requests |-> Nobody]
    /\ todo = [r \in Requests |-> {}]
    /\ lives = [r \in Requests |-> {}] /\ rows = [r \in Requests |-> {}]
    /\ attempt = [r \in Requests |-> 0] /\ late = [r \in Requests |-> 0]

-----------------------------------------------------------------------------
(* What others do meanwhile.                                               *)

NewWorkspace(u, w) ==
    /\ u \in users /\ ws[w] = "unused"
    /\ ws' = [ws EXCEPT ![w] = "live"]
    /\ members' = members \cup {<<u, w>>} /\ admins' = admins \cup {<<u, w>>}
    /\ UNCHANGED <<users, app, local>>

\* A page load.  It waits for the user's row, then looks again.
EnsurePersonalWorkspace(u, w) ==
    /\ w \in Personal /\ \A v \in Personal : <<u, v>> \notin admins
    /\ NewWorkspace(u, w)

CreateTeamWorkspace(u, w) == w \notin Personal /\ NewWorkspace(u, w)

\* An accepted invite's membership, if both rows are still there.
JoinWorkspace(u, w, asAdmin) ==
    /\ u \in users /\ w \notin Personal /\ ws[w] = "live" /\ <<u, w>> \notin members
    /\ members' = members \cup {<<u, w>>}
    /\ admins' = IF asAdmin THEN admins \cup {<<u, w>>} ELSE admins
    /\ UNCHANGED <<users, ws, app, local>>

LastAdmin(u, w) == <<u, w>> \in admins /\ \A m \in Others(w, u) : <<m, w>> \notin admins

ChangeMemberRole(u, w) ==
    /\ <<u, w>> \in members /\ w \notin Personal /\ ~LastAdmin(u, w)
    /\ admins' = IF <<u, w>> \in admins THEN admins \ {<<u, w>>} ELSE admins \cup {<<u, w>>}
    /\ UNCHANGED <<users, ws, members, app, local>>

RemoveMember(u, w) ==
    /\ <<u, w>> \in members /\ w \notin Personal /\ ~LastAdmin(u, w)
    /\ members' = members \ {<<u, w>>} /\ admins' = admins \ {<<u, w>>}
    /\ UNCHANGED <<users, ws, app, local>>

CreateApp(x) ==
    /\ app[x] = "none" /\ ws[Home[x]] = "live"
    /\ app' = [app EXCEPT ![x] = "live"]
    /\ UNCHANGED <<tenancy, local>>

DeleteOneApp(x) ==
    /\ app[x] = "live"
    /\ app' = [app EXCEPT ![x] = "deleted"]
    /\ UNCHANGED <<tenancy, local>>

PurgeOneApp(x) ==
    /\ app[x] = "deleted"
    /\ app' = [app EXCEPT ![x] = "purged"]
    /\ UNCHANGED <<tenancy, local>>

-----------------------------------------------------------------------------
(* A deletion.                                                             *)

Goes(r, step) ==
    /\ pc' = [pc EXCEPT ![r] = step]
    /\ UNCHANGED <<account, who>>

Ends(r) ==
    /\ pc' = [pc EXCEPT ![r] = "idle"] /\ account' = [account EXCEPT ![r] = FALSE]
    /\ who' = [who EXCEPT ![r] = Nobody] /\ cur' = [cur EXCEPT ![r] = Nobody]
    /\ todo' = [todo EXCEPT ![r] = {}]
    /\ lives' = [lives EXCEPT ![r] = {}] /\ rows' = [rows EXCEPT ![r] = {}]
    /\ attempt' = [attempt EXCEPT ![r] = 0] /\ late' = [late EXCEPT ![r] = 0]

\* The next workspace of S, or the last transaction of an account.
Takes(r, S) ==
    /\ pc' = [pc EXCEPT ![r] = IF S = {} THEN "user" ELSE "list"]
    /\ cur' = [cur EXCEPT ![r] = IF S = {} THEN Nobody ELSE First(S)]
    /\ todo' = [todo EXCEPT ![r] = IF S = {} THEN {} ELSE S \ {First(S)}]
    /\ attempt' = [attempt EXCEPT ![r] = IF S = {} THEN 0 ELSE 1]
    /\ late' = [late EXCEPT ![r] = 0]

DeleteWorkspace(r, u, w) ==
    /\ pc[r] = "idle"
    /\ <<u, w>> \in admins /\ w \notin Personal
    /\ account' = [account EXCEPT ![r] = FALSE] /\ who' = [who EXCEPT ![r] = u]
    /\ Takes(r, {w})
    /\ UNCHANGED <<tenancy, app, lives, rows>>

\* The plan, without a lock.
DeleteAccount(r, u) ==
    /\ pc[r] = "idle"
    /\ u \in users /\ Blockers(u) = {}
    /\ account' = [account EXCEPT ![r] = TRUE] /\ who' = [who EXCEPT ![r] = u]
    /\ Takes(r, Deletes(u))
    /\ UNCHANGED <<tenancy, app, lives, rows>>

ListApps(r) ==
    LET all == {x \in Apps : Home[x] = cur[r] /\ app[x] \in {"live", "deleted"}}
        live == {x \in all : app[x] = "live"}
    IN
    /\ pc[r] = "list"
    /\ lives' = [lives EXCEPT ![r] = live] /\ rows' = [rows EXCEPT ![r] = all]
    /\ Goes(r, IF live # {} THEN "guard" ELSE IF all # {} THEN "purgeguard" ELSE "row")
    /\ UNCHANGED <<tenancy, app, cur, todo, attempt, late>>

\* The guard, read before an app is taken and not with it.
Guard(r) ==
    /\ pc[r] \in {"guard", "purgeguard"}
    /\ IF GuardHolds(r)
       THEN /\ Goes(r, IF pc[r] = "guard" THEN "delete" ELSE "purge")
            /\ late' = [late EXCEPT ![r] = IF Others(cur[r], who[r]) = {} THEN 0 ELSE @]
            /\ UNCHANGED <<cur, todo, lives, rows, attempt>>
       ELSE Ends(r)
    /\ UNCHANGED <<tenancy, app>>

\* An account's deletion takes an app of a workspace others use by now.
Counts(r, took) == IF took /\ account[r] /\ Others(cur[r], who[r]) # {} THEN late[r] + 1 ELSE late[r]

\* Somebody may have deleted it meanwhile.
SoftDeleteApp(r) ==
    LET x == Min(lives[r])
        left == lives[r] \ {x}
    IN
    /\ pc[r] = "delete"
    /\ app' = IF app[x] = "live" THEN [app EXCEPT ![x] = "deleted"] ELSE app
    /\ late' = [late EXCEPT ![r] = Counts(r, app[x] = "live")]
    /\ lives' = [lives EXCEPT ![r] = left]
    /\ Goes(r, IF left # {} THEN "guard" ELSE "purgeguard")
    /\ UNCHANGED <<tenancy, cur, todo, rows, attempt>>

\* Unless it is gone, or another transaction holds the row (SKIP LOCKED).
PurgeApp(r, skipped) ==
    LET x == Min(rows[r])
        left == rows[r] \ {x}
        takes == app[x] = "deleted" /\ ~skipped
    IN
    /\ pc[r] = "purge"
    /\ app' = IF takes THEN [app EXCEPT ![x] = "purged"] ELSE app
    /\ late' = [late EXCEPT ![r] = Counts(r, takes)]
    /\ rows' = [rows EXCEPT ![r] = left]
    /\ Goes(r, IF left # {} THEN "purgeguard" ELSE "row")
    /\ UNCHANGED <<tenancy, cur, todo, lives, attempt>>

\* The workspace's row; somebody else may have deleted it.
DeleteRow(r) ==
    /\ pc[r] = "row" /\ RowGuard(r) /\ ~HasApps(cur[r])
    /\ ws' = Gone({cur[r]})
    /\ members' = Without(members, {cur[r]}) /\ admins' = Without(admins, {cur[r]})
    /\ IF account[r] THEN Takes(r, todo[r]) /\ UNCHANGED <<account, who, lives, rows>>
                     ELSE Ends(r)
    /\ UNCHANGED <<users, app>>

RepeatPass(r) ==
    /\ pc[r] = "row" /\ RowGuard(r) /\ HasApps(cur[r]) /\ Again(r)
    /\ attempt' = [attempt EXCEPT ![r] = @ + 1]
    /\ Goes(r, "list")
    /\ UNCHANGED <<tenancy, app, cur, todo, lives, rows, late>>

RefuseRow(r) ==
    /\ pc[r] = "row" /\ (RowGuard(r) => HasApps(cur[r]) /\ ~Again(r))
    /\ Ends(r)
    /\ UNCHANGED <<tenancy, app>>

\* The last transaction: the plan again, under the locks.
DeleteUser(r) ==
    LET u == who[r] IN
    /\ pc[r] = "user"
    /\ Blockers(u) = {} /\ \A w \in Deletes(u) : ~HasApps(w)
    /\ ws' = Gone(Deletes(u))
    /\ members' = {m \in Without(members, Deletes(u)) : m[1] # u}
    /\ admins' = {m \in Without(admins, Deletes(u)) : m[1] # u}
    /\ users' = users \ {u}
    /\ Ends(r)
    /\ UNCHANGED app

RefuseUser(r) ==
    /\ pc[r] = "user"
    /\ Blockers(who[r]) # {} \/ \E w \in Deletes(who[r]) : HasApps(w)
    /\ Ends(r)
    /\ UNCHANGED <<tenancy, app>>

\* The process dies or a statement fails; what has committed stays.
Dies(r) == pc[r] # "idle" /\ Ends(r) /\ UNCHANGED <<tenancy, app>>

Proceeds(r) ==
    \/ ListApps(r) \/ Guard(r) \/ SoftDeleteApp(r)
    \/ DeleteRow(r) \/ RepeatPass(r) \/ RefuseRow(r) \/ DeleteUser(r) \/ RefuseUser(r)
    \/ \E skipped \in BOOLEAN : PurgeApp(r, skipped)

Begins(r) ==
    \E u \in Users : DeleteAccount(r, u) \/ \E w \in Workspaces : DeleteWorkspace(r, u, w)

Joins ==
    \E u \in Users, w \in Workspaces :
        \/ EnsurePersonalWorkspace(u, w) \/ CreateTeamWorkspace(u, w)
        \/ (\E asAdmin \in BOOLEAN : JoinWorkspace(u, w, asAdmin))
        \/ ChangeMemberRole(u, w) \/ RemoveMember(u, w)

Next ==
    \/ \E r \in Requests : Begins(r) \/ Proceeds(r) \/ Dies(r)
    \/ Joins
    \/ \E x \in Apps : CreateApp(x) \/ DeleteOneApp(x) \/ PurgeOneApp(x)

Spec == Init /\ [][Next]_vars

-----------------------------------------------------------------------------
\* A workspace always has an admin, and so a member: no deletion of an account
\* leaves one that nobody can run or delete, whatever joined, left or was
\* promoted since its plan.
EveryWorkspaceHasAdmin ==
    \A w \in Workspaces : ws[w] = "live" => \E u \in users : <<u, w>> \in admins

\* An account's deletion never takes a workspace someone else uses.
AccountTakesOnlyItsOwn ==
    [][\A r \in Requests, w \in Workspaces :
          account[r] /\ pc'[r] # pc[r] /\ ws[w] = "live" /\ ws'[w] = "gone"
            => Others(w, who[r]) = {}]_vars

\* A member who joins meanwhile stops the deletion of an account: at most the
\* one app whose guard had passed still goes.
JoinStopsDeletion == \A r \in Requests : late[r] <= 1
=============================================================================
