---------------------- MODULE WorkspaceDeletionProofs ----------------------
(***************************************************************************)
(* For any users, workspaces, apps and deletions in flight: a workspace    *)
(* keeps an admin, an account's deletion takes no workspace with another   *)
(* member, and a member who joins stops it after one app.                  *)
(*                                                                         *)
(* The last transaction decides again under its locks, so nothing of the   *)
(* plan needs to be remembered; what is, is that a guard that has passed   *)
(* starts the count of late apps anew, and that a personal workspace has   *)
(* one member only.                                                        *)
(***************************************************************************)
EXTENDS WorkspaceDeletion, TLAPS

\* Nobody joins a personal workspace.
PersonalIsOwn ==
    \A w \in Personal, m, n \in Users : <<m, w>> \in members /\ <<n, w>> \in members => m = n

\* A guard that has passed counts anew; only an account's deletion counts.
Counted ==
    \A r \in Requests :
        /\ late[r] <= 1
        /\ pc[r] \in {"delete", "purge"} /\ account[r] => late[r] = 0

IInv == TypeOK /\ EveryWorkspaceHasAdmin /\ PersonalIsOwn /\ Counted

\* The parts of the type invariant.
Rows ==
    /\ users \subseteq Users
    /\ ws \in [Workspaces -> {"unused", "live", "gone"}]
    /\ admins \subseteq members
    /\ members \subseteq users \X {w \in Workspaces : ws[w] = "live"}

AppRows ==
    /\ app \in [Apps -> {"none", "live", "deleted", "purged"}]
    /\ \A x \in Apps : app[x] \in {"live", "deleted"} => ws[Home[x]] = "live"

Locals ==
    /\ pc \in [Requests -> Steps] /\ account \in [Requests -> BOOLEAN]
    /\ who \in [Requests -> Users \cup {Nobody}]
    /\ cur \in [Requests -> Workspaces \cup {Nobody}]
    /\ todo \in [Requests -> SUBSET Workspaces]
    /\ lives \in [Requests -> SUBSET Apps] /\ rows \in [Requests -> SUBSET Apps]
    /\ attempt \in [Requests -> 0..Attempts] /\ late \in [Requests -> Nat]

LEMMA TypeParts == TypeOK <=> Rows /\ AppRows /\ Locals
BY DEF TypeOK, Rows, AppRows, Locals

-----------------------------------------------------------------------------
(* Who changes what.                                                       *)

LEMMA NobodyIsNone == Nobody \notin Users /\ Nobody \notin Workspaces /\ Attempts \in Nat \ {0}
BY DeletionAssumption DEF DeletionAssumption

AppActs == \E x \in Apps : CreateApp(x) \/ DeleteOneApp(x) \/ PurgeOneApp(x)
Walks(r) == Begins(r) \/ Proceeds(r) \/ Dies(r)

(* A step is a deletion's, a membership's, an app's, or none. *)
LEMMA WhoActs ==
    [Next]_vars => (\E r \in Requests : Walks(r)) \/ Joins \/ AppActs \/ UNCHANGED vars
BY DEF Next, Walks, AppActs

(* The steps of a deletion that change memberships and workspaces. *)
LEMMA WalksTenancy ==
    ASSUME NEW r \in Requests, Walks(r)
    PROVE  DeleteRow(r) \/ DeleteUser(r) \/ UNCHANGED tenancy
BY DEF Walks, Begins, Proceeds, DeleteAccount, DeleteWorkspace, ListApps, Guard, SoftDeleteApp,
       RepeatPass, RefuseRow, RefuseUser, PurgeApp, Dies

(* The steps of others leave a deletion's locals alone. *)
LEMMA OthersLocal ==
    ASSUME Joins \/ AppActs \/ UNCHANGED vars
    PROVE  UNCHANGED local
BY DEF Joins, AppActs, EnsurePersonalWorkspace, CreateTeamWorkspace, NewWorkspace, JoinWorkspace,
       ChangeMemberRole, RemoveMember, CreateApp, DeleteOneApp, PurgeOneApp, vars

(* What is left once the workspaces of S are gone. *)
LEMMA GoneRows ==
    ASSUME Rows, NEW S \in SUBSET Workspaces,
           ws' = Gone(S), members' = Without(members, S), admins' = Without(admins, S),
           UNCHANGED users
    PROVE  Rows'
BY DEF Rows, Gone, Without

-----------------------------------------------------------------------------
(* The locals of a deletion.                                               *)

LEMMA EndsLocals ==
    ASSUME Locals, Counted, NEW r \in Requests, Ends(r)
    PROVE  Locals' /\ Counted'
<1>1. Locals'
  BY NobodyIsNone DEF Locals, Ends, Steps
<1>2. Counted'
  BY DEF Locals, Ends, Counted
<1> QED BY <1>1, <1>2

LEMMA FirstIsOne == \A S : S # {} => First(S) \in S
BY DEF First

(* Taking the next workspace. *)
LEMMA TakesLocals ==
    ASSUME Locals, Counted, NEW r \in Requests, NEW S \in SUBSET Workspaces, Takes(r, S),
           account' \in [Requests -> BOOLEAN], who' \in [Requests -> Users \cup {Nobody}],
           \A s \in Requests \ {r} : account'[s] = account[s],
           UNCHANGED <<lives, rows>>
    PROVE  Locals' /\ Counted'
<1>1. 1 \in 0..Attempts /\ 0 \in 0..Attempts
  BY NobodyIsNone
<1>2. S # {} => First(S) \in Workspaces
  BY FirstIsOne
<1>3. Locals'
  BY <1>1, <1>2 DEF Locals, Takes, Steps
<1>4. ASSUME NEW s \in Requests
      PROVE  late'[s] <= 1 /\ (pc'[s] \in {"delete", "purge"} /\ account'[s] => late'[s] = 0)
  <2>1. CASE s = r
    BY <2>1 DEF Locals, Takes
  <2>2. CASE s # r
    BY <2>2 DEF Locals, Takes, Counted
  <2> QED BY <2>1, <2>2
<1> QED BY <1>3, <1>4 DEF Counted

(* Every step of a deletion keeps the types of its locals and the count. *)
LEMMA WalksLocals ==
    ASSUME Locals, Counted, NEW r \in Requests, Walks(r)
    PROVE  Locals' /\ Counted'
<1>1. ASSUME Ends(r) PROVE Locals' /\ Counted'
  BY <1>1, EndsLocals
<1>2. ASSUME NEW u \in Users, NEW w \in Workspaces, DeleteWorkspace(r, u, w)
      PROVE  Locals' /\ Counted'
  BY <1>2, TakesLocals DEF DeleteWorkspace, Locals
<1>3. ASSUME NEW u \in Users, DeleteAccount(r, u) PROVE Locals' /\ Counted'
  <2>1. Deletes(u) \in SUBSET Workspaces
    BY DEF Deletes, Mine
  <2> QED BY <1>3, <2>1, TakesLocals DEF DeleteAccount, Locals
<1>4. ASSUME ListApps(r) PROVE Locals' /\ Counted'
  <2>1. Locals'
    BY <1>4 DEF ListApps, Goes, Locals, Steps
  <2>2. Counted'
    BY <1>4 DEF ListApps, Goes, Locals, Counted
  <2> QED BY <2>1, <2>2
<1>5. ASSUME Guard(r), ~Ends(r) PROVE Locals' /\ Counted'
  <2>1. /\ GuardHolds(r)
        /\ Goes(r, IF pc[r] = "guard" THEN "delete" ELSE "purge")
        /\ late' = [late EXCEPT ![r] = IF Others(cur[r], who[r]) = {} THEN 0 ELSE late[r]]
        /\ UNCHANGED <<cur, todo, lives, rows, attempt>>
    BY <1>5 DEF Guard
  <2>2. Locals'
    BY <2>1 DEF Goes, Locals, Steps
  <2>3. Counted'
    BY <2>1 DEF GuardHolds, Goes, Locals, Counted
  <2> QED BY <2>2, <2>3
<1>6. ASSUME SoftDeleteApp(r) PROVE Locals' /\ Counted'
  <2> DEFINE x == Min(lives[r])
             taken == app[x] = "live"
             step == IF lives[r] \ {x} # {} THEN "guard" ELSE "purgeguard"
  <2>1. /\ Goes(r, step) /\ pc[r] = "delete"
        /\ late' = [late EXCEPT ![r] = Counts(r, taken)]
        /\ lives' = [lives EXCEPT ![r] = lives[r] \ {x}]
        /\ UNCHANGED <<cur, todo, rows, attempt>>
    BY <1>6 DEF SoftDeleteApp
  <2> HIDE DEF x, taken
  <2>2. Counts(r, taken) \in Nat /\ Counts(r, taken) <= 1
    BY <2>1 DEF Counts, Counted, Locals
  <2>3. Locals'
    BY <2>1, <2>2 DEF Goes, Locals, Steps
  <2>4. Counted'
    BY <2>1, <2>2 DEF Goes, Locals, Counted
  <2> QED BY <2>3, <2>4
<1>7. ASSUME NEW skipped \in BOOLEAN, PurgeApp(r, skipped) PROVE Locals' /\ Counted'
  <2> DEFINE x == Min(rows[r])
             taken == app[x] = "deleted" /\ ~skipped
             step == IF rows[r] \ {x} # {} THEN "purgeguard" ELSE "row"
  <2>1. /\ Goes(r, step) /\ pc[r] = "purge"
        /\ late' = [late EXCEPT ![r] = Counts(r, taken)]
        /\ rows' = [rows EXCEPT ![r] = rows[r] \ {x}]
        /\ UNCHANGED <<cur, todo, lives, attempt>>
    BY <1>7 DEF PurgeApp
  <2> HIDE DEF x, taken
  <2>2. Counts(r, taken) \in Nat /\ Counts(r, taken) <= 1
    BY <2>1 DEF Counts, Counted, Locals
  <2>3. Locals'
    BY <2>1, <2>2 DEF Goes, Locals, Steps
  <2>4. Counted'
    BY <2>1, <2>2 DEF Goes, Locals, Counted
  <2> QED BY <2>3, <2>4
<1>8. ASSUME DeleteRow(r), ~Ends(r) PROVE Locals' /\ Counted'
  <2>1. todo[r] \in SUBSET Workspaces /\ Takes(r, todo[r]) /\ UNCHANGED <<account, who, lives, rows>>
    BY <1>8 DEF DeleteRow, Locals
  <2> QED BY <2>1, TakesLocals DEF Locals
<1>9. ASSUME RepeatPass(r) PROVE Locals' /\ Counted'
  <2>1. attempt[r] + 1 \in 0..Attempts
    BY <1>9, NobodyIsNone DEF RepeatPass, Again, Locals
  <2>2. Locals'
    BY <1>9, <2>1 DEF RepeatPass, Goes, Locals, Steps
  <2>3. Counted'
    BY <1>9 DEF RepeatPass, Goes, Locals, Counted
  <2> QED BY <2>2, <2>3
<1> QED BY <1>1, <1>2, <1>3, <1>4, <1>5, <1>6, <1>7, <1>8, <1>9
        DEF Walks, Begins, Proceeds, Dies, RefuseRow, RefuseUser, DeleteUser

-----------------------------------------------------------------------------
(* Memberships.                                                            *)

(* A workspace's row goes: what is left keeps its members and admins. *)
LEMMA RowGoes ==
    ASSUME IInv, NEW r \in Requests, DeleteRow(r)
    PROVE  Rows' /\ EveryWorkspaceHasAdmin' /\ PersonalIsOwn'
<1>0. Rows
  BY TypeParts DEF IInv
<1>1. /\ ws' = Gone({cur[r]}) /\ users' = users
      /\ members' = Without(members, {cur[r]}) /\ admins' = Without(admins, {cur[r]})
  BY DEF DeleteRow
<1>2. Rows'
  BY <1>0, <1>1 DEF Rows, Gone, Without
<1>3. EveryWorkspaceHasAdmin'
  BY <1>0, <1>1 DEF IInv, EveryWorkspaceHasAdmin, Rows, Gone, Without
<1>4. PersonalIsOwn'
  BY <1>1 DEF IInv, PersonalIsOwn, Without
<1> QED BY <1>2, <1>3, <1>4

(* A user's row goes.  A workspace that stays had another admin. *)
LEMMA UserGoes ==
    ASSUME IInv, NEW r \in Requests, DeleteUser(r)
    PROVE  Rows' /\ EveryWorkspaceHasAdmin' /\ PersonalIsOwn'
<1> DEFINE u == who[r]
           S == Deletes(u)
<1>0. Rows
  BY TypeParts DEF IInv
<1>1. /\ ws' = Gone(S) /\ users' = users \ {u} /\ Blockers(u) = {}
      /\ members' = {m \in Without(members, S) : m[1] # u}
      /\ admins' = {m \in Without(admins, S) : m[1] # u}
  BY DEF DeleteUser
<1>2. Rows'
  BY <1>0, <1>1 DEF Rows, Gone, Without
<1>3. ASSUME NEW w \in Workspaces, ws'[w] = "live"
      PROVE  \E m \in users' : <<m, w>> \in admins'
  <2>1. ws[w] = "live" /\ w \notin S
    BY <1>0, <1>1, <1>3 DEF Rows, Gone
  <2>2. PICK a \in users : <<a, w>> \in admins
    BY <2>1 DEF IInv, EveryWorkspaceHasAdmin
  <2>3. CASE a # u
    BY <1>1, <2>1, <2>2, <2>3 DEF Without
  <2>4. CASE a = u
    <3>1. w \in Mine(u) /\ w \notin Blockers(u)
      BY <1>0, <1>1, <2>2, <2>4 DEF Rows, Mine
    <3>2. PICK m \in Others(w, u) : <<m, w>> \in admins
      BY <2>1, <2>2, <2>4, <3>1 DEF Blockers
    <3>3. m \in users /\ m # u
      BY <1>0, <3>2 DEF Rows, Others
    <3> QED BY <1>1, <2>1, <3>2, <3>3 DEF Without
  <2> QED BY <2>3, <2>4
<1>4. PersonalIsOwn'
  BY <1>1 DEF IInv, PersonalIsOwn, Without
<1> QED BY <1>2, <1>3, <1>4 DEF EveryWorkspaceHasAdmin

(* So do the changes of others. *)
LEMMA JoinsTenancy ==
    ASSUME IInv, Joins
    PROVE  Rows' /\ EveryWorkspaceHasAdmin' /\ PersonalIsOwn'
<1>0. Rows
  BY TypeParts DEF IInv
<1>1. ASSUME NEW u \in Users, NEW w \in Workspaces, NewWorkspace(u, w)
      PROVE  Rows' /\ EveryWorkspaceHasAdmin' /\ PersonalIsOwn'
  <2>1. \A m \in Users : <<m, w>> \notin members
    BY <1>0, <1>1 DEF Rows, NewWorkspace
  <2>2. Rows'
    BY <1>0, <1>1 DEF Rows, NewWorkspace
  <2>3. EveryWorkspaceHasAdmin'
    BY <1>0, <1>1 DEF Rows, NewWorkspace, IInv, EveryWorkspaceHasAdmin
  <2>4. PersonalIsOwn'
    BY <1>1, <2>1 DEF NewWorkspace, IInv, PersonalIsOwn
  <2> QED BY <2>2, <2>3, <2>4
<1>2. ASSUME NEW u \in Users, NEW w \in Workspaces, NEW asAdmin \in BOOLEAN,
             JoinWorkspace(u, w, asAdmin)
      PROVE  Rows' /\ EveryWorkspaceHasAdmin' /\ PersonalIsOwn'
  <2>1. /\ u \in users /\ w \notin Personal /\ ws[w] = "live"
        /\ members' = members \cup {<<u, w>>} /\ admins \subseteq admins'
        /\ admins' \subseteq admins \cup {<<u, w>>} /\ UNCHANGED <<users, ws>>
    BY <1>2 DEF JoinWorkspace
  <2>2. Rows'
    BY <1>0, <2>1 DEF Rows
  <2>3. EveryWorkspaceHasAdmin' /\ PersonalIsOwn'
    BY <2>1 DEF IInv, EveryWorkspaceHasAdmin, PersonalIsOwn
  <2> QED BY <2>2, <2>3
<1>3. ASSUME NEW u \in Users, NEW w \in Workspaces, ChangeMemberRole(u, w) \/ RemoveMember(u, w)
      PROVE  Rows' /\ EveryWorkspaceHasAdmin' /\ PersonalIsOwn'
  <2>1. /\ <<u, w>> \in members /\ ~LastAdmin(u, w) /\ UNCHANGED <<users, ws>>
        /\ members' \in {members, members \ {<<u, w>>}}
        /\ \/ members' = members /\ admins' = admins \cup {<<u, w>>}
           \/ admins' = admins \ {<<u, w>>}
    BY <1>3 DEF ChangeMemberRole, RemoveMember
  <2>2. Rows'
    BY <1>0, <2>1 DEF Rows
  <2>3. ASSUME NEW v \in Workspaces, ws[v] = "live" PROVE \E m \in users : <<m, v>> \in admins'
    <3>1. PICK a \in users : <<a, v>> \in admins
      BY <2>3 DEF IInv, EveryWorkspaceHasAdmin
    <3>2. CASE <<a, v>> # <<u, w>>
      BY <2>1, <3>1, <3>2
    <3>3. CASE <<a, v>> = <<u, w>>
      <4>1. PICK m \in Others(w, u) : <<m, w>> \in admins
        BY <2>1, <3>1, <3>3 DEF LastAdmin
      <4>2. m \in users /\ m # u /\ v = w
        BY <1>0, <3>3, <4>1 DEF Rows, Others
      <4> QED BY <2>1, <4>1, <4>2
    <3> QED BY <3>2, <3>3
  <2>4. EveryWorkspaceHasAdmin'
    BY <2>1, <2>3 DEF EveryWorkspaceHasAdmin
  <2>5. PersonalIsOwn'
    BY <2>1 DEF IInv, PersonalIsOwn
  <2> QED BY <2>2, <2>4, <2>5
<1> QED BY <1>1, <1>2, <1>3 DEF Joins, EnsurePersonalWorkspace, CreateTeamWorkspace

(* Apps stay in workspaces that are there. *)
LEMMA AppsStayHome ==
    ASSUME IInv, [Next]_vars
    PROVE  AppRows'
<1>0. Rows /\ AppRows /\ Locals
  BY TypeParts DEF IInv
<1>1. ASSUME \A x \in Apps : app'[x] \in {"live", "deleted"} =>
                  app[x] \in {"live", "deleted"} \/ ws[Home[x]] = "live",
             app' \in [Apps -> {"none", "live", "deleted", "purged"}],
             \A w \in Workspaces : ws[w] = "live" => ws'[w] = "live"
      PROVE  AppRows'
  BY <1>0, <1>1, DeletionAssumption DEF AppRows, DeletionAssumption
<1>2. ASSUME AppActs PROVE AppRows'
  BY <1>0, <1>2 DEF AppActs, CreateApp, DeleteOneApp, PurgeOneApp, AppRows, tenancy
<1>3. ASSUME Joins PROVE AppRows'
  <2>1. app' = app /\ \A w \in Workspaces : ws[w] = "live" => ws'[w] = "live"
    BY <1>0, <1>3 DEF Joins, EnsurePersonalWorkspace, CreateTeamWorkspace, NewWorkspace,
       JoinWorkspace, ChangeMemberRole, RemoveMember, Rows
  <2> QED BY <1>0, <1>1, <2>1 DEF AppRows
<1>4. ASSUME NEW r \in Requests, DeleteRow(r) PROVE AppRows'
  BY <1>0, <1>4, DeletionAssumption DEF DeleteRow, HasApps, AppRows, Gone, DeletionAssumption
<1>5. ASSUME NEW r \in Requests, DeleteUser(r) PROVE AppRows'
  BY <1>0, <1>5, DeletionAssumption DEF DeleteUser, HasApps, AppRows, Gone, DeletionAssumption
<1>6. ASSUME NEW r \in Requests, Walks(r), UNCHANGED tenancy PROVE AppRows'
  <2>1. ASSUME SoftDeleteApp(r) PROVE AppRows'
    <3> DEFINE x == Min(lives[r])
    <3>1. app' = IF app[x] = "live" THEN [app EXCEPT ![x] = "deleted"] ELSE app
      BY <2>1 DEF SoftDeleteApp
    <3> HIDE DEF x
    <3> QED BY <1>0, <1>6, <3>1 DEF AppRows, tenancy
  <2>2. ASSUME NEW skipped \in BOOLEAN, PurgeApp(r, skipped) PROVE AppRows'
    <3> DEFINE x == Min(rows[r])
    <3>1. app' = [app EXCEPT ![x] = "purged"] \/ app' = app
      BY <2>2 DEF PurgeApp
    <3> HIDE DEF x
    <3> QED BY <1>0, <1>6, <3>1 DEF AppRows, tenancy
  <2>3. SoftDeleteApp(r) \/ (\E skipped \in BOOLEAN : PurgeApp(r, skipped)) \/ app' = app
    BY <1>6 DEF Walks, Begins, Proceeds, DeleteAccount, DeleteWorkspace, ListApps, Guard,
       RepeatPass, RefuseRow, RefuseUser, DeleteRow, DeleteUser, Dies
  <2> QED BY <1>0, <1>6, <2>1, <2>2, <2>3 DEF AppRows, tenancy
<1> QED BY <1>0, <1>2, <1>3, <1>4, <1>5, <1>6, WhoActs, WalksTenancy
        DEF AppRows, vars, tenancy

-----------------------------------------------------------------------------
(* The theorems.                                                           *)

LEMMA StepInv == IInv /\ [Next]_vars => IInv'
<1> SUFFICES ASSUME IInv, [Next]_vars PROVE IInv'
  OBVIOUS
<1>0. Rows /\ AppRows /\ Locals /\ Counted
  BY TypeParts DEF IInv
<1>1. ASSUME UNCHANGED tenancy PROVE Rows' /\ EveryWorkspaceHasAdmin' /\ PersonalIsOwn'
  BY <1>0, <1>1 DEF tenancy, Rows, IInv, EveryWorkspaceHasAdmin, PersonalIsOwn
<1>2. Rows' /\ EveryWorkspaceHasAdmin' /\ PersonalIsOwn'
  <2>1. AppActs \/ UNCHANGED vars => UNCHANGED tenancy
    BY DEF AppActs, CreateApp, DeleteOneApp, PurgeOneApp, vars
  <2> QED BY <1>1, <2>1, WhoActs, WalksTenancy, RowGoes, UserGoes, JoinsTenancy
<1>3. ASSUME UNCHANGED local PROVE Locals' /\ Counted'
  BY <1>0, <1>3 DEF local, Locals, Counted
<1>4. Locals' /\ Counted'
  BY <1>0, <1>3, WhoActs, WalksLocals, OthersLocal
<1> QED BY <1>2, <1>4, AppsStayHome DEF IInv, TypeOK, Rows, AppRows, Locals

LEMMA InitInv == Init => IInv
<1> SUFFICES ASSUME Init PROVE IInv
  OBVIOUS
<1>1. PICK W \in SUBSET (Workspaces \ Personal), a \in Users, M \in SUBSET Users :
        /\ ws = [v \in Workspaces |-> IF v \in W THEN "live" ELSE "unused"]
        /\ members = (M \cup {a}) \X W /\ admins = {a} \X W
  BY DEF Init
<1>2. Rows
  BY <1>1 DEF Init, Rows
<1>3. AppRows
  BY DEF Init, AppRows
<1>4. Locals
  BY NobodyIsNone DEF Init, Locals, Steps
<1>5. EveryWorkspaceHasAdmin
  BY <1>1 DEF Init, EveryWorkspaceHasAdmin
<1>6. PersonalIsOwn
  BY <1>1 DEF PersonalIsOwn
<1>7. Counted
  BY DEF Init, Counted
<1> QED BY <1>2, <1>3, <1>4, <1>5, <1>6, <1>7, TypeParts DEF IInv

(* The inductive invariant. *)
THEOREM Invariance == Spec => []IInv
BY InitInv, StepInv, PTL DEF Spec

(* Memberships, apps and deletions refer to rows that are there. *)
THEOREM WellTyped == Spec => []TypeOK
<1>1. IInv => TypeOK
  BY DEF IInv
<1> QED BY <1>1, Invariance, PTL

(* However many accounts and workspaces are deleted while members join, leave
   and are promoted, every workspace that is there has an admin. *)
THEOREM AdminsStay == Spec => []EveryWorkspaceHasAdmin
<1>1. IInv => EveryWorkspaceHasAdmin
  BY DEF IInv
<1> QED BY <1>1, Invariance, PTL

(* After a member has joined, at most one more app is taken. *)
THEOREM JoinsStopIt == Spec => []JoinStopsDeletion
<1>1. IInv => JoinStopsDeletion
  BY DEF IInv, Counted, JoinStopsDeletion
<1> QED BY <1>1, Invariance, PTL

(* No account's deletion takes the row of a workspace with another member. *)
THEOREM OnlyItsOwn == Spec => AccountTakesOnlyItsOwn
<1>1. ASSUME IInv, Next, NEW r \in Requests, NEW w \in Workspaces,
             account[r], pc'[r] # pc[r], ws[w] = "live", ws'[w] = "gone"
      PROVE  Others(w, who[r]) = {}
  <2>0. Rows /\ Locals
    BY <1>1, TypeParts DEF IInv
  <2>1. PICK s \in Requests : Walks(s)
    <3>1. ~Joins /\ ~AppActs /\ ~UNCHANGED vars
      BY <1>1, OthersLocal DEF local, vars
    <3> QED BY <1>1, <3>1, WhoActs
  <2>2. DeleteRow(s) \/ DeleteUser(s)
    BY <1>1, <2>1, WalksTenancy DEF tenancy
  <2>3. s = r
    BY <1>1, <2>0, <2>2 DEF DeleteRow, DeleteUser, Takes, Ends, Locals
  <2>4. CASE DeleteRow(r)
    <3>1. w = cur[r]
      BY <1>1, <2>0, <2>4 DEF DeleteRow, Gone, Rows
    <3> QED BY <1>1, <2>4, <3>1 DEF DeleteRow, RowGuard, GuardHolds
  <2>5. CASE DeleteUser(r)
    <3>1. w \in Deletes(who[r])
      BY <1>1, <2>0, <2>5 DEF DeleteUser, Gone, Rows
    <3>2. <<who[r], w>> \in members /\ who[r] \in Users
      BY <2>0, <3>1 DEF Deletes, Mine, Rows
    <3> QED BY <1>1, <3>1, <3>2 DEF Deletes, Others, IInv, PersonalIsOwn
  <2> QED BY <2>2, <2>3, <2>4, <2>5
<1>2. IInv /\ [Next]_vars =>
        [\A r \in Requests, w \in Workspaces :
            account[r] /\ pc'[r] # pc[r] /\ ws[w] = "live" /\ ws'[w] = "gone"
              => Others(w, who[r]) = {}]_vars
  BY <1>1
<1> QED BY <1>2, Invariance, PTL DEF Spec, AccountTakesOnlyItsOwn
=============================================================================
