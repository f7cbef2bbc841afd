------------------------------ MODULE Members ------------------------------
(***************************************************************************)
(* One team workspace: its memberships (Postgres), its invites (Redis) and *)
(* the leases its members hold on its apps (Redis).                        *)
(* packages/tenancy/src/members.server.ts and invites.server.ts,           *)
(* packages/apps/src/lease.server.ts.                                      *)
(*                                                                         *)
(* A request is the sequence of statements and Redis calls its handler     *)
(* makes; between two of them every other request may act.  A change of a  *)
(* membership locks the workspace's row; an accept does not, and only the  *)
(* foreign key of a membership it inserts waits for that lock.             *)
(*                                                                         *)
(* Left out: personal workspaces (every operation refuses them), the       *)
(* deletion of the workspace (WorkspaceDeletion), audit rows.              *)
(***************************************************************************)
EXTENDS Integers, FiniteSets

CONSTANTS
    Users,      \* people who are or may become members
    Super,      \* a super-admin, who acts as a workspace-admin and is none
    Invites,    \* bound: the invites ever made
    Apps,       \* the workspace's apps
    Requests,   \* bound: requests in flight at once
    Nobody      \* no user

ASSUME PeopleAssumption ==
    Super \notin Users /\ Nobody \notin Users \cup Requests

\* A membership by the rank of its role; 0: no membership.
None == 0
Viewer == 1
Editor == 2
Admin == 3
Roles == Viewer..Admin

VARIABLES
    role,        \* memberships
    lock,        \* the request whose transaction holds the workspace's row
    invited,     \* the role an invite was made with; None: never made
    link,        \* the invites drobek:invite:<token> has
    index,       \* the invites drobek:invites:<workspace> lists
    timed,       \* the index has a TTL
    lasting,     \* invites whose creation renewed it while they were listed
    told,        \* invites whose link somebody may know
    standing,    \* invites whose inviter was told that they stand
    revoked,     \* invites an admin was told are revoked
    granted,     \* invites an accept consumed
    lease,       \* who holds an app's lease
    pc,          \* the call each request makes next
    target,      \* the user whose membership or lease it is about
    want,        \* the role it is to write
    read,        \* the role it has read
    ids,         \* the invites it is about
    todo,        \* the apps whose leases it has still to release
    clobbered,   \* history: an accept has overwritten a workspace-admin's row
    excused      \* history: apps whose lease was taken by a request older than
                 \* the loss of the role, or whose release failed

store == <<invited, link, index, timed, lasting, told, standing, revoked, granted>>
local == <<pc, target, want, read, ids, todo>>
vars == <<role, lock, store, lease, local, clobbered, excused>>

Steps == {"idle", "lock", "count", "write", "release", "set", "hset", "expire",
          "send", "withdraw", "unlist", "answer", "consume", "see", "accept",
          "hget", "getdel", "mget", "take"}

AboutMember == {"lock", "count", "write", "release", "consume", "see", "accept", "take"}

TypeOK ==
    /\ role \in [Users -> None..Admin]
    /\ lock \in Requests \cup {Nobody}
    /\ invited \in [Invites -> None..Admin]
    /\ link \subseteq Invites /\ index \subseteq Invites /\ lasting \subseteq Invites
    /\ told \subseteq Invites /\ standing \subseteq Invites
    /\ revoked \subseteq Invites /\ granted \subseteq Invites
    /\ lease \in [Apps -> Users \cup {Nobody}]
    /\ pc \in [Requests -> Steps] /\ target \in [Requests -> Users \cup {Nobody}]
    /\ want \in [Requests -> None..Admin] /\ read \in [Requests -> None..Admin]
    /\ ids \in [Requests -> SUBSET Invites] /\ todo \in [Requests -> SUBSET Apps]
    /\ clobbered \in BOOLEAN /\ timed \in BOOLEAN
    /\ excused \subseteq Apps
    /\ \A r \in Requests : pc[r] \in AboutMember => target[r] \in Users
    /\ \A r \in Requests : lock = r <=> pc[r] \in {"count", "write"}

Admins == {u \in Users : role[u] = Admin}

\* What a request keeps between its calls; who makes it only decides whether
\* it may begin.
Becomes(r, step, u, to, was, I) ==
    /\ pc' = [pc EXCEPT ![r] = step]
    /\ target' = [target EXCEPT ![r] = u]
    /\ want' = [want EXCEPT ![r] = to]
    /\ read' = [read EXCEPT ![r] = was]
    /\ ids' = [ids EXCEPT ![r] = I]
    /\ todo' = [todo EXCEPT ![r] = {}]

Goto(r, step) ==
    pc' = [pc EXCEPT ![r] = step] /\ UNCHANGED <<target, want, read, ids, todo>>
Ends(r) == Becomes(r, "idle", Nobody, None, None, {})

-----------------------------------------------------------------------------
\* createTeam leaves one workspace-admin; others have joined since.
Init ==
    /\ role \in [Users -> None..Admin] /\ Admins # {}
    /\ lock = Nobody
    /\ invited = [i \in Invites |-> None]
    /\ link = {} /\ index = {} /\ timed = FALSE /\ lasting = {} /\ told = {}
    /\ standing = {} /\ revoked = {} /\ granted = {}
    /\ lease = [a \in Apps |-> Nobody]
    /\ pc = [r \in Requests |-> "idle"] /\ target = [r \in Requests |-> Nobody]
    /\ want = [r \in Requests |-> None] /\ read = [r \in Requests |-> None]
    /\ ids = [r \in Requests |-> {}] /\ todo = [r \in Requests |-> {}]
    /\ clobbered = FALSE /\ excused = {}

-----------------------------------------------------------------------------
(* Changing and ending memberships.                                        *)

\* The caller's role is resolved once, when the request begins.
ActsAsAdmin(u) == u = Super \/ (u \in Users /\ role[u] = Admin)

Begins(r, step, u, to, was, I) ==
    /\ pc[r] = "idle"
    /\ Becomes(r, step, u, to, was, I)
    /\ UNCHANGED <<role, lock, store, lease, clobbered, excused>>

ChangeMemberRole(r, u, v, to) ==
    /\ ActsAsAdmin(u)
    /\ Begins(r, "lock", v, to, None, {})

RemoveMember(r, u, v) ==
    /\ ActsAsAdmin(u) \/ u = v
    /\ Begins(r, "lock", v, None, None, {})

MayLockMutant(r) == TRUE

\* SELECT ... FOR UPDATE on the workspace's row.
MayLock(r) == lock = Nobody

\* The lock and the member's role; "not_found", and a role that is the same
\* already, end the transaction.
MemberRole(r) ==
    LET current == role[target[r]] IN
    /\ pc[r] = "lock" /\ MayLock(r)
    /\ IF current = None \/ current = want[r]
       THEN Ends(r) /\ UNCHANGED lock
       ELSE /\ lock' = r
            /\ pc' = [pc EXCEPT ![r] = IF current = Admin THEN "count" ELSE "write"]
            /\ read' = [read EXCEPT ![r] = current]
            /\ UNCHANGED <<target, want, ids, todo>>
    /\ UNCHANGED <<role, store, lease, clobbered, excused>>

AdminCount(r) ==
    /\ pc[r] = "count"
    /\ IF \E u, v \in Admins : u # v
       THEN Goto(r, "write") /\ UNCHANGED lock
       ELSE Ends(r) /\ lock' = Nobody
    /\ UNCHANGED <<role, store, lease, clobbered, excused>>

ReleasesMutant(r) == want[r] < Editor /\ read[r] = Editor

\* Their leases go: the member was removed, left, or is now a viewer.
Releases(r) == want[r] < Editor

\* The UPDATE or DELETE of the row, if it is still there, and the commit.
WriteMembership(r) ==
    /\ pc[r] = "write"
    /\ role' = [role EXCEPT ![target[r]] = IF @ = None THEN None ELSE want[r]]
    /\ lock' = Nobody
    /\ IF Releases(r)
       THEN /\ pc' = [pc EXCEPT ![r] = "release"]
            /\ todo' = [todo EXCEPT ![r] = Apps]
            /\ UNCHANGED <<target, want, read, ids>>
       ELSE Ends(r)
    /\ UNCHANGED <<store, lease, clobbered, excused>>

\* TAKE_OWN_LUA on one app after the other.
ReleaseLease(r, a) ==
    /\ pc[r] = "release" /\ a \in todo[r]
    /\ IF lease[a] = target[r]
       THEN lease' = [lease EXCEPT ![a] = Nobody] /\ excused' = excused \ {a}
       ELSE UNCHANGED <<lease, excused>>
    /\ IF todo[r] = {a} THEN Ends(r)
       ELSE /\ todo' = [todo EXCEPT ![r] = @ \ {a}]
            /\ UNCHANGED <<pc, target, want, read, ids>>
    /\ UNCHANGED <<role, lock, store, clobbered>>

\* A failure is logged and leaves the other leases to their TTL.
ReleaseFails(r) ==
    /\ pc[r] = "release"
    /\ excused' = excused \cup {a \in todo[r] : lease[a] = target[r]}
    /\ Ends(r)
    /\ UNCHANGED <<role, lock, store, lease, clobbered>>

-----------------------------------------------------------------------------
(* Invites.                                                                *)

\* An admin's invite, from the dashboard or by an agent, which never sees the
\* link and requires its delivery.  `want` is the invite's role, `read` tells
\* the two apart (Viewer: the link is shown; Editor: it must be delivered).
InviteMember(r, u, i, to, mustDeliver) ==
    /\ ActsAsAdmin(u)
    /\ invited[i] = None /\ \A s \in Requests : ~(pc[s] = "set" /\ i \in ids[s])
    /\ Begins(r, "set", Nobody, to, IF mustDeliver THEN Editor ELSE Viewer, {i})

SetLink(r) ==
    /\ pc[r] = "set"
    /\ link' = link \cup ids[r]
    /\ invited' = [i \in Invites |-> IF i \in ids[r] THEN want[r] ELSE invited[i]]
    /\ Goto(r, "hset")
    /\ UNCHANGED <<timed, role, lock, index, lasting, told, standing, revoked, granted,
                   lease, clobbered, excused>>

SetIndex(r) ==
    /\ pc[r] = "hset"
    /\ index' = index \cup ids[r]
    /\ Goto(r, "expire")
    /\ UNCHANGED <<role, lock, invited, timed, link, lasting, told, standing, revoked,
                   granted, lease, clobbered, excused>>

\* EXPIRE of the index does nothing when the index has expired meanwhile.
RenewIndex(r) ==
    /\ pc[r] = "expire"
    /\ lasting' = lasting \cup (ids[r] \cap index)
    /\ timed' = (index # {})
    /\ Goto(r, "send")
    /\ UNCHANGED <<role, lock, invited, link, index, told, standing, revoked, granted,
                   lease, clobbered, excused>>

\* The mail; one that fails may have been delivered all the same.
SendInvite(r, sent, arrived) ==
    /\ pc[r] = "send"
    /\ sent => arrived
    /\ told' = IF arrived THEN told \cup ids[r] ELSE told
    /\ Goto(r, IF read[r] = Editor /\ ~sent THEN "withdraw" ELSE "answer")
    /\ UNCHANGED <<role, lock, invited, timed, link, index, lasting, standing, revoked,
                   granted, lease, clobbered, excused>>

\* The GETDEL of a link nobody received; its result decides about the HDEL only.
WithdrawInvite(r) ==
    /\ pc[r] = "withdraw"
    /\ link' = link \ ids[r]
    /\ IF ids[r] \subseteq link THEN Goto(r, "unlist") ELSE Ends(r)
    /\ UNCHANGED <<role, lock, invited, timed, index, lasting, told, standing, revoked,
                   granted, lease, clobbered, excused>>

\* The inviter is told that the invite stands, and shown its link.
InviteStands(r) ==
    /\ pc[r] = "answer"
    /\ standing' = standing \cup ids[r]
    /\ told' = IF read[r] = Viewer THEN told \cup ids[r] ELSE told
    /\ Ends(r)
    /\ UNCHANGED <<role, lock, invited, timed, link, index, lasting, revoked, granted,
                   lease, clobbered, excused>>

\* HDEL of what is no longer pending.
Unlist(r) ==
    /\ pc[r] = "unlist"
    /\ index' = index \ ids[r]
    /\ timed' = (timed /\ index' # {})
    /\ IF target[r] \in Users
       THEN Goto(r, "see")
       ELSE Ends(r)
    /\ UNCHANGED <<role, lock, invited, link, lasting, told, standing, revoked, granted,
                   lease, clobbered, excused>>

\* Whoever has the link accepts it, for the session's user; `want` is the role
\* of the invite's record, which never changes.
AcceptInvite(r, u, i) ==
    /\ i \in told
    /\ Begins(r, "consume", u, invited[i], None, {i})

\* GETDEL: an accept that finds nothing answers that the link is not valid.
ConsumeInvite(r) ==
    /\ pc[r] = "consume"
    /\ IF ids[r] \subseteq link
       THEN /\ link' = link \ ids[r]
            /\ granted' = granted \cup ids[r]
            /\ Goto(r, "unlist")
       ELSE Ends(r) /\ UNCHANGED <<link, granted>>
    /\ UNCHANGED <<role, lock, invited, timed, index, lasting, told, standing, revoked,
                   lease, clobbered, excused>>

HigherRoleMutant(a, b) == b
\* Accept keeps the higher of the two.
HigherRole(a, b) == IF a >= b THEN a ELSE b

\* The membership as it is now, read without a lock.
SeeMembership(r) ==
    /\ pc[r] = "see"
    /\ Becomes(r, "accept", target[r], HigherRole(role[target[r]], want[r]), role[target[r]], ids[r])
    /\ UNCHANGED <<role, lock, store, lease, clobbered, excused>>

\* By what was read: INSERT ... ON CONFLICT DO NOTHING (a new row waits for
\* the workspace's lock), an UPDATE, or nothing.
AcceptedRole(r) ==
    LET now == role[target[r]] IN
    IF read[r] = None
    THEN IF now = None THEN want[r] ELSE now
    ELSE IF now = None \/ want[r] = read[r] THEN now ELSE want[r]

WriteAccept(r) ==
    LET u == target[r] IN
    /\ pc[r] = "accept"
    /\ read[r] = None /\ role[u] = None => lock = Nobody
    /\ role' = [role EXCEPT ![u] = AcceptedRole(r)]
    /\ clobbered' = (clobbered \/ (role[u] = Admin /\ AcceptedRole(r) # Admin))
    /\ Ends(r)
    /\ UNCHANGED <<lock, store, lease, excused>>

\* The dashboard posts the id of a listed invite; the index gives its token.
RevokeInvite(r, u, i) ==
    /\ ActsAsAdmin(u)
    /\ Begins(r, "hget", Nobody, None, None, {i})

FindToken(r) ==
    /\ pc[r] = "hget"
    /\ IF ids[r] \subseteq index THEN Goto(r, "getdel") ELSE Ends(r)
    /\ UNCHANGED <<role, lock, store, lease, clobbered, excused>>

TookMutant(r) == TRUE
\* What the GETDEL of a revocation found.
Took(r) == ids[r] \subseteq link

TakeToken(r) ==
    /\ pc[r] = "getdel"
    /\ link' = link \ ids[r]
    /\ revoked' = IF Took(r) THEN revoked \cup ids[r] ELSE revoked
    /\ Goto(r, "unlist")
    /\ UNCHANGED <<role, lock, invited, timed, index, lasting, told, standing, granted,
                   lease, clobbered, excused>>

\* The Members tab: HGETALL, MGET of the tokens, HDEL of what is stale.
ListPendingInvites(r) ==
    /\ index # {}
    /\ Begins(r, "mget", Nobody, None, None, index)

StaleMutant(r) == ids[r]
Stale(r) == ids[r] \ link

ReadListed(r) ==
    /\ pc[r] = "mget"
    /\ IF Stale(r) = {} THEN Ends(r) ELSE Becomes(r, "unlist", Nobody, None, None, Stale(r))
    /\ UNCHANGED <<role, lock, store, lease, clobbered, excused>>

\* Seven days pass.  Every creation sets the TTL of the index anew, after its
\* link's, so the index outlives the links of all that got that far.
LinkExpires(i) ==
    /\ i \in link
    /\ link' = link \ {i}
    /\ UNCHANGED <<role, lock, invited, timed, index, lasting, told, standing, revoked,
                   granted, lease, local, clobbered, excused>>

IndexExpires ==
    /\ timed /\ lasting \cap link = {}
    /\ index' = {} /\ timed' = FALSE
    /\ UNCHANGED <<role, lock, invited, link, lasting, told, standing, revoked, granted,
                   lease, local, clobbered, excused>>

-----------------------------------------------------------------------------
(* Leases.                                                                 *)

\* An agent's write: the membership is checked when the call begins.
BeginWrite(r, u) ==
    /\ role[u] >= Editor
    /\ Begins(r, "take", u, None, None, {})

TakeLease(r, a) ==
    LET u == target[r] IN
    /\ pc[r] = "take"
    /\ lease[a] \in {Nobody, u}
    /\ lease' = [lease EXCEPT ![a] = u]
    /\ excused' = IF role[u] >= Editor THEN excused \ {a} ELSE excused \cup {a}
    /\ Ends(r)
    /\ UNCHANGED <<role, lock, store, clobbered>>

\* The TTL passes or the holder unlocks.
LeaseEnds(a) ==
    /\ lease[a] # Nobody
    /\ lease' = [lease EXCEPT ![a] = Nobody]
    /\ excused' = excused \ {a}
    /\ UNCHANGED <<role, lock, store, local, clobbered>>

-----------------------------------------------------------------------------
Rollback(r) == IF lock = r THEN Nobody ELSE lock

\* The process dies, or a call throws: an open transaction is rolled back.
Dies(r) ==
    /\ pc[r] # "idle"
    /\ lock' = Rollback(r)
    /\ excused' = IF pc[r] = "release"
                  THEN excused \cup {a \in todo[r] : lease[a] = target[r]}
                  ELSE excused
    /\ Ends(r)
    /\ UNCHANGED <<role, store, lease, clobbered>>

Changes(r) ==
    \/ \E u \in Users \cup {Super}, v \in Users, to \in Roles : ChangeMemberRole(r, u, v, to)
    \/ \E u \in Users \cup {Super}, v \in Users : RemoveMember(r, u, v)
    \/ MemberRole(r) \/ AdminCount(r) \/ WriteMembership(r)
    \/ \E a \in Apps : ReleaseLease(r, a)
    \/ ReleaseFails(r)

Inviting(r) ==
    \/ \E u \in Users \cup {Super}, i \in Invites, to \in Roles, mustDeliver \in BOOLEAN :
          InviteMember(r, u, i, to, mustDeliver)
    \/ SetLink(r) \/ SetIndex(r) \/ RenewIndex(r)
    \/ \E sent, arrived \in BOOLEAN : SendInvite(r, sent, arrived)
    \/ WithdrawInvite(r) \/ InviteStands(r)

Answering(r) ==
    \/ \E u \in Users, i \in Invites : AcceptInvite(r, u, i)
    \/ ConsumeInvite(r) \/ Unlist(r) \/ SeeMembership(r) \/ WriteAccept(r)
    \/ \E u \in Users \cup {Super}, i \in Invites : RevokeInvite(r, u, i)
    \/ FindToken(r) \/ TakeToken(r)
    \/ ListPendingInvites(r) \/ ReadListed(r)

Writing(r) ==
    \/ \E u \in Users : BeginWrite(r, u)
    \/ \E a \in Apps : TakeLease(r, a)

Next ==
    \/ \E r \in Requests : Changes(r) \/ Inviting(r) \/ Answering(r) \/ Writing(r) \/ Dies(r)
    \/ \E i \in Invites : LinkExpires(i)
    \/ IndexExpires
    \/ \E a \in Apps : LeaseEnds(a)

Spec == Init /\ [][Next]_vars

-----------------------------------------------------------------------------
\* members.server.ts:8-10: a workspace always keeps a workspace-admin,
\* whatever two admins do at the same moment.  Only an accept can undo that, by
\* writing the role it computed from a membership that was promoted since over
\* a workspace-admin's row.
AdminsLostByAccept == Admins = {} => clobbered

\* Nobody who cannot write keeps an app from the editors: such a lease is about
\* to be released by the request that took the role, was taken by a request
\* that began before, or its release failed.
LeasesFollowRoles ==
    \A a \in Apps : lease[a] # Nobody /\ role[lease[a]] < Editor =>
        \/ a \in excused
        \/ \E r \in Requests : /\ pc[r] = "release"
                               /\ target[r] = lease[a] /\ a \in todo[r]

\* An invite whose inviter was told that it stands is listed, and so can be
\* revoked, for as long as its link works, whatever lists drop and whenever
\* the index expires - except between its own HSET and EXPIRE.
OpenInvitesListed == standing \cap lasting \cap link \subseteq index

\* An invite reported as revoked was never, and will never be, accepted.
RevokedNeverGrants == revoked \cap granted = {} /\ revoked \cap link = {}

\* An accept raises a member's role or leaves it, unless the membership
\* changed between its read and its write.
AcceptNeverLowers ==
    [][\A r \in Requests : WriteAccept(r) =>
          \/ role'[target[r]] >= role[target[r]]
          \/ role[target[r]] # read[r]]_vars
=============================================================================
