--------------------------- MODULE MembersProofs ---------------------------
(***************************************************************************)
(* For any number of users, invites, apps and requests: only an accept can *)
(* take a workspace's last admin, a lease follows its holder's role, an    *)
(* invite that stands is listed, and one reported as revoked grants        *)
(* nothing.                                                                *)
(*                                                                         *)
(* What keeps the last admin is what a transaction that holds the row knows *)
(* when it is about to write: somebody else is a workspace-admin too.      *)
(***************************************************************************)
EXTENDS Members, TLAPS

Made(i) == invited[i] # None

\* A transaction about to write leaves another workspace-admin.
AnotherAdmin ==
    \A r \in Requests : pc[r] = "write" =>
        clobbered \/ \E u \in Users : u # target[r] /\ role[u] = Admin

\* Ids are fresh until their link is set; what is unlisted has lost its link.
IdsOf(r) ==
    /\ pc[r] = "set" => want[r] # None /\ \A i \in ids[r] : ~Made(i)
    /\ pc[r] \notin {"set", "hget"} => \A i \in ids[r] : Made(i)
    /\ pc[r] = "unlist" => ids[r] \cap link = {}

Apart(r, s) == pc[r] = "set" /\ pc[s] = "set" => ids[r] \cap ids[s] = {}

KnownMade == \A i \in link \cup index \cup lasting \cup told \cup revoked \cup granted : Made(i)

Fresh ==
    /\ KnownMade
    /\ \A r \in Requests : IdsOf(r)
    /\ \A r, s \in Requests : r # s => Apart(r, s)

Listed == lasting \cap link \subseteq index

AcceptWant == \A r \in Requests : pc[r] = "accept" => want[r] >= read[r]

IInv ==
    /\ TypeOK /\ AdminsLostByAccept /\ AnotherAdmin /\ LeasesFollowRoles
    /\ Fresh /\ Listed /\ RevokedNeverGrants /\ granted \cap link = {} /\ AcceptWant

-----------------------------------------------------------------------------
(* Helpers.                                                                *)

Served(r) == Changes(r) \/ Inviting(r) \/ Answering(r) \/ Writing(r) \/ Dies(r)

Unserved ==
    \/ \E i \in Invites : LinkExpires(i)
    \/ IndexExpires
    \/ \E a \in Apps : LeaseEnds(a)
    \/ UNCHANGED vars

(* A step is one of a request, or time's. *)
LEMMA WhoActs == [Next]_vars => Unserved \/ \E r \in Requests : Served(r)
BY DEF Next, Served, Unserved

(* A step of one request leaves the others where they are. *)
LEMMA OthersWait ==
    ASSUME TypeOK, NEW r \in Requests, NEW s \in Requests, s # r,
           Served(r)
    PROVE  /\ pc'[s] = pc[s] /\ target'[s] = target[s] /\ want'[s] = want[s]
           /\ read'[s] = read[s] /\ ids'[s] = ids[s] /\ todo'[s] = todo[s]
<1> USE DEF TypeOK, Becomes, Begins, Goto, Ends
<1>1. CASE Changes(r)
  BY <1>1 DEF Changes, ChangeMemberRole, RemoveMember, MemberRole, AdminCount,
              WriteMembership, ReleaseLease, ReleaseFails
<1>2. CASE Inviting(r)
  BY <1>2 DEF Inviting, InviteMember, SetLink, SetIndex, RenewIndex, SendInvite,
              WithdrawInvite, InviteStands
<1>3. CASE Answering(r)
  BY <1>3 DEF Answering, AcceptInvite, ConsumeInvite, Unlist, SeeMembership,
              WriteAccept, RevokeInvite, FindToken, TakeToken, ListPendingInvites, ReadListed
<1>4. CASE Writing(r) \/ Dies(r)
  BY <1>4 DEF Writing, BeginWrite, TakeLease, Dies
<1> QED BY <1>1, <1>2, <1>3, <1>4 DEF Served

(* Everybody waits when nobody is served. *)
LEMMA NobodyServed ==
    ASSUME Unserved
    PROVE  UNCHANGED <<local, role, lock>>
BY Zenon DEF Unserved, LinkExpires, IndexExpires, LeaseEnds, vars

(* What a request is about: its ids are invites, its apps apps. *)
LEMMA RequestFields ==
    ASSUME TypeOK, NEW r \in Requests
    PROVE  /\ pc[r] \in Steps
           /\ target[r] \in Users \cup {Nobody}
           /\ want[r] \in None..Admin /\ read[r] \in None..Admin
           /\ ids[r] \subseteq Invites /\ todo[r] \subseteq Apps
BY DEF TypeOK

(* Which actions write the rows of memberships. *)
LEMMA RowsChange ==
    [Next]_vars => \/ UNCHANGED <<role, clobbered>>
                   \/ \E r \in Requests : WriteMembership(r) \/ WriteAccept(r)
<1>1. ASSUME NEW r \in Requests, Changes(r)
      PROVE  UNCHANGED <<role, clobbered>> \/ WriteMembership(r)
  BY <1>1, Zenon DEF Changes, ChangeMemberRole, RemoveMember, MemberRole, AdminCount, ReleaseLease,
              ReleaseFails, Begins
<1>2. ASSUME NEW r \in Requests, Inviting(r)
      PROVE  UNCHANGED <<role, clobbered>>
  BY <1>2, Zenon DEF Inviting, InviteMember, SetLink, SetIndex, RenewIndex, SendInvite,
              WithdrawInvite, InviteStands, Begins
<1>3. ASSUME NEW r \in Requests, Answering(r)
      PROVE  UNCHANGED <<role, clobbered>> \/ WriteAccept(r)
  BY <1>3, Zenon DEF Answering, AcceptInvite, ConsumeInvite, Unlist, SeeMembership, RevokeInvite,
              FindToken, TakeToken, ListPendingInvites, ReadListed, Begins
<1>4. ASSUME NEW r \in Requests, Writing(r) \/ Dies(r)
      PROVE  UNCHANGED <<role, clobbered>>
  BY <1>4, Zenon DEF Writing, BeginWrite, TakeLease, Dies, Begins
<1>5. \/ \E i \in Invites : LinkExpires(i)
      \/ IndexExpires \/ (\E a \in Apps : LeaseEnds(a)) \/ UNCHANGED vars
      => UNCHANGED <<role, clobbered>>
  BY Zenon DEF LinkExpires, IndexExpires, LeaseEnds, vars
<1> QED BY <1>1, <1>2, <1>3, <1>4, <1>5 DEF Next, vars

(* Which actions write the keys of invites. *)
LEMMA InvitesChange ==
    [Next]_vars =>
      \/ UNCHANGED store
      \/ \E r \in Requests :
            \/ SetLink(r) \/ SetIndex(r) \/ RenewIndex(r) \/ WithdrawInvite(r) \/ InviteStands(r)
            \/ \E sent, arrived \in BOOLEAN : SendInvite(r, sent, arrived)
            \/ ConsumeInvite(r) \/ Unlist(r) \/ TakeToken(r)
      \/ \E i \in Invites : LinkExpires(i)
      \/ IndexExpires
<1>1. ASSUME NEW r \in Requests, Changes(r)
      PROVE  UNCHANGED store
  BY <1>1, Zenon DEF Changes, ChangeMemberRole, RemoveMember, MemberRole, AdminCount, ReleaseLease,
              ReleaseFails, Begins, WriteMembership
<1>2. ASSUME NEW r \in Requests, NEW u \in Users \cup {Super}, NEW i \in Invites,
             NEW to \in Roles, NEW mustDeliver \in BOOLEAN,
             InviteMember(r, u, i, to, mustDeliver)
      PROVE  UNCHANGED store
  BY <1>2, Zenon DEF InviteMember, Begins
<1>3. ASSUME NEW r \in Requests, Answering(r)
      PROVE  UNCHANGED store \/ ConsumeInvite(r) \/ Unlist(r) \/ TakeToken(r)
  BY <1>3, Zenon DEF Answering, AcceptInvite, SeeMembership, RevokeInvite,
              FindToken, ListPendingInvites, ReadListed, WriteAccept, Begins
<1>4. ASSUME NEW r \in Requests, Writing(r) \/ Dies(r)
      PROVE  UNCHANGED store
  BY <1>4, Zenon DEF Writing, BeginWrite, TakeLease, Dies, Begins
<1>5. (\E a \in Apps : LeaseEnds(a)) \/ UNCHANGED vars => UNCHANGED store
  BY Zenon DEF LeaseEnds, vars
<1> QED BY <1>1, <1>2, <1>3, <1>4, <1>5 DEF Next, vars, Inviting

(* Which actions write the leases. *)
LEMMA LeasesChange ==
    [Next]_vars =>
      \/ UNCHANGED <<lease, excused>>
      \/ \E r \in Requests :
            ReleaseFails(r) \/ Dies(r) \/ \E a \in Apps : ReleaseLease(r, a) \/ TakeLease(r, a)
      \/ \E a \in Apps : LeaseEnds(a)
<1>1. ASSUME NEW r \in Requests, Changes(r)
      PROVE  UNCHANGED <<lease, excused>> \/ ReleaseFails(r) \/ \E a \in Apps : ReleaseLease(r, a)
  BY <1>1, Zenon DEF Changes, ChangeMemberRole, RemoveMember, MemberRole, AdminCount, Begins,
              WriteMembership
<1>2. ASSUME NEW r \in Requests, Inviting(r)
      PROVE  UNCHANGED <<lease, excused>>
  BY <1>2, Zenon DEF Inviting, InviteMember, SetLink, SetIndex, RenewIndex, SendInvite,
              WithdrawInvite, InviteStands, Begins
<1>3. ASSUME NEW r \in Requests, Answering(r)
      PROVE  UNCHANGED <<lease, excused>>
  BY <1>3, Zenon DEF Answering, AcceptInvite, ConsumeInvite, Unlist, SeeMembership, RevokeInvite,
              FindToken, TakeToken, ListPendingInvites, ReadListed, WriteAccept, Begins
<1>4. ASSUME NEW r \in Requests, Writing(r)
      PROVE  UNCHANGED <<lease, excused>> \/ \E a \in Apps : TakeLease(r, a)
  BY <1>4, Zenon DEF Writing, BeginWrite, Begins
<1>5. (\E i \in Invites : LinkExpires(i)) \/ IndexExpires \/ UNCHANGED vars
      => UNCHANGED <<lease, excused>>
  BY Zenon DEF LinkExpires, IndexExpires, vars
<1> QED BY <1>1, <1>2, <1>3, <1>4, <1>5 DEF Next, vars

-----------------------------------------------------------------------------
(* Types.                                                                  *)

(* The rows keep their types. *)
LEMMA RowTypes ==
    ASSUME TypeOK, [Next]_vars
    PROVE  role' \in [Users -> None..Admin] /\ clobbered' \in BOOLEAN
<1>1. CASE UNCHANGED <<role, clobbered>>
  BY <1>1 DEF TypeOK
<1>2. ASSUME NEW r \in Requests, WriteMembership(r)
      PROVE  role' \in [Users -> None..Admin] /\ clobbered' \in BOOLEAN
  BY <1>2, RequestFields DEF TypeOK, WriteMembership, None, Admin
<1>3. ASSUME NEW r \in Requests, WriteAccept(r)
      PROVE  role' \in [Users -> None..Admin] /\ clobbered' \in BOOLEAN
  <2>1. target[r] \in Users => AcceptedRole(r) \in None..Admin
    BY RequestFields DEF TypeOK, AcceptedRole
  <2>2. role' \in [Users -> None..Admin]
    BY <1>3, <2>1 DEF TypeOK, WriteAccept
  <2>3. clobbered' \in BOOLEAN
    BY <1>3 DEF TypeOK, WriteAccept
  <2> QED BY <2>2, <2>3
<1> QED BY <1>1, <1>2, <1>3, RowsChange

InvitesTyped ==
    /\ invited \in [Invites -> None..Admin] /\ timed \in BOOLEAN
    /\ link \subseteq Invites /\ index \subseteq Invites /\ lasting \subseteq Invites
    /\ told \subseteq Invites /\ standing \subseteq Invites
    /\ revoked \subseteq Invites /\ granted \subseteq Invites

(* The keys of invites keep their types. *)
LEMMA InviteTypes ==
    ASSUME TypeOK, [Next]_vars
    PROVE  InvitesTyped'
<1> USE DEF TypeOK, InvitesTyped
<1>1. CASE UNCHANGED store
  BY <1>1 DEF store
<1>2. ASSUME NEW r \in Requests, SetLink(r) PROVE InvitesTyped'
  BY <1>2, RequestFields DEF SetLink
<1>3. ASSUME NEW r \in Requests, SetIndex(r) \/ WithdrawInvite(r) \/ InviteStands(r)
      PROVE  InvitesTyped'
  BY <1>3, RequestFields DEF SetIndex, WithdrawInvite, InviteStands
<1>4. ASSUME NEW r \in Requests, NEW sent \in BOOLEAN, NEW arrived \in BOOLEAN,
             SendInvite(r, sent, arrived)
      PROVE  InvitesTyped'
  BY <1>4, RequestFields DEF SendInvite
<1>5. ASSUME NEW r \in Requests, ConsumeInvite(r) \/ TakeToken(r)
      PROVE  InvitesTyped'
  BY <1>5, RequestFields DEF ConsumeInvite, TakeToken
<1>6. ASSUME NEW r \in Requests, RenewIndex(r) \/ Unlist(r)
      PROVE  InvitesTyped'
  BY <1>6, RequestFields DEF RenewIndex, Unlist
<1>7. CASE IndexExpires \/ \E i \in Invites : LinkExpires(i)
  BY <1>7 DEF IndexExpires, LinkExpires
<1> QED BY <1>1, <1>2, <1>3, <1>4, <1>5, <1>6, <1>7, InvitesChange

(* The leases keep their types. *)
LEMMA LeaseTypes ==
    ASSUME TypeOK, [Next]_vars
    PROVE  lease' \in [Apps -> Users \cup {Nobody}] /\ excused' \subseteq Apps
<1> USE DEF TypeOK
<1>1. ASSUME NEW r \in Requests, ReleaseFails(r) \/ Dies(r)
      PROVE  lease' \in [Apps -> Users \cup {Nobody}] /\ excused' \subseteq Apps
  BY <1>1, RequestFields DEF ReleaseFails, Dies
<1>2. ASSUME NEW r \in Requests, NEW a \in Apps, ReleaseLease(r, a)
      PROVE  lease' \in [Apps -> Users \cup {Nobody}] /\ excused' \subseteq Apps
  BY <1>2 DEF ReleaseLease
<1>3. ASSUME NEW r \in Requests, NEW a \in Apps, TakeLease(r, a)
      PROVE  lease' \in [Apps -> Users \cup {Nobody}] /\ excused' \subseteq Apps
  BY <1>3, RequestFields DEF TakeLease
<1>4. ASSUME NEW a \in Apps, LeaseEnds(a)
      PROVE  lease' \in [Apps -> Users \cup {Nobody}] /\ excused' \subseteq Apps
  BY <1>4 DEF LeaseEnds
<1> QED BY <1>1, <1>2, <1>3, <1>4, LeasesChange

\* What a step of r makes of the requests and of the lock.
LocalTyped ==
    /\ pc \in [Requests -> Steps] /\ target \in [Requests -> Users \cup {Nobody}]
    /\ want \in [Requests -> None..Admin] /\ read \in [Requests -> None..Admin]
    /\ ids \in [Requests -> SUBSET Invites] /\ todo \in [Requests -> SUBSET Apps]

Sound(r) ==
    /\ LocalTyped' /\ lock' \in Requests \cup {Nobody}
    /\ pc'[r] \in AboutMember => target'[r] \in Users
    /\ lock' = r <=> pc'[r] \in {"count", "write"}
    /\ \A s \in Requests \ {r} : lock' = s <=> lock = s

(* A request begins, goes on or ends without the lock. *)
LEMMA BecomesSound ==
    ASSUME TypeOK, NEW r \in Requests, NEW step \in Steps \ {"count", "write"},
           NEW u \in Users \cup {Nobody}, NEW to \in None..Admin, NEW was \in None..Admin,
           NEW I \in SUBSET Invites, step \in AboutMember => u \in Users,
           Becomes(r, step, u, to, was, I),
           lock # r, UNCHANGED lock
    PROVE  Sound(r)
<1>1. LocalTyped'
  BY DEF TypeOK, LocalTyped, Becomes
<1>2. pc'[r] = step /\ target'[r] = u
  BY DEF TypeOK, Becomes
<1> QED BY <1>1, <1>2 DEF TypeOK, Sound

LEMMA GotoSound ==
    ASSUME TypeOK, NEW r \in Requests, NEW step \in Steps \ {"count", "write"},
           step \in AboutMember => target[r] \in Users, Goto(r, step),
           lock # r, UNCHANGED lock
    PROVE  Sound(r)
<1>1. LocalTyped'
  BY DEF TypeOK, LocalTyped, Goto
<1>2. pc'[r] = step /\ target'[r] = target[r]
  BY DEF TypeOK, Goto
<1> QED BY <1>1, <1>2 DEF TypeOK, Sound

LEMMA EndsSound ==
    ASSUME TypeOK, NEW r \in Requests, Ends(r), lock # r, UNCHANGED lock
    PROVE  Sound(r)
BY BecomesSound DEF Ends, Steps, AboutMember, None, Admin

(* ... and a transaction ends with it. *)
LEMMA UnlockSound ==
    ASSUME TypeOK, NEW r \in Requests, Ends(r), lock = r, lock' = Nobody
    PROVE  Sound(r)
<1>1. LocalTyped'
  BY DEF TypeOK, LocalTyped, Ends, Becomes, Steps, None, Admin
<1>2. pc'[r] = "idle"
  BY DEF TypeOK, Ends, Becomes
<1> QED BY <1>1, <1>2, PeopleAssumption DEF TypeOK, Sound, AboutMember

(* Changes of memberships take and give back the lock. *)
LEMMA ChangeSound ==
    ASSUME TypeOK, NEW r \in Requests, Changes(r)
    PROVE  Sound(r)
<1> USE RequestFields
<1>1. ASSUME NEW v \in Users, NEW w \in None..Admin, UNCHANGED lock,
             Begins(r, "lock", v, w, None, {})
      PROVE  Sound(r)
  <2>2. lock # r
    BY <1>1 DEF Begins, TypeOK
  <2> QED BY <1>1, <2>2, BecomesSound DEF Begins, Steps, AboutMember, None, Admin
<1>2. CASE MemberRole(r)
  <2>1. pc[r] = "lock" /\ target[r] \in Users /\ lock # r
    BY <1>2 DEF MemberRole, TypeOK, AboutMember
  <2>2. CASE Ends(r) /\ UNCHANGED lock
    BY <2>1, <2>2, EndsSound
  <2>3. CASE ~(Ends(r) /\ UNCHANGED lock)
    <3> DEFINE current == role[target[r]]
    <3>1. lock' = r /\ lock = Nobody
          /\ pc' = [pc EXCEPT ![r] = IF current = Admin THEN "count" ELSE "write"]
          /\ read' = [read EXCEPT ![r] = current]
          /\ UNCHANGED <<target, want, ids, todo>>
      BY <1>2, <2>3 DEF MemberRole, MayLock
    <3>2. current \in None..Admin
      BY <2>1 DEF TypeOK
    <3>3. LocalTyped' /\ pc'[r] \in {"count", "write"} /\ target'[r] \in Users
      BY <2>1, <3>1, <3>2 DEF TypeOK, LocalTyped, Steps
    <3> QED BY <3>1, <3>3, PeopleAssumption DEF Sound
  <2> QED BY <2>2, <2>3
<1>3. CASE AdminCount(r)
  <2>1. lock = r /\ target[r] \in Users
    BY <1>3 DEF AdminCount, TypeOK, AboutMember
  <2>2. CASE Goto(r, "write") /\ UNCHANGED lock
    <3>1. LocalTyped' /\ pc'[r] = "write" /\ target'[r] \in Users
      BY <2>1, <2>2 DEF Goto, TypeOK, LocalTyped, Steps
    <3> QED BY <2>1, <2>2, <3>1 DEF Sound, TypeOK
  <2>3. CASE Ends(r) /\ lock' = Nobody
    BY <2>1, <2>3, UnlockSound
  <2> QED BY <1>3, <2>2, <2>3 DEF AdminCount
<1>4. CASE WriteMembership(r)
  <2>1. lock = r /\ lock' = Nobody /\ target[r] \in Users
    BY <1>4 DEF WriteMembership, TypeOK, AboutMember
  <2>2. CASE Ends(r)
    BY <2>1, <2>2, UnlockSound
  <2>3. CASE /\ pc' = [pc EXCEPT ![r] = "release"]
             /\ todo' = [todo EXCEPT ![r] = Apps]
             /\ UNCHANGED <<target, want, read, ids>>
    <3>1. LocalTyped' /\ pc'[r] = "release" /\ target'[r] \in Users
      BY <2>1, <2>3 DEF TypeOK, LocalTyped, Steps
    <3> QED BY <2>1, <3>1, PeopleAssumption DEF Sound
  <2> QED BY <1>4, <2>2, <2>3 DEF WriteMembership
<1>5. ASSUME NEW a \in Apps, ReleaseLease(r, a)
      PROVE  Sound(r)
  <2>1. pc[r] = "release" /\ lock # r /\ UNCHANGED lock /\ target[r] \in Users
    BY <1>5 DEF ReleaseLease, TypeOK, AboutMember
  <2>2. CASE Ends(r)
    BY <2>1, <2>2, EndsSound
  <2>3. CASE todo' = [todo EXCEPT ![r] = @ \ {a}] /\ UNCHANGED <<pc, target, want, read, ids>>
    <3>1. LocalTyped'
      BY <2>3 DEF TypeOK, LocalTyped
    <3> QED BY <2>1, <2>3, <3>1 DEF Sound, TypeOK
  <2> QED BY <1>5, <2>2, <2>3 DEF ReleaseLease
<1>6. CASE ReleaseFails(r)
  BY <1>6, EndsSound DEF ReleaseFails, TypeOK
<1>7. ASSUME NEW u \in Users \cup {Super}, NEW v \in Users, NEW to \in Roles,
             ChangeMemberRole(r, u, v, to)
      PROVE  Sound(r)
  BY <1>1, <1>7 DEF ChangeMemberRole, Begins, Roles, None, Viewer, Admin
<1>8. ASSUME NEW u \in Users \cup {Super}, NEW v \in Users, RemoveMember(r, u, v)
      PROVE  Sound(r)
  BY <1>1, <1>8 DEF RemoveMember, Begins, None, Admin
<1> QED BY <1>2, <1>3, <1>4, <1>5, <1>6, <1>7, <1>8 DEF Changes

(* Invites take no lock. *)
LEMMA InvitingSound ==
    ASSUME TypeOK, NEW r \in Requests, Inviting(r)
    PROVE  Sound(r)
<1> USE RequestFields
<1>1. ASSUME NEW u \in Users \cup {Super}, NEW i \in Invites, NEW to \in Roles,
             NEW mustDeliver \in BOOLEAN, InviteMember(r, u, i, to, mustDeliver)
      PROVE  Sound(r)
  <2>1. PICK kind \in {Viewer, Editor} : Begins(r, "set", Nobody, to, kind, {i})
    BY <1>1 DEF InviteMember
  <2>2. lock # r /\ UNCHANGED lock
    BY <2>1 DEF Begins, TypeOK
  <2>3. to \in None..Admin /\ kind \in None..Admin
    BY DEF Roles, None, Viewer, Editor, Admin
  <2> QED BY <2>1, <2>2, <2>3, BecomesSound DEF Begins, Steps, AboutMember
<1>2. CASE SetLink(r) \/ SetIndex(r) \/ RenewIndex(r)
  <2>1. lock # r /\ UNCHANGED lock
    BY <1>2 DEF SetLink, SetIndex, RenewIndex, TypeOK
  <2>2. PICK step \in {"hset", "expire", "send"} : Goto(r, step)
    BY <1>2 DEF SetLink, SetIndex, RenewIndex
  <2> QED BY <2>1, <2>2, GotoSound DEF Steps, AboutMember
<1>3. ASSUME NEW sent \in BOOLEAN, NEW arrived \in BOOLEAN, SendInvite(r, sent, arrived)
      PROVE  Sound(r)
  <2>1. lock # r /\ UNCHANGED lock
    BY <1>3 DEF SendInvite, TypeOK
  <2>2. PICK step \in {"withdraw", "answer"} : Goto(r, step)
    BY <1>3 DEF SendInvite
  <2> QED BY <2>1, <2>2, GotoSound DEF Steps, AboutMember
<1>4. CASE WithdrawInvite(r) \/ InviteStands(r)
  <2>1. lock # r /\ UNCHANGED lock
    BY <1>4 DEF WithdrawInvite, InviteStands, TypeOK
  <2>2. Goto(r, "unlist") \/ Ends(r)
    BY <1>4 DEF WithdrawInvite, InviteStands
  <2> QED BY <2>1, <2>2, GotoSound, EndsSound DEF Steps, AboutMember
<1> QED BY <1>1, <1>2, <1>3, <1>4 DEF Inviting

(* Nor do accepts, revocations and lists. *)
LEMMA AnsweringSound ==
    ASSUME TypeOK, NEW r \in Requests, Answering(r)
    PROVE  Sound(r)
<1> USE RequestFields
<1>1. ASSUME NEW u \in Users, NEW i \in Invites, AcceptInvite(r, u, i)
      PROVE  Sound(r)
  <2>1. Begins(r, "consume", u, invited[i], None, {i}) /\ invited[i] \in None..Admin
    BY <1>1 DEF AcceptInvite, TypeOK
  <2>2. lock # r /\ UNCHANGED lock
    BY <2>1 DEF Begins, TypeOK
  <2> QED BY <2>1, <2>2, BecomesSound DEF Begins, Steps, AboutMember, None, Admin
<1>2. CASE ConsumeInvite(r) \/ Unlist(r) \/ FindToken(r) \/ TakeToken(r) \/ WriteAccept(r)
  <2>1. lock # r /\ UNCHANGED lock
    BY <1>2 DEF ConsumeInvite, Unlist, FindToken, TakeToken, WriteAccept, TypeOK
  <2>2. \/ Ends(r)
        \/ \E step \in {"unlist", "getdel"} : Goto(r, step)
        \/ Goto(r, "see") /\ target[r] \in Users
    BY <1>2 DEF ConsumeInvite, Unlist, FindToken, TakeToken, WriteAccept
  <2> QED BY <2>1, <2>2, GotoSound, EndsSound DEF Steps, AboutMember
<1>3. CASE SeeMembership(r)
  <2>1. target[r] \in Users /\ lock # r /\ UNCHANGED lock
    BY <1>3 DEF SeeMembership, TypeOK, AboutMember
  <2>2. /\ role[target[r]] \in None..Admin
        /\ HigherRole(role[target[r]], want[r]) \in None..Admin
    BY <2>1 DEF TypeOK, HigherRole
  <2> QED BY <1>3, <2>1, <2>2, BecomesSound DEF SeeMembership, Steps, AboutMember
<1>4. ASSUME NEW u \in Users \cup {Super}, NEW i \in Invites, RevokeInvite(r, u, i)
      PROVE  Sound(r)
  <2>1. Begins(r, "hget", Nobody, None, None, {i})
    BY <1>4 DEF RevokeInvite
  <2>2. lock # r /\ UNCHANGED lock
    BY <2>1 DEF Begins, TypeOK
  <2>3. /\ "hget" \in Steps \ {"count", "write"} /\ "hget" \notin AboutMember
        /\ None \in None..Admin /\ {i} \in SUBSET Invites
    BY DEF Steps, AboutMember, None, Admin
  <2> QED BY <2>1, <2>2, <2>3, BecomesSound DEF Begins
<1>5. CASE ListPendingInvites(r)
  <2>1. Begins(r, "mget", Nobody, None, None, index) /\ index \in SUBSET Invites
    BY <1>5 DEF ListPendingInvites, TypeOK
  <2>2. lock # r /\ UNCHANGED lock
    BY <2>1 DEF Begins, TypeOK
  <2> QED BY <2>1, <2>2, BecomesSound DEF Begins, Steps, AboutMember, None, Admin
<1>6. CASE ReadListed(r)
  <2>1. lock # r /\ UNCHANGED lock /\ Stale(r) \in SUBSET Invites
    BY <1>6 DEF ReadListed, TypeOK, Stale
  <2>2. CASE Ends(r)
    BY <2>1, <2>2, EndsSound
  <2>3. CASE Becomes(r, "unlist", Nobody, None, None, Stale(r))
    <3>1. /\ "unlist" \in Steps \ {"count", "write"} /\ "unlist" \notin AboutMember
          /\ None \in None..Admin
      BY DEF Steps, AboutMember, None, Admin
    <3> QED BY <2>1, <2>3, <3>1, BecomesSound
  <2> QED BY <1>6, <2>2, <2>3 DEF ReadListed
<1> QED BY <1>1, <1>2, <1>3, <1>4, <1>5, <1>6 DEF Answering

(* A request that writes, and one that dies. *)
LEMMA WritingSound ==
    ASSUME TypeOK, NEW r \in Requests, Writing(r) \/ Dies(r)
    PROVE  Sound(r)
<1>1. ASSUME NEW u \in Users, BeginWrite(r, u)
      PROVE  Sound(r)
  <2>1. Begins(r, "take", u, None, None, {})
    BY <1>1 DEF BeginWrite
  <2>2. lock # r /\ UNCHANGED lock
    BY <2>1 DEF Begins, TypeOK
  <2> QED BY <2>1, <2>2, BecomesSound DEF Begins, Steps, AboutMember, None, Admin
<1>2. ASSUME NEW a \in Apps, TakeLease(r, a) PROVE Sound(r)
  BY <1>2, EndsSound DEF TakeLease, TypeOK
<1>3. CASE Dies(r)
  <2>1. CASE lock = r
    BY <1>3, <2>1, UnlockSound DEF Dies, Rollback
  <2>2. CASE lock # r
    BY <1>3, <2>2, EndsSound DEF Dies, Rollback
  <2> QED BY <2>1, <2>2
<1> QED BY <1>1, <1>2, <1>3 DEF Writing

(* Every step keeps the types. *)
LEMMA TypeStep ==
    ASSUME TypeOK, [Next]_vars
    PROVE  TypeOK'
<1> DEFINE Requested ==
      /\ LocalTyped /\ lock \in Requests \cup {Nobody}
      /\ \A s \in Requests : pc[s] \in AboutMember => target[s] \in Users
      /\ \A s \in Requests : lock = s <=> pc[s] \in {"count", "write"}
<1>1. Requested'
  <2>1. ASSUME NEW r \in Requests, Served(r)
        PROVE  Requested'
    <3>1. Sound(r)
      BY <2>1, ChangeSound, InvitingSound, AnsweringSound, WritingSound DEF Served
    <3>2. \A s \in Requests \ {r} : pc'[s] = pc[s] /\ target'[s] = target[s]
      BY <2>1, OthersWait
    <3> QED BY <3>1, <3>2 DEF Sound, TypeOK
  <2>2. CASE Unserved
    BY <2>2, NobodyServed DEF TypeOK, LocalTyped, local
  <2> QED BY <2>1, <2>2, WhoActs
<1>2. role' \in [Users -> None..Admin] /\ clobbered' \in BOOLEAN
  BY RowTypes
<1>3. InvitesTyped'
  BY InviteTypes
<1>4. lease' \in [Apps -> Users \cup {Nobody}] /\ excused' \subseteq Apps
  BY LeaseTypes
<1> QED BY <1>1, <1>2, <1>3, <1>4 DEF TypeOK, InvitesTyped, LocalTyped

-----------------------------------------------------------------------------
(* The last admin.                                                         *)

(* How a transaction comes to be about to write. *)
LEMMA AboutToWrite ==
    ASSUME TypeOK, [Next]_vars, NEW s \in Requests, pc'[s] = "write"
    PROVE  \/ pc[s] = "write" /\ target'[s] = target[s]
           \/ MemberRole(s) /\ target'[s] = target[s] /\ role[target[s]] # Admin
           \/ AdminCount(s) /\ target'[s] = target[s] /\ \E u, v \in Admins : u # v
<1> DEFINE Q == \/ pc[s] = "write" /\ target'[s] = target[s]
                \/ MemberRole(s) /\ target'[s] = target[s] /\ role[target[s]] # Admin
                \/ AdminCount(s) /\ target'[s] = target[s] /\ \E u, v \in Admins : u # v
<1> USE DEF TypeOK, Becomes, Begins, Goto, Ends
<1>1. ASSUME NEW r \in Requests, r # s, Served(r)
      PROVE  Q
  BY <1>1, OthersWait
<1>2. ASSUME Changes(s) PROVE Q
  <2>1. ASSUME MemberRole(s) PROVE Q
    BY <2>1 DEF MemberRole
  <2>2. ASSUME AdminCount(s) PROVE Q
    BY <2>2 DEF AdminCount
  <2> QED BY <1>2, <2>1, <2>2 DEF Changes, ChangeMemberRole, RemoveMember,
              WriteMembership, ReleaseLease, ReleaseFails
<1>3. ASSUME Inviting(s) PROVE Q
  BY <1>3 DEF Inviting, InviteMember, SetLink, SetIndex, RenewIndex, SendInvite,
              WithdrawInvite, InviteStands
<1>4. ASSUME Answering(s) PROVE Q
  BY <1>4 DEF Answering, AcceptInvite, ConsumeInvite, Unlist, SeeMembership,
              WriteAccept, RevokeInvite, FindToken, TakeToken, ListPendingInvites, ReadListed
<1>5. ASSUME Writing(s) \/ Dies(s) PROVE Q
  BY <1>5 DEF Writing, BeginWrite, TakeLease, Dies
<1>6. ASSUME Unserved PROVE Q
  BY <1>6, NobodyServed DEF local
<1> HIDE DEF Q
<1>7. Served(s) => Q
  BY <1>2, <1>3, <1>4, <1>5, Zenon DEF Served
<1>8. Q
  BY <1>1, <1>6, <1>7, WhoActs, Zenon
<1> QED BY <1>8 DEF Q

(* Only an accept that overwrites an admin's row can leave none. *)
LEMMA AdminStep ==
    ASSUME TypeOK, AdminsLostByAccept, AnotherAdmin, [Next]_vars
    PROVE  AdminsLostByAccept' /\ AnotherAdmin'
<1>1. CASE UNCHANGED <<role, clobbered>>
  <2>1. AdminsLostByAccept'
    BY <1>1 DEF AdminsLostByAccept, Admins
  <2>2. ASSUME NEW s \in Requests, pc'[s] = "write"
        PROVE  clobbered \/ \E u \in Users : u # target'[s] /\ role[u] = Admin
    <3>1. CASE pc[s] = "write" /\ target'[s] = target[s]
      BY <3>1 DEF AnotherAdmin
    <3>2. CASE target'[s] = target[s] /\ role[target[s]] # Admin
      BY <3>2 DEF AdminsLostByAccept, Admins
    <3>3. CASE target'[s] = target[s] /\ \E u, v \in Admins : u # v
      BY <3>3 DEF Admins
    <3> QED BY <2>2, <3>1, <3>2, <3>3, AboutToWrite
  <2>3. AnotherAdmin'
    BY <1>1, <2>2 DEF AnotherAdmin
  <2> QED BY <2>1, <2>3
<1>2. ASSUME NEW r \in Requests, WriteMembership(r)
      PROVE  AdminsLostByAccept' /\ AnotherAdmin'
  <2>1. pc[r] = "write" /\ lock = r /\ lock' = Nobody /\ UNCHANGED clobbered
    BY <1>2 DEF WriteMembership, TypeOK
  <2>2. TypeOK'
    BY TypeStep
  <2>3. \A s \in Requests : pc'[s] # "write"
    BY <2>1, <2>2, PeopleAssumption DEF TypeOK
  <2>4. clobbered \/ \E u \in Users : u # target[r] /\ role[u] = Admin
    BY <2>1 DEF AnotherAdmin
  <2>5. \A u \in Users : u # target[r] => role'[u] = role[u]
    BY <1>2 DEF WriteMembership, TypeOK
  <2>6. AdminsLostByAccept'
    BY <2>1, <2>4, <2>5 DEF AdminsLostByAccept, Admins
  <2> QED BY <2>3, <2>6 DEF AnotherAdmin
<1>3. ASSUME NEW r \in Requests, WriteAccept(r)
      PROVE  AdminsLostByAccept' /\ AnotherAdmin'
  <2>1. ASSUME NEW u \in Users, role[u] = Admin, ~clobbered'
        PROVE  role'[u] = Admin
    BY <1>3, <2>1 DEF WriteAccept, TypeOK
  <2>2. clobbered => clobbered'
    BY <1>3 DEF WriteAccept
  <2>3. AdminsLostByAccept'
    BY <2>1, <2>2 DEF AdminsLostByAccept, Admins
  <2>4. ASSUME NEW s \in Requests, pc'[s] = "write"
        PROVE  pc[s] = "write" /\ target'[s] = target[s]
    BY <1>3, <2>4 DEF WriteAccept, Ends, Becomes, TypeOK
  <2>5. AnotherAdmin'
    BY <2>1, <2>2, <2>4 DEF AnotherAdmin
  <2> QED BY <2>3, <2>5
<1> QED BY <1>1, <1>2, <1>3, RowsChange

-----------------------------------------------------------------------------
(* Leases.                                                                 *)

Releasing(s, a) == pc[s] = "release" /\ target[s] = lease[a] /\ a \in todo[s]

Followed(a) ==
    lease[a] # Nobody /\ role[lease[a]] < Editor =>
        a \in excused \/ \E s \in Requests : Releasing(s, a)

(* A release under way goes on until it is done, fails or dies. *)
LEMMA ReleaseGoesOn ==
    ASSUME TypeOK, NEW s \in Requests, pc[s] = "release", Served(s)
    PROVE  ReleaseFails(s) \/ Dies(s) \/ \E a \in Apps : ReleaseLease(s, a)
<1>1. CASE Changes(s)
  BY <1>1 DEF Changes, ChangeMemberRole, RemoveMember, MemberRole, AdminCount,
              WriteMembership, Begins
<1>2. CASE Inviting(s)
  BY <1>2 DEF Inviting, InviteMember, SetLink, SetIndex, RenewIndex, SendInvite,
              WithdrawInvite, InviteStands, Begins
<1>3. CASE Answering(s)
  BY <1>3 DEF Answering, AcceptInvite, ConsumeInvite, Unlist, SeeMembership,
              WriteAccept, RevokeInvite, FindToken, TakeToken, ListPendingInvites, ReadListed,
              Begins
<1>4. CASE Writing(s)
  BY <1>4 DEF Writing, BeginWrite, TakeLease, Begins
<1> QED BY <1>1, <1>2, <1>3, <1>4 DEF Served

(* A lease that stays, and whose holder keeps the role, is still followed: the
   request that is to release it is not the one that acts. *)
LEMMA StillFollowed ==
    ASSUME TypeOK, NEW a \in Apps, Followed(a), NEW r \in Requests, Served(r),
           lease'[a] = lease[a], lease[a] # Nobody => role'[lease[a]] = role[lease[a]],
           a \in excused => a \in excused', ~Releasing(r, a)
    PROVE  Followed(a)'
BY OthersWait DEF Followed, Releasing

(* A lease follows its holder's role. *)
LEMMA LeaseStep ==
    ASSUME TypeOK, LeasesFollowRoles, AcceptWant, [Next]_vars
    PROVE  LeasesFollowRoles'
<1> SUFFICES ASSUME NEW a \in Apps PROVE Followed(a)'
  BY DEF LeasesFollowRoles, Followed, Releasing
<1>1. Followed(a)
  BY DEF LeasesFollowRoles, Followed, Releasing
<1>2. ASSUME NEW r \in Requests, ReleaseFails(r) \/ Dies(r)
      PROVE  Followed(a)'
  <2>1. Served(r) /\ lease' = lease /\ role' = role /\ excused \subseteq excused'
    BY <1>2 DEF ReleaseFails, Dies, Served, Changes
  <2>2. CASE Releasing(r, a)
    BY <1>2, <2>2 DEF ReleaseFails, Dies, Releasing, Followed
  <2>3. CASE ~Releasing(r, a)
    BY <1>1, <2>1, <2>3, StillFollowed
  <2> QED BY <2>2, <2>3
<1>3. ASSUME NEW r \in Requests, NEW b \in Apps, ReleaseLease(r, b)
      PROVE  Followed(a)'
  <2>1. /\ Served(r) /\ role' = role
        /\ lease[b] # target[r] => UNCHANGED <<lease, excused>>
    BY <1>3 DEF ReleaseLease, Served, Changes
  <2>2. CASE a = b /\ lease[a] = target[r]
    BY <1>3, <2>2 DEF ReleaseLease, TypeOK, Followed
  <2>3. CASE a = b /\ lease[a] # target[r]
    BY <1>1, <1>3, <2>1, <2>3, StillFollowed DEF ReleaseLease, Releasing
  <2>4. CASE a # b
    <3>1. lease'[a] = lease[a] /\ (a \in excused => a \in excused')
      BY <1>3, <2>4 DEF ReleaseLease, TypeOK
    <3>2. CASE Releasing(r, a)
      <4>1. todo[r] # {b}
        BY <2>4, <3>2 DEF Releasing
      <4>2. pc'[r] = pc[r] /\ target'[r] = target[r] /\ a \in todo'[r]
        BY <1>3, <2>4, <3>2, <4>1 DEF ReleaseLease, Releasing, TypeOK
      <4> QED BY <3>1, <3>2, <4>2 DEF Releasing, Followed
    <3>3. CASE ~Releasing(r, a)
      BY <1>1, <2>1, <3>1, <3>3, StillFollowed DEF ReleaseLease
    <3> QED BY <3>2, <3>3
  <2> QED BY <2>2, <2>3, <2>4
<1>4. ASSUME NEW r \in Requests, NEW b \in Apps, TakeLease(r, b)
      PROVE  Followed(a)'
  <2>1. Served(r) /\ role' = role /\ ~Releasing(r, a) /\ target[r] \in Users
    BY <1>4 DEF TakeLease, Served, Writing, Releasing, TypeOK, AboutMember
  <2>2. CASE a = b
    BY <1>4, <2>1, <2>2 DEF TakeLease, TypeOK, Followed, Editor, None, Admin
  <2>3. CASE a # b
    BY <1>1, <1>4, <2>1, <2>3, StillFollowed DEF TakeLease, TypeOK
  <2> QED BY <2>2, <2>3
<1>5. ASSUME NEW b \in Apps, LeaseEnds(b)
      PROVE  Followed(a)'
  <2>1. UNCHANGED <<local, role>>
    BY <1>5 DEF LeaseEnds
  <2>2. CASE a = b
    BY <1>5, <2>2 DEF LeaseEnds, TypeOK, Followed
  <2>3. CASE a # b
    BY <1>1, <1>5, <2>1, <2>3 DEF LeaseEnds, TypeOK, Followed, Releasing, local
  <2> QED BY <2>2, <2>3
<1>6. ASSUME NEW r \in Requests, WriteMembership(r)
      PROVE  Followed(a)'
  <2>1. /\ Served(r) /\ UNCHANGED <<lease, excused>> /\ ~Releasing(r, a)
        /\ target[r] \in Users
    BY <1>6 DEF WriteMembership, Served, Changes, Releasing, TypeOK, AboutMember
  <2>2. CASE lease[a] # target[r] \/ role[target[r]] = None
    <3>1. lease[a] # Nobody => role'[lease[a]] = role[lease[a]]
      BY <1>6, <2>2 DEF WriteMembership, TypeOK
    <3> QED BY <1>1, <2>1, <3>1, StillFollowed
  <2>3. CASE lease[a] = target[r] /\ role[target[r]] # None
    <3>1. role'[target[r]] = want[r]
      BY <1>6, <2>1, <2>3 DEF WriteMembership, TypeOK
    <3>2. CASE want[r] < Editor
      <4>1. pc'[r] = "release" /\ target'[r] = target[r] /\ todo'[r] = Apps
        BY <1>6, <3>2 DEF WriteMembership, Releases, TypeOK
      <4> QED BY <2>1, <2>3, <4>1 DEF Followed, Releasing
    <3> QED BY <2>1, <2>3, <3>1, <3>2 DEF Followed
  <2> QED BY <2>2, <2>3
<1>7. ASSUME NEW r \in Requests, WriteAccept(r)
      PROVE  Followed(a)'
  <2>1. /\ Served(r) /\ UNCHANGED <<lease, excused>> /\ ~Releasing(r, a)
        /\ target[r] \in Users /\ role'[target[r]] = AcceptedRole(r)
    BY <1>7 DEF WriteAccept, Served, Answering, Releasing, TypeOK, AboutMember
  <2>2. CASE lease[a] # target[r] \/ AcceptedRole(r) = role[target[r]]
    <3>1. lease[a] # Nobody => role'[lease[a]] = role[lease[a]]
      BY <1>7, <2>1, <2>2 DEF WriteAccept, TypeOK
    <3> QED BY <1>1, <2>1, <3>1, StillFollowed
  <2>3. CASE lease[a] = target[r] /\ AcceptedRole(r) # role[target[r]]
    <3>1. read[r] \in None..Admin /\ want[r] \in None..Admin /\ want[r] >= read[r]
      BY <1>7 DEF TypeOK, AcceptWant, WriteAccept
    <3>2. CASE read[r] # None
      BY <2>1, <2>3, <3>1, <3>2 DEF AcceptedRole, None, Editor, Admin, Followed
    <3>3. CASE read[r] = None
      <4>1. role[target[r]] = None
        BY <2>3, <3>3 DEF AcceptedRole
      <4>2. CASE ~(role'[target[r]] < Editor)
        BY <2>1, <2>3, <4>2 DEF Followed
      <4>3. \A s \in Requests : Releasing(s, a) => Releasing(s, a)'
        BY <2>1, OthersWait DEF Releasing
      <4>4. a \in excused \/ \E s \in Requests : Releasing(s, a) \/ lease[a] = Nobody
        BY <1>1, <4>1, <2>3 DEF Followed, None, Editor
      <4> QED BY <2>1, <4>3, <4>4, PeopleAssumption DEF Followed
    <3> QED BY <3>2, <3>3
  <2> QED BY <2>2, <2>3
<1>8. CASE UNCHANGED <<lease, excused, role>>
  <2>1. ASSUME NEW r \in Requests, Served(r) PROVE Followed(a)'
    <3>1. CASE Releasing(r, a)
      BY <1>2, <1>3, <2>1, <3>1, ReleaseGoesOn DEF Releasing
    <3>2. CASE ~Releasing(r, a)
      BY <1>1, <1>8, <2>1, <3>2, StillFollowed
    <3> QED BY <3>1, <3>2
  <2>2. CASE Unserved
    BY <1>1, <1>8, <2>2, NobodyServed DEF Followed, Releasing, local
  <2> QED BY <2>1, <2>2, WhoActs
<1> QED BY <1>2, <1>3, <1>4, <1>5, <1>6, <1>7, <1>8, RowsChange, LeasesChange

-----------------------------------------------------------------------------
(* Invites.                                                                *)

(* What is made stays made; only the link of a fresh id is set. *)
LEMMA MadeStays ==
    ASSUME TypeOK, Fresh, [Next]_vars
    PROVE  /\ \A i \in Invites : Made(i) => Made(i)'
           /\ \A i \in Invites : Made(i) /\ i \notin link => i \notin link'
<1>1. ASSUME NEW r \in Requests, SetLink(r)
      PROVE  /\ \A i \in Invites : Made(i) => Made(i)'
             /\ \A i \in Invites : Made(i) /\ i \notin link => i \notin link'
  <2>1. IdsOf(r) /\ pc[r] = "set"
    BY <1>1 DEF Fresh, SetLink
  <2> QED BY <1>1, <2>1 DEF SetLink, IdsOf, Made, TypeOK
<1>2. ASSUME NEW r \in Requests,
             \/ SetIndex(r) \/ RenewIndex(r) \/ WithdrawInvite(r) \/ InviteStands(r)
             \/ \E sent, arrived \in BOOLEAN : SendInvite(r, sent, arrived)
             \/ ConsumeInvite(r) \/ Unlist(r) \/ TakeToken(r)
      PROVE  invited' = invited /\ link' \subseteq link
  BY <1>2 DEF SetIndex, RenewIndex, WithdrawInvite, InviteStands, SendInvite, ConsumeInvite,
              Unlist, TakeToken
<1>3. ASSUME IndexExpires \/ UNCHANGED store \/ \E i \in Invites : LinkExpires(i)
      PROVE  invited' = invited /\ link' \subseteq link
  BY <1>3 DEF IndexExpires, LinkExpires, store
<1>4. ASSUME invited' = invited, link' \subseteq link
      PROVE  /\ \A i \in Invites : Made(i) => Made(i)'
             /\ \A i \in Invites : Made(i) /\ i \notin link => i \notin link'
  BY <1>4 DEF Made
<1> QED BY <1>1, <1>2, <1>3, <1>4, InvitesChange

(* What the keys list has been made. *)
LEMMA KnownStep ==
    ASSUME TypeOK, Fresh, [Next]_vars
    PROVE  KnownMade'
<1> USE RequestFields, MadeStays
<1>1. ASSUME UNCHANGED store \/ IndexExpires \/ \E i \in Invites : LinkExpires(i)
      PROVE  KnownMade'
  BY <1>1 DEF KnownMade, Fresh, store, IndexExpires, LinkExpires, Made
<1>2. ASSUME NEW r \in Requests, SetLink(r) PROVE KnownMade'
  <2>1. \A i \in ids[r] : Made(i)'
    BY <1>2 DEF SetLink, Fresh, IdsOf, Made, TypeOK
  <2> QED BY <1>2, <2>1 DEF SetLink, KnownMade, Fresh, TypeOK
<1>3. ASSUME NEW r \in Requests, pc[r] \notin {"set", "hget"},
             \/ SetIndex(r) \/ RenewIndex(r) \/ WithdrawInvite(r) \/ InviteStands(r)
             \/ \E sent, arrived \in BOOLEAN : SendInvite(r, sent, arrived)
             \/ ConsumeInvite(r) \/ Unlist(r) \/ TakeToken(r)
      PROVE  KnownMade'
  <2>1. \A i \in ids[r] : Made(i)
    BY <1>3 DEF Fresh, IdsOf
  <2>2. invited' = invited
    BY <1>3 DEF SetIndex, RenewIndex, WithdrawInvite, InviteStands, SendInvite, ConsumeInvite,
                Unlist, TakeToken
  <2>3. link' \cup index' \cup lasting' \cup told' \cup revoked' \cup granted'
          \subseteq link \cup index \cup lasting \cup told \cup revoked \cup granted \cup ids[r]
    <3>1. CASE SetIndex(r) \/ RenewIndex(r) \/ WithdrawInvite(r) \/ InviteStands(r)
      BY <3>1 DEF SetIndex, RenewIndex, WithdrawInvite, InviteStands
    <3>2. CASE \E sent, arrived \in BOOLEAN : SendInvite(r, sent, arrived)
      BY <3>2 DEF SendInvite
    <3>3. CASE ConsumeInvite(r) \/ Unlist(r) \/ TakeToken(r)
      BY <3>3 DEF ConsumeInvite, Unlist, TakeToken
    <3> QED BY <1>3, <3>1, <3>2, <3>3
  <2> QED BY <2>1, <2>2, <2>3 DEF KnownMade, Fresh, Made
<1>4. ASSUME NEW r \in Requests,
             \/ SetIndex(r) \/ RenewIndex(r) \/ WithdrawInvite(r) \/ InviteStands(r)
             \/ \E sent, arrived \in BOOLEAN : SendInvite(r, sent, arrived)
             \/ ConsumeInvite(r) \/ Unlist(r) \/ TakeToken(r)
      PROVE  pc[r] \notin {"set", "hget"}
  BY <1>4 DEF SetIndex, RenewIndex, WithdrawInvite, InviteStands, SendInvite, ConsumeInvite,
              Unlist, TakeToken
<1> QED BY <1>1, <1>2, <1>3, <1>4, InvitesChange

(* A request that goes on with the ids it had, or with none. *)
LEMMA IdsCarried ==
    ASSUME TypeOK, Fresh, [Next]_vars, NEW r \in Requests,
           \/ ids'[r] = {}
           \/ ids'[r] = ids[r] /\ pc[r] \notin {"set", "hget"},
           pc'[r] # "set", pc'[r] = "unlist" => ids'[r] \cap link' = {}
    PROVE  IdsOf(r)'
<1>1. ids[r] \subseteq Invites
  BY RequestFields
<1> QED BY <1>1, MadeStays DEF Fresh, IdsOf, Made

LEMMA IdsChanges ==
    ASSUME TypeOK, Fresh, [Next]_vars, NEW r \in Requests, Changes(r)
    PROVE  IdsOf(r)'
<1> USE IdsCarried DEF TypeOK
<1>1. CASE \E u \in Users \cup {Super}, v \in Users, to \in Roles : ChangeMemberRole(r, u, v, to)
  BY <1>1 DEF ChangeMemberRole, Begins, Becomes
<1>2. CASE \E u \in Users \cup {Super}, v \in Users : RemoveMember(r, u, v)
  BY <1>2 DEF RemoveMember, Begins, Becomes
<1>3. CASE MemberRole(r)
  BY <1>3 DEF MemberRole, Ends, Becomes
<1>4. CASE AdminCount(r)
  BY <1>4 DEF AdminCount, Goto, Ends, Becomes
<1>5. CASE WriteMembership(r)
  BY <1>5 DEF WriteMembership, Ends, Becomes
<1>6. CASE \E a \in Apps : ReleaseLease(r, a)
  BY <1>6 DEF ReleaseLease, Ends, Becomes
<1>7. CASE ReleaseFails(r)
  BY <1>7 DEF ReleaseFails, Ends, Becomes
<1> QED BY <1>1, <1>2, <1>3, <1>4, <1>5, <1>6, <1>7 DEF Changes

LEMMA IdsInviting ==
    ASSUME TypeOK, Fresh, [Next]_vars, NEW r \in Requests, Inviting(r)
    PROVE  IdsOf(r)'
<1>1. ASSUME NEW u \in Users \cup {Super}, NEW i \in Invites, NEW to \in Roles,
             NEW mustDeliver \in BOOLEAN, InviteMember(r, u, i, to, mustDeliver)
      PROVE  IdsOf(r)'
  <2>1. pc'[r] = "set" /\ ids'[r] = {i} /\ want'[r] = to /\ invited'[i] = None
    BY <1>1 DEF InviteMember, Begins, Becomes, TypeOK, store
  <2> QED BY <2>1 DEF IdsOf, Made, Roles, Viewer, Admin, None
<1>2. CASE SetLink(r)
  <2>1. pc'[r] = "hset" /\ ids'[r] = ids[r] /\ \A i \in ids[r] : invited'[i] # None
    BY <1>2, RequestFields DEF SetLink, Goto, TypeOK, Fresh, IdsOf
  <2> QED BY <2>1 DEF IdsOf, Made
<1>3. CASE SetIndex(r) \/ RenewIndex(r) \/ InviteStands(r)
  BY <1>3, IdsCarried DEF SetIndex, RenewIndex, InviteStands, Goto, Ends, Becomes, TypeOK
<1>4. CASE \E sent, arrived \in BOOLEAN : SendInvite(r, sent, arrived)
  BY <1>4, IdsCarried DEF SendInvite, Goto, TypeOK
<1>5. CASE WithdrawInvite(r)
  BY <1>5, IdsCarried DEF WithdrawInvite, Goto, Ends, Becomes, TypeOK
<1> QED BY <1>1, <1>2, <1>3, <1>4, <1>5 DEF Inviting

LEMMA IdsAnswering ==
    ASSUME TypeOK, Fresh, [Next]_vars, NEW r \in Requests, Answering(r)
    PROVE  IdsOf(r)'
<1>1. ASSUME NEW u \in Users, NEW i \in Invites, AcceptInvite(r, u, i) PROVE IdsOf(r)'
  <2>1. pc'[r] = "consume" /\ ids'[r] = {i} /\ invited' = invited /\ Made(i)
    BY <1>1 DEF AcceptInvite, Begins, Becomes, TypeOK, store, Fresh, KnownMade
  <2> QED BY <2>1 DEF IdsOf, Made
<1>2. CASE ConsumeInvite(r)
  BY <1>2, IdsCarried DEF ConsumeInvite, Goto, Ends, Becomes, TypeOK
<1>3. CASE Unlist(r)
  BY <1>3, IdsCarried DEF Unlist, Goto, Ends, Becomes, TypeOK
<1>4. CASE SeeMembership(r) \/ WriteAccept(r)
  BY <1>4, IdsCarried DEF SeeMembership, WriteAccept, Ends, Becomes, TypeOK
<1>5. ASSUME NEW u \in Users \cup {Super}, NEW i \in Invites, RevokeInvite(r, u, i)
      PROVE  IdsOf(r)'
  BY <1>5 DEF RevokeInvite, Begins, Becomes, TypeOK, IdsOf
<1>6. CASE FindToken(r)
  <2>1. CASE Ends(r)
    BY <2>1, IdsCarried DEF Ends, Becomes, TypeOK
  <2>2. CASE ids[r] \subseteq index /\ Goto(r, "getdel")
    <3>1. \A i \in ids[r] : Made(i)
      BY <2>2 DEF Fresh, KnownMade
    <3>2. pc'[r] = "getdel" /\ ids'[r] = ids[r] /\ invited' = invited
      BY <1>6, <2>2 DEF FindToken, Goto, TypeOK, store
    <3> QED BY <3>1, <3>2 DEF IdsOf, Made
  <2> QED BY <1>6, <2>1, <2>2 DEF FindToken
<1>7. CASE TakeToken(r)
  BY <1>7, IdsCarried DEF TakeToken, Goto, TypeOK
<1>8. CASE ListPendingInvites(r)
  <2>1. pc'[r] = "mget" /\ ids'[r] = index /\ invited' = invited
    BY <1>8 DEF ListPendingInvites, Begins, Becomes, TypeOK, store
  <2> QED BY <2>1 DEF IdsOf, Made, Fresh, KnownMade
<1>9. CASE ReadListed(r)
  <2>1. CASE Ends(r)
    BY <2>1, IdsCarried DEF Ends, Becomes, TypeOK
  <2>2. CASE Becomes(r, "unlist", Nobody, None, None, Stale(r))
    <3>1. /\ pc'[r] = "unlist" /\ ids'[r] = ids[r] \ link
          /\ invited' = invited /\ link' = link
      BY <1>9, <2>2 DEF ReadListed, Becomes, Stale, TypeOK, store
    <3>2. \A i \in ids[r] : Made(i)
      BY <1>9 DEF ReadListed, Fresh, IdsOf
    <3> QED BY <3>1, <3>2 DEF IdsOf, Made
  <2> QED BY <1>9, <2>1, <2>2 DEF ReadListed
<1> QED BY <1>1, <1>2, <1>3, <1>4, <1>5, <1>6, <1>7, <1>8, <1>9 DEF Answering

(* Only the creation of an invite writes its role. *)
LEMMA InvitedChanges ==
    ASSUME [Next]_vars, NEW r \in Requests, Served(r), TypeOK
    PROVE  SetLink(r) \/ invited' = invited
<1>1. CASE Changes(r)
  BY <1>1, Zenon DEF Changes, ChangeMemberRole, RemoveMember, MemberRole, AdminCount,
              WriteMembership, ReleaseLease, ReleaseFails, Begins, store
<1>2. CASE Inviting(r)
  BY <1>2, Zenon DEF Inviting, InviteMember, SetIndex, RenewIndex, SendInvite,
              WithdrawInvite, InviteStands, Begins, store
<1>3. CASE Answering(r)
  BY <1>3, Zenon DEF Answering, AcceptInvite, ConsumeInvite, Unlist, SeeMembership,
              WriteAccept, RevokeInvite, FindToken, TakeToken, ListPendingInvites, ReadListed,
              Begins, store
<1>4. CASE Writing(r) \/ Dies(r)
  BY <1>4, Zenon DEF Writing, BeginWrite, TakeLease, Dies, Begins, store
<1> QED BY <1>1, <1>2, <1>3, <1>4 DEF Served

(* A request that is to set a link has just begun, by an id no other has. *)
LEMMA SetBegins ==
    ASSUME TypeOK, NEW r \in Requests, Served(r), pc'[r] = "set",
           NEW s \in Requests, s # r, pc[s] = "set"
    PROVE  ids'[r] \cap ids[s] = {}
<1>1. CASE Inviting(r)
  <2>1. ASSUME NEW u \in Users \cup {Super}, NEW i \in Invites, NEW to \in Roles,
               NEW mustDeliver \in BOOLEAN, InviteMember(r, u, i, to, mustDeliver)
        PROVE  ids'[r] \cap ids[s] = {}
    <3>1. ids'[r] = {i}
      BY <2>1 DEF InviteMember, Begins, Becomes, TypeOK
    <3>2. i \notin ids[s]
      BY <2>1 DEF InviteMember
    <3> QED BY <3>1, <3>2
  <2>2. ~(\/ SetLink(r) \/ SetIndex(r) \/ RenewIndex(r) \/ WithdrawInvite(r) \/ InviteStands(r)
          \/ \E sent, arrived \in BOOLEAN : SendInvite(r, sent, arrived))
    <3>1. ~SetLink(r) /\ ~SetIndex(r) /\ ~RenewIndex(r)
      BY DEF SetLink, SetIndex, RenewIndex, Goto, TypeOK
    <3>2. ~WithdrawInvite(r) /\ ~InviteStands(r)
      BY DEF WithdrawInvite, InviteStands, Goto, Ends, Becomes, TypeOK
    <3>3. ~\E sent, arrived \in BOOLEAN : SendInvite(r, sent, arrived)
      BY DEF SendInvite, Goto, TypeOK
    <3> QED BY <3>1, <3>2, <3>3
  <2> QED BY <1>1, <2>1, <2>2, Zenon DEF Inviting
<1> USE DEF TypeOK, Becomes, Begins, Goto, Ends
<1>2. CASE Changes(r)
  BY <1>2 DEF Changes, ChangeMemberRole, RemoveMember, MemberRole, AdminCount,
              WriteMembership, ReleaseLease, ReleaseFails
<1>3. CASE Answering(r)
  BY <1>3 DEF Answering, AcceptInvite, ConsumeInvite, Unlist, SeeMembership,
              WriteAccept, RevokeInvite, FindToken, TakeToken, ListPendingInvites, ReadListed
<1>4. CASE Writing(r) \/ Dies(r)
  BY <1>4 DEF Writing, BeginWrite, TakeLease, Dies
<1> QED BY <1>1, <1>2, <1>3, <1>4 DEF Served

(* Every request's ids are fresh, or made. *)
LEMMA FreshStep ==
    ASSUME TypeOK, Fresh, [Next]_vars
    PROVE  Fresh'
<1>1. KnownMade'
  BY KnownStep
<1>2. CASE Unserved
  <2>1. UNCHANGED <<pc, want, ids>>
    BY <1>2, NobodyServed DEF local
  <2>2. invited' = invited /\ link' \subseteq link
    BY <1>2 DEF Unserved, LinkExpires, IndexExpires, LeaseEnds, vars, store
  <2> QED BY <1>1, <2>1, <2>2 DEF Fresh, IdsOf, Apart, Made
<1>3. ASSUME NEW r \in Requests, Served(r)
      PROVE  Fresh'
  <2>1. IdsOf(r)'
    <3>1. CASE Writing(r) \/ Dies(r)
      BY <3>1, IdsCarried DEF Writing, BeginWrite, TakeLease, Dies, Begins, Ends, Becomes, TypeOK
    <3> QED BY <1>3, <3>1, IdsChanges, IdsInviting, IdsAnswering DEF Served
  <2>2. ASSUME NEW s \in Requests, s # r PROVE IdsOf(s)'
    <3>1. pc'[s] = pc[s] /\ ids'[s] = ids[s] /\ want'[s] = want[s] /\ ids[s] \subseteq Invites
      BY <1>3, <2>2, OthersWait, RequestFields
    <3>2. IdsOf(s)
      BY DEF Fresh
    <3>3. ASSUME pc[s] = "set" PROVE \A i \in ids[s] : ~Made(i)'
      <4>1. CASE SetLink(r)
        <5>1. pc[r] = "set" /\ ids[r] \cap ids[s] = {}
          BY <2>2, <3>3, <4>1 DEF SetLink, Fresh, Apart
        <5> QED BY <3>1, <3>2, <3>3, <4>1, <5>1 DEF SetLink, IdsOf, Made, TypeOK
      <4>2. CASE invited' = invited
        BY <3>2, <3>3, <4>2 DEF IdsOf, Made
      <4> QED BY <1>3, <4>1, <4>2, InvitedChanges
    <3> QED BY <3>1, <3>2, <3>3, MadeStays DEF IdsOf
  <2>3. ASSUME NEW s \in Requests, s # r PROVE Apart(r, s)' /\ Apart(s, r)'
    <3>1. pc'[s] = pc[s] /\ ids'[s] = ids[s]
      BY <1>3, <2>3, OthersWait
    <3>2. pc'[r] = "set" /\ pc[s] = "set" => ids'[r] \cap ids[s] = {}
      BY <1>3, <2>3, SetBegins DEF Fresh, Apart
    <3> QED BY <3>1, <3>2 DEF Apart
  <2>4. ASSUME NEW s \in Requests, NEW t \in Requests, s # r, t # r, s # t
        PROVE  Apart(s, t)'
    BY <1>3, <2>4, OthersWait DEF Fresh, Apart
  <2> QED BY <1>1, <2>1, <2>2, <2>3, <2>4 DEF Fresh
<1> QED BY <1>2, <1>3, WhoActs

(* What lasts in the index stays there while its link works, and what was
   revoked or accepted has no link. *)
LEMMA KeysStep ==
    ASSUME TypeOK, Fresh, Listed, RevokedNeverGrants, granted \cap link = {}, [Next]_vars
    PROVE  Listed' /\ RevokedNeverGrants' /\ granted' \cap link' = {}
<1> USE DEF Listed, RevokedNeverGrants
<1>1. CASE UNCHANGED store
  BY <1>1 DEF store
<1>2. ASSUME NEW r \in Requests, SetLink(r)
      PROVE  Listed' /\ RevokedNeverGrants' /\ granted' \cap link' = {}
  <2>1. \A i \in ids[r] : i \notin lasting \cup revoked \cup granted
    BY <1>2 DEF SetLink, Fresh, KnownMade, IdsOf
  <2> QED BY <1>2, <2>1 DEF SetLink
<1>3. ASSUME NEW r \in Requests,
             \/ SetIndex(r) \/ RenewIndex(r) \/ WithdrawInvite(r) \/ InviteStands(r)
             \/ \E sent, arrived \in BOOLEAN : SendInvite(r, sent, arrived)
      PROVE  Listed' /\ RevokedNeverGrants' /\ granted' \cap link' = {}
  BY <1>3 DEF SetIndex, RenewIndex, WithdrawInvite, InviteStands, SendInvite
<1>4. ASSUME NEW r \in Requests, ConsumeInvite(r)
      PROVE  Listed' /\ RevokedNeverGrants' /\ granted' \cap link' = {}
  BY <1>4 DEF ConsumeInvite
<1>5. ASSUME NEW r \in Requests, TakeToken(r)
      PROVE  Listed' /\ RevokedNeverGrants' /\ granted' \cap link' = {}
  BY <1>5 DEF TakeToken, Took
<1>6. ASSUME NEW r \in Requests, Unlist(r)
      PROVE  Listed' /\ RevokedNeverGrants' /\ granted' \cap link' = {}
  <2>1. ids[r] \cap link = {}
    BY <1>6 DEF Unlist, Fresh, IdsOf
  <2> QED BY <1>6, <2>1 DEF Unlist
<1>7. CASE IndexExpires \/ \E i \in Invites : LinkExpires(i)
  BY <1>7 DEF IndexExpires, LinkExpires
<1> QED BY <1>1, <1>2, <1>3, <1>4, <1>5, <1>6, <1>7, InvitesChange

(* What an accept is to write is not below what it has read. *)
LEMMA AcceptStep ==
    ASSUME TypeOK, AcceptWant, [Next]_vars
    PROVE  AcceptWant'
<1>1. ASSUME NEW r \in Requests, Served(r), pc'[r] = "accept"
      PROVE  want'[r] >= read'[r]
  <2>1. SeeMembership(r)
    <3> USE <1>1 DEF TypeOK, Becomes, Begins, Goto, Ends
    <3>1. CASE Changes(r)
      BY <3>1 DEF Changes, ChangeMemberRole, RemoveMember, MemberRole, AdminCount,
                  WriteMembership, ReleaseLease, ReleaseFails
    <3>2. CASE Inviting(r)
      BY <3>2 DEF Inviting, InviteMember, SetLink, SetIndex, RenewIndex, SendInvite,
                  WithdrawInvite, InviteStands
    <3>3. CASE Answering(r)
      BY <3>3 DEF Answering, AcceptInvite, ConsumeInvite, Unlist,
                  WriteAccept, RevokeInvite, FindToken, TakeToken, ListPendingInvites, ReadListed
    <3>4. CASE Writing(r) \/ Dies(r)
      BY <3>4 DEF Writing, BeginWrite, TakeLease, Dies
    <3> QED BY <3>1, <3>2, <3>3, <3>4 DEF Served
  <2>2. /\ want'[r] = HigherRole(role[target[r]], want[r])
        /\ read'[r] = role[target[r]]
        /\ role[target[r]] \in None..Admin /\ want[r] \in None..Admin
    BY <2>1 DEF SeeMembership, Becomes, TypeOK, AboutMember
  <2> QED BY <2>2 DEF HigherRole
<1>2. ASSUME NEW r \in Requests, Served(r), NEW s \in Requests, s # r, pc'[s] = "accept"
      PROVE  want'[s] >= read'[s]
  BY <1>2, OthersWait DEF AcceptWant
<1>3. CASE Unserved
  BY <1>3, NobodyServed DEF AcceptWant, local
<1> QED BY <1>1, <1>2, <1>3, WhoActs DEF AcceptWant

-----------------------------------------------------------------------------
(* The initial states. *)
LEMMA InitInv == Init => IInv
<1> SUFFICES ASSUME Init PROVE IInv
  OBVIOUS
<1> USE DEF Init
<1>1. TypeOK
  <2>1. role \in [Users -> None..Admin] /\ invited \in [Invites -> None..Admin]
    BY DEF None, Admin
  <2>2. LocalTyped /\ \A r \in Requests : pc[r] = "idle"
    BY DEF LocalTyped, Steps, None, Admin
  <2>3. \A r \in Requests : lock # r
    BY PeopleAssumption
  <2>4. lease \in [Apps -> Users \cup {Nobody}] /\ lock \in Requests \cup {Nobody}
    OBVIOUS
  <2> QED BY <2>1, <2>2, <2>3, <2>4 DEF TypeOK, LocalTyped, AboutMember
<1>2. AdminsLostByAccept /\ AnotherAdmin
  BY DEF AdminsLostByAccept, AnotherAdmin
<1>3. LeasesFollowRoles /\ AcceptWant
  BY DEF LeasesFollowRoles, AcceptWant
<1>4. Fresh /\ Listed /\ RevokedNeverGrants /\ granted \cap link = {}
  BY DEF Fresh, KnownMade, IdsOf, Apart, Listed, RevokedNeverGrants
<1> QED BY <1>1, <1>2, <1>3, <1>4 DEF IInv

(* Every step preserves the invariant. *)
LEMMA StepInv == IInv /\ [Next]_vars => IInv'
<1> SUFFICES ASSUME IInv, [Next]_vars PROVE IInv'
  OBVIOUS
<1> USE DEF IInv
<1>1. TypeOK'
  BY TypeStep
<1>2. AdminsLostByAccept' /\ AnotherAdmin'
  BY AdminStep
<1>3. LeasesFollowRoles'
  BY LeaseStep
<1>4. Fresh'
  BY FreshStep
<1>5. Listed' /\ RevokedNeverGrants' /\ granted' \cap link' = {}
  BY KeysStep
<1>6. AcceptWant'
  BY AcceptStep
<1> QED BY <1>1, <1>2, <1>3, <1>4, <1>5, <1>6

(* The invariant holds in every reachable state. *)
THEOREM Invariance == Spec => []IInv
BY InitInv, StepInv, PTL DEF Spec

(* The lock on the workspace's row is held by the one transaction that is about
   to count or to write, and every request is about a user where it needs one. *)
THEOREM WellTyped == Spec => []TypeOK
<1>1. IInv => TypeOK
  BY DEF IInv
<1> QED BY <1>1, Invariance, PTL

(* However many admins leave, remove or demote each other at once, a workspace
   without an admin is one whose admin an accept has overwritten. *)
THEOREM AdminsRemain == Spec => []AdminsLostByAccept
<1>1. IInv => AdminsLostByAccept
  BY DEF IInv
<1> QED BY <1>1, Invariance, PTL

(* A lease of somebody who may not write has one of the three causes. *)
THEOREM LeasesAreFollowed == Spec => []LeasesFollowRoles
<1>1. IInv => LeasesFollowRoles
  BY DEF IInv
<1> QED BY <1>1, Invariance, PTL

(* An invite that stands can be seen and revoked while its link works. *)
THEOREM OpenInvitesStayListed == Spec => []OpenInvitesListed
<1>1. IInv => OpenInvitesListed
  BY DEF IInv, Listed, OpenInvitesListed
<1> QED BY <1>1, Invariance, PTL

(* A revocation that was reported is final. *)
THEOREM RevocationIsFinal == Spec => []RevokedNeverGrants
<1>1. IInv => RevokedNeverGrants
  BY DEF IInv
<1> QED BY <1>1, Invariance, PTL

(* An accept lowers nobody's role, unless it was changed behind its back. *)
THEOREM AcceptsRaise == Spec => AcceptNeverLowers
<1>1. ASSUME IInv, Next, NEW r \in Requests, WriteAccept(r), role[target[r]] = read[r]
      PROVE  role'[target[r]] >= role[target[r]]
  <2>1. want[r] >= read[r] /\ want[r] \in None..Admin /\ target[r] \in Users
    BY <1>1 DEF IInv, AcceptWant, WriteAccept, TypeOK, AboutMember
  <2>2. role'[target[r]] = AcceptedRole(r) /\ read[r] \in None..Admin
    BY <1>1, <2>1 DEF WriteAccept, IInv, TypeOK
  <2>3. AcceptedRole(r) \in {want[r], read[r]}
    BY <1>1 DEF AcceptedRole
  <2> QED BY <1>1, <2>1, <2>2, <2>3 DEF None, Admin
<1>2. IInv /\ [Next]_vars =>
        [\A r \in Requests : WriteAccept(r) =>
            \/ role'[target[r]] >= role[target[r]]
            \/ role[target[r]] # read[r]]_vars
  BY <1>1
<1> QED BY <1>2, Invariance, PTL DEF Spec, AcceptNeverLowers
=============================================================================
