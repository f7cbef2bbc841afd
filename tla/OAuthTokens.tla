---------------------------- MODULE OAuthTokens ----------------------------
(***************************************************************************)
(* The token endpoint of the authorization server: packages/oauth/src.     *)
(*                                                                         *)
(* Postgres holds authorization codes, refresh-token rows linked into      *)
(* lineages by rotated_to, and the access token issued with each refresh   *)
(* row.  A request is a sequence of store calls, each of them one          *)
(* statement or one transaction; requests of several clients interleave    *)
(* between the calls, and a request may end anywhere (a database error, a   *)
(* restart, a lost response).                                              *)
(*                                                                         *)
(* One (user, client) pair is modelled: it is what revokeConnection and    *)
(* the doc's "other lineages of the same user and client" speak of.        *)
(* A refresh row's id is the code itself for the row a code exchange mints *)
(* (authCodeRefreshTokenId) and a fresh id for a successor.                *)
(*                                                                         *)
(* Left out: client-id mismatch and unknown-token refusals (they change    *)
(* nothing), access tokens issued before refresh_token_id existed, and the *)
(* expiry of access tokens (an expired one is refused whatever its row     *)
(* says), so "live" here means not revoked and not deleted.                *)
(***************************************************************************)
EXTENDS Integers, FiniteSets

CONSTANTS
    Codes,         \* ids of authorization codes
    FreshIds,      \* ids the database generates for refresh rows
    Requests,      \* requests the token endpoint serves at once
    Grace,         \* REFRESH_RETRY_GRACE_MS
    MaxHops,       \* REFRESH_RETRY_MAX_HOPS
    RefreshTtl,    \* REFRESH_TTL_MS
    CodeTtl,       \* AUTH_CODE_TTL_MS
    Keep,          \* EXPIRED_GRANT_KEEP_MS
    MaxTime,       \* bound: the clock stops here
    None           \* the SQL null

RowIds == Codes \cup FreshIds

ASSUME IdAssumption == Codes \cap FreshIds = {} /\ None \notin RowIds \cup Nat
ASSUME TimeAssumption ==
    {Grace, MaxHops, RefreshTtl, CodeTtl, Keep, MaxTime} \subseteq Nat

VARIABLES
    now,          \* the database's and the server's clock
    code,         \* status of each code
    codeExp,      \* its expires_at
    rows,         \* refresh rows that exist
    usedAt,       \* used_at, None while unused
    rotatedTo,    \* rotated_to
    expiresAt,    \* expires_at
    access,       \* the access token issued with a refresh row
    held,         \* refresh tokens a client got in a response
    pc,           \* next store call of a request
    at,           \* Date.now() captured when the request began
    start,        \* the presented refresh row, or the presented code
    cur,          \* the row the request works on
    hops,         \* rotated_to links followed
    seen,         \* rows revokeLineage has visited
    connPc,       \* next statement of revokeConnection
    doomed,       \* rows its DELETE statement's snapshot contains
    \* history of what happened; only the choice of a fresh id reads it
    origin,       \* the code whose exchange began a row's lineage, None before
    replayed,     \* codes presented again after they were consumed
    reused,       \* codes in whose lineage a reuse was detected
    burnt,        \* rows a finished revokeLineage went through
    cutOff        \* codes issued before a revokeConnection that committed

tables  == <<code, codeExp, rows, usedAt, rotatedTo, expiresAt, access>>
request == <<pc, at, start, cur, hops, seen>>
conn    == <<connPc, doomed>>
history == <<origin, replayed, reused, burnt, cutOff>>
vars    == <<now, tables, held, request, conn, history>>

Statuses == {"new", "unused", "used", "deleted"}
Pcs == {"idle", "consume", "spoil", "insert", "access", "respond", "find",
        "follow", "claim", "reread", "mark", "next", "revoke"}

TypeOK ==
    /\ now \in Nat
    /\ code \in [Codes -> Statuses]
    /\ codeExp \in [Codes -> Nat]
    /\ rows \subseteq RowIds
    /\ usedAt \in [RowIds -> Nat \cup {None}]
    /\ rotatedTo \in [RowIds -> RowIds \cup {None}]
    /\ expiresAt \in [RowIds -> Nat]
    /\ access \in [RowIds -> {"none", "live", "revoked"}]
    /\ held \subseteq RowIds
    /\ pc \in [Requests -> Pcs]
    /\ at \in [Requests -> Nat]
    /\ start \in [Requests -> RowIds \cup {None}]
    /\ cur \in [Requests -> RowIds \cup {None}]
    /\ hops \in [Requests -> Nat]
    /\ seen \in [Requests -> SUBSET RowIds]
    /\ connPc \in {"idle", "refresh", "access", "codes"}
    /\ doomed \subseteq RowIds
    /\ origin \in [RowIds -> Codes \cup {None}]
    /\ replayed \subseteq Codes
    /\ reused \subseteq Codes
    /\ burnt \subseteq RowIds
    /\ cutOff \subseteq Codes
    /\ \A p \in Requests : pc[p] # "idle" => start[p] # None /\ cur[p] # None

Init ==
    /\ now = 0
    /\ code = [c \in Codes |-> "new"]
    /\ codeExp = [c \in Codes |-> 0]
    /\ rows = {}
    /\ usedAt = [r \in RowIds |-> None]
    /\ rotatedTo = [r \in RowIds |-> None]
    /\ expiresAt = [r \in RowIds |-> 0]
    /\ access = [r \in RowIds |-> "none"]
    /\ held = {}
    /\ pc = [p \in Requests |-> "idle"]
    /\ at = [p \in Requests |-> 0]
    /\ start = [p \in Requests |-> None]
    /\ cur = [p \in Requests |-> None]
    /\ hops = [p \in Requests |-> 0]
    /\ seen = [p \in Requests |-> {}]
    /\ connPc = "idle"
    /\ doomed = {}
    /\ origin = [r \in RowIds |-> None]
    /\ replayed = {}
    /\ reused = {}
    /\ burnt = {}
    /\ cutOff = {}

Used(r) == usedAt[r] # None

-----------------------------------------------------------------------------
(* The conditions the handlers below decide on.  A definition whose name    *)
(* ends in Mutant is a deliberately wrong variant of the one after it, used *)
(* only to show that a property notices the difference.                     *)

(* rotateRefresh's UPDATE ... WHERE id = r AND used_at IS NULL *)
ClaimableMutant(r) == r \in rows
Claimable(r) == r \in rows /\ ~Used(r)

(* A used row that a request begun at t may pass on its way to the tail.    *)
WithinRetryMutant(r, t, h) == t - usedAt[r] < Grace /\ rotatedTo[r] # None /\ h < MaxHops
WithinRetry(r, t, h) == t - usedAt[r] <= Grace /\ rotatedTo[r] # None /\ h < MaxHops

(* The link revokeLineage goes on with, None when the chain ends.           *)
LinkAfterSkipsUsedMutant(p) ==
    IF /\ cur[p] \in rows /\ rotatedTo[cur[p]] \notin seen[p] \cup {None}
       /\ ~Used(rotatedTo[cur[p]])
    THEN rotatedTo[cur[p]] ELSE None
LinkAfter(p) ==
    IF cur[p] \in rows /\ rotatedTo[cur[p]] \notin seen[p] THEN rotatedTo[cur[p]] ELSE None

(* The refresh rows whose access tokens revokeLineage revokes.              *)
RevokedRowsMutant(p) == RowIds
RevokedRows(p) == seen[p]

(* pruneExpiredOAuth: the refresh rows past their keep that no unexpired    *)
(* row points at.                                                           *)
Pruned == {r \in rows :
              /\ expiresAt[r] + Keep < now
              /\ ~\E q \in rows : rotatedTo[q] = r /\ expiresAt[q] + Keep >= now}

-----------------------------------------------------------------------------
(* The locals of a request that stays at work: it goes on to `step` with    *)
(* row r, having followed h links.                                          *)
Goto(p, step, r, h) ==
    /\ pc' = [pc EXCEPT ![p] = step]
    /\ cur' = [cur EXCEPT ![p] = r]
    /\ hops' = [hops EXCEPT ![p] = h]

(* A request that ends keeps no locals. *)
Finish(p) ==
    /\ pc' = [pc EXCEPT ![p] = "idle"]
    /\ at' = [at EXCEPT ![p] = 0]
    /\ start' = [start EXCEPT ![p] = None]
    /\ cur' = [cur EXCEPT ![p] = None]
    /\ hops' = [hops EXCEPT ![p] = 0]
    /\ seen' = [seen EXCEPT ![p] = {}]

-----------------------------------------------------------------------------
(* Consent: a code is minted. *)
IssueAuthCode(c) ==
    /\ code[c] = "new"
    /\ code' = [code EXCEPT ![c] = "unused"]
    /\ codeExp' = [codeExp EXCEPT ![c] = now + CodeTtl]
    /\ UNCHANGED <<now, rows, usedAt, rotatedTo, expiresAt, access, held,
                   request, conn, history>>

(* The authorization_code grant reads the code row.  `valid` is what        *)
(* checkExchange says of redirect_uri, client and PKCE.                     *)
PresentCode(p, c, valid) ==
    /\ pc[p] = "idle"
    /\ code[c] \in {"unused", "used"}
    /\ pc' = [pc EXCEPT ![p] =
                CASE code[c] = "used" -> "find"
                  [] code[c] = "unused" /\ valid /\ codeExp[c] > now -> "consume"
                  [] OTHER -> "spoil"]
    /\ start' = [start EXCEPT ![p] = c]
    /\ cur' = [cur EXCEPT ![p] = c]
    /\ replayed' = IF code[c] = "used" THEN replayed \cup {c} ELSE replayed
    /\ UNCHANGED <<now, tables, held, at, hops, seen, conn,
                   origin, reused, burnt, cutOff>>

(* markAuthCodeUsed: won by the one request that finds the code unused; a   *)
(* loser's presentation is a replay.                                        *)
ConsumeCode(p) ==
    /\ pc[p] \in {"consume", "spoil"}
    /\ \/ /\ code[start[p]] = "unused" /\ pc[p] = "consume"
          /\ code' = [code EXCEPT ![start[p]] = "used"]
          /\ pc' = [pc EXCEPT ![p] = "insert"]
          /\ UNCHANGED <<at, start, cur, hops, seen, replayed>>
       \/ /\ code[start[p]] = "unused" /\ pc[p] = "spoil"
          /\ code' = [code EXCEPT ![start[p]] = "used"]
          /\ Finish(p)
          /\ UNCHANGED replayed
       \/ /\ code[start[p]] # "unused"
          /\ replayed' = replayed \cup {start[p]}
          /\ pc' = [pc EXCEPT ![p] = "find"]
          /\ UNCHANGED <<code, at, start, cur, hops, seen>>
    /\ UNCHANGED <<now, codeExp, rows, usedAt, rotatedTo, expiresAt, access,
                   held, conn, origin, reused, burnt, cutOff>>

(* issueAccessAndRefresh, first call: the lineage's first refresh row. *)
InsertFirst(p) ==
    /\ pc[p] = "insert"
    /\ LET c == start[p]
       IN /\ rows' = rows \cup {c}
          /\ usedAt' = [usedAt EXCEPT ![c] = None]
          /\ rotatedTo' = [rotatedTo EXCEPT ![c] = None]
          /\ expiresAt' = [expiresAt EXCEPT ![c] = now + RefreshTtl]
          /\ origin' = [origin EXCEPT ![c] = c]
    /\ pc' = [pc EXCEPT ![p] = "access"]
    /\ UNCHANGED <<now, code, codeExp, access, held, at, start, cur, hops, seen,
                   conn, replayed, reused, burnt, cutOff>>

(* insertAccessToken, after the refresh row `cur` in both grants. *)
InsertAccess(p) ==
    /\ pc[p] = "access"
    /\ access' = [access EXCEPT ![cur[p]] = "live"]
    /\ pc' = [pc EXCEPT ![p] = "respond"]
    /\ UNCHANGED <<now, code, codeExp, rows, usedAt, rotatedTo, expiresAt, held,
                   at, start, cur, hops, seen, conn, history>>

(* The response reaches the client: it now holds the refresh token. *)
Respond(p) ==
    /\ pc[p] = "respond"
    /\ held' = held \cup {cur[p]}
    /\ Finish(p)
    /\ UNCHANGED <<now, tables, conn, history>>

-----------------------------------------------------------------------------
(* The refresh_token grant: rotateTail.                                     *)

(* A refused rotation: reuse of the presented token's lineage.              *)
DetectReuse(p, presented, h) ==
    /\ Goto(p, "mark", presented, h)
    /\ reused' = reused \cup {origin[presented]}

(* The loop's body on the row r as it is now, `presented` being the row the *)
(* request presented, t its captured time and h the links followed.         *)
Examine(p, presented, r, t, h) ==
    \/ /\ r \in rows /\ ~Used(r) /\ expiresAt[r] > t
       /\ Goto(p, "claim", r, h)
       /\ UNCHANGED reused
    \/ /\ r \in rows /\ Used(r)
       /\ WithinRetry(r, t, h)
       /\ Goto(p, "follow", rotatedTo[r], h + 1)
       /\ UNCHANGED reused
    \/ /\ \/ r \notin rows
          \/ ~Used(r) /\ expiresAt[r] <= t
          \/ Used(r) /\ ~WithinRetry(r, t, h)
       /\ DetectReuse(p, presented, h)

(* Bound: a rotation begins only while the pool of ids can serve every      *)
(* rotation under way, so that no claim fails for want of an id.            *)
IdsLeft ==
    Cardinality({s \in FreshIds : origin[s] = None})
        > Cardinality({q \in Requests : pc[q] \in {"follow", "claim", "reread"}})

(* findRefreshTokenByHash; an unknown or expired token changes nothing. *)
PresentRefresh(p, r) ==
    /\ pc[p] = "idle"
    /\ IdsLeft
    /\ r \in held \cap rows
    /\ expiresAt[r] > now
    /\ at' = [at EXCEPT ![p] = now]
    /\ start' = [start EXCEPT ![p] = r]
    /\ Examine(p, r, r, now, 0)
    /\ UNCHANGED <<now, tables, held, seen, conn, origin, replayed, burnt, cutOff>>

(* findRefreshTokenById of the successor. *)
Follow(p) ==
    /\ pc[p] = "follow"
    /\ Examine(p, start[p], cur[p], at[p], hops[p])
    /\ UNCHANGED <<now, tables, held, at, start, seen, conn,
                   origin, replayed, burnt, cutOff>>

(* rotateRefresh: one transaction stamps used_at, inserts the successor and *)
(* links it, unless the row is used or gone by now.                         *)
Claim(p) ==
    /\ pc[p] = "claim"
    /\ LET r == cur[p]
       IN \/ \E s \in FreshIds :
                /\ Claimable(r)
                /\ origin[s] = None
                /\ rows' = rows \cup {s}
                /\ usedAt' = [usedAt EXCEPT ![r] = at[p], ![s] = None]
                /\ rotatedTo' = [rotatedTo EXCEPT ![r] = s, ![s] = None]
                /\ expiresAt' = [expiresAt EXCEPT ![s] = at[p] + RefreshTtl]
                /\ origin' = [origin EXCEPT ![s] = origin[r]]
                /\ Goto(p, "access", s, hops[p])
          \/ /\ ~Claimable(r)
             /\ Goto(p, "reread", r, hops[p])
             /\ UNCHANGED <<rows, usedAt, rotatedTo, expiresAt, origin>>
    /\ UNCHANGED <<now, code, codeExp, access, held, at, start, seen, conn,
                   replayed, reused, burnt, cutOff>>

RereadMutant(p) ==
    /\ pc[p] = "reread"
    /\ Goto(p, "claim", cur[p], hops[p])
    /\ UNCHANGED <<now, tables, held, at, start, seen, conn, history>>

(* A lost claim reads the row again and goes on from it; a row that is gone *)
(* or still unused ends the loop.                                           *)
Reread(p) ==
    /\ pc[p] = "reread"
    /\ \/ /\ cur[p] \in rows /\ Used(cur[p])
          /\ Examine(p, start[p], cur[p], at[p], hops[p])
       \/ /\ cur[p] \notin rows \/ ~Used(cur[p])
          /\ DetectReuse(p, start[p], hops[p])
    /\ UNCHANGED <<now, tables, held, at, start, seen, conn,
                   origin, replayed, burnt, cutOff>>

-----------------------------------------------------------------------------
(* revokeLineage, from the row `start`.                                     *)

(* revokeCodeLineage: nothing to revoke when the code minted no row. *)
FindFirst(p) ==
    /\ pc[p] = "find"
    /\ \/ /\ start[p] \in rows
          /\ pc' = [pc EXCEPT ![p] = "mark"]
          /\ UNCHANGED <<at, start, cur, hops, seen>>
       \/ /\ start[p] \notin rows
          /\ Finish(p)
    /\ UNCHANGED <<now, tables, held, conn, history>>

(* markRefreshUsed *)
MarkUsed(p) ==
    /\ pc[p] = "mark"
    /\ usedAt' = IF cur[p] \in rows /\ ~Used(cur[p])
                 THEN [usedAt EXCEPT ![cur[p]] = now] ELSE usedAt
    /\ seen' = [seen EXCEPT ![p] = @ \cup {cur[p]}]
    /\ pc' = [pc EXCEPT ![p] = "next"]
    /\ UNCHANGED <<now, code, codeExp, rows, rotatedTo, expiresAt, access, held,
                   at, start, cur, hops, conn, history>>

(* Marked first, read after: the link of a claim that was under way. *)
NextLink(p) ==
    /\ pc[p] = "next"
    /\ \/ /\ LinkAfter(p) # None
          /\ pc' = [pc EXCEPT ![p] = "mark"]
          /\ cur' = [cur EXCEPT ![p] = LinkAfter(p)]
       \/ /\ LinkAfter(p) = None
          /\ pc' = [pc EXCEPT ![p] = "revoke"]
          /\ UNCHANGED cur
    /\ UNCHANGED <<now, tables, held, at, start, hops, seen, conn, history>>

(* revokeAccessTokensForLineage; the request answers invalid_grant. *)
RevokeAccess(p) ==
    /\ pc[p] = "revoke"
    /\ access' = [r \in RowIds |-> IF r \in RevokedRows(p) /\ access[r] = "live"
                                   THEN "revoked" ELSE access[r]]
    /\ burnt' = burnt \cup seen[p]
    /\ Finish(p)
    /\ UNCHANGED <<now, code, codeExp, rows, usedAt, rotatedTo, expiresAt, held,
                   conn, origin, replayed, reused, cutOff>>

(* A request that never gets further: an error, a restart, a lost response. *)
Abort(p) ==
    /\ pc[p] # "idle"
    /\ Finish(p)
    /\ UNCHANGED <<now, tables, held, conn, history>>

-----------------------------------------------------------------------------
(* revokeConnection: three DELETE statements of one transaction.  Writers   *)
(* of a deleted row wait for the transaction, so each statement takes       *)
(* effect when it runs; the refresh DELETE covers the rows of its snapshot, *)
(* while a rotation it waits for commits a successor outside of it.         *)
RevokeConnection ==
    /\ connPc = "idle"
    /\ \E c \in Codes : code[c] \in {"unused", "used"}
    /\ connPc' = "refresh"
    /\ doomed' = rows
    /\ UNCHANGED <<now, tables, held, request, history>>

DeleteRefreshMutant ==
    /\ connPc = "refresh"
    /\ rows' = rows \ {r \in doomed : ~Used(r)}
    /\ doomed' = {}
    /\ connPc' = "access"
    /\ UNCHANGED <<now, code, codeExp, usedAt, rotatedTo, expiresAt, access, held,
                   request, history>>
DeleteRefresh ==
    /\ connPc = "refresh"
    /\ rows' = rows \ doomed
    /\ doomed' = {}
    /\ connPc' = "access"
    /\ UNCHANGED <<now, code, codeExp, usedAt, rotatedTo, expiresAt, access, held,
                   request, history>>

DeleteAccess ==
    /\ connPc = "access"
    /\ access' = [r \in RowIds |-> "none"]
    /\ connPc' = "codes"
    /\ UNCHANGED <<now, code, codeExp, rows, usedAt, rotatedTo, expiresAt, held,
                   request, doomed, history>>

DeleteCodes ==
    /\ connPc = "codes"
    /\ code' = [c \in Codes |-> IF code[c] = "new" THEN "new" ELSE "deleted"]
    /\ cutOff' = {c \in Codes : code[c] # "new"}
    /\ connPc' = "idle"
    /\ UNCHANGED <<now, codeExp, rows, usedAt, rotatedTo, expiresAt, access, held,
                   request, doomed, origin, replayed, reused, burnt>>

(* The self-FK on rotated_to: no row that stays points at one that goes.  It *)
(* is not implied: a successor's expiry comes from its own request's clock, *)
(* so a slow request's successor may expire before its predecessor.         *)
PruneKeepsLinks == \A q \in rows \ Pruned : rotatedTo[q] \notin Pruned

(* pruneExpiredOAuth.  A DELETE that would leave a rotated_to dangling       *)
(* fails on the self-FK, and the prune with it.                             *)
PruneExpiredOAuth ==
    /\ PruneKeepsLinks
    /\ rows' = rows \ Pruned
    /\ code' = [c \in Codes |->
                  IF code[c] \in {"unused", "used"} /\ codeExp[c] + RefreshTtl + Keep < now
                  THEN "deleted" ELSE code[c]]
    /\ <<rows, code>>' # <<rows, code>>
    /\ UNCHANGED <<now, codeExp, usedAt, rotatedTo, expiresAt, access, held,
                   request, conn, history>>

Tick ==
    /\ now < MaxTime
    /\ now' = now + 1
    /\ UNCHANGED <<tables, held, request, conn, history>>

-----------------------------------------------------------------------------
Step(p) ==
    \/ ConsumeCode(p) \/ InsertFirst(p) \/ InsertAccess(p) \/ Respond(p)
    \/ Follow(p) \/ Claim(p) \/ Reread(p)
    \/ FindFirst(p) \/ MarkUsed(p) \/ NextLink(p) \/ RevokeAccess(p)

Next ==
    \/ \E c \in Codes : IssueAuthCode(c)
    \/ \E p \in Requests, c \in Codes, valid \in BOOLEAN : PresentCode(p, c, valid)
    \/ \E p \in Requests, r \in RowIds : PresentRefresh(p, r)
    \/ \E p \in Requests : Step(p)
    \/ \E p \in Requests : Abort(p)
    \/ RevokeConnection \/ DeleteRefresh \/ DeleteAccess \/ DeleteCodes
    \/ PruneExpiredOAuth
    \/ Tick

Spec == Init /\ [][Next]_vars

(* A request that is being served goes on to its next store call.          *)
LiveSpec == Spec /\ \A p \in Requests : WF_vars(Step(p))
-----------------------------------------------------------------------------
(* Whole-lineage views. *)
LineageOf(c) == {r \in RowIds : origin[r] = c}
LiveRefresh(c) == {r \in LineageOf(c) \cap rows : ~Used(r)}

(* A lineage never forks: however many requests rotate, retry and replay at *)
(* once, at most one refresh token of it can still be rotated               *)
(* (rotateRefresh's claim, markAuthCodeUsed's single winner).               *)
OneLiveRefresh ==
    \A c \in Codes : \A r, s \in LiveRefresh(c) : r = s

(* Readers never see a claim without its link, and a link stays inside its  *)
(* lineage and never dangles: the rows rotateTail and revokeLineage walk    *)
(* are all there, whatever revokeConnection deletes under them.             *)
LinksResolve ==
    \A r \in rows : rotatedTo[r] # None =>
        /\ Used(r)
        /\ rotatedTo[r] \in rows
        /\ origin[rotatedTo[r]] = origin[r]

(* "Marked first, read after": once revokeLineage has finished, no row it    *)
(* went through can rotate and no row was added behind them, so the lineage *)
(* from the presented token on can never mint again.                        *)
BurntStaysBurnt ==
    \A r \in burnt \cap rows :
        /\ Used(r)
        /\ rotatedTo[r] \in burnt \cup {None}

(* Only reuse or a replay logs a client out: in a lineage neither was       *)
(* detected in, every used row has its successor link and no access token   *)
(* was revoked, so other lineages of the same user and client keep working. *)
OnlyReuseRevokes ==
    \A c \in Codes \ (reused \cup replayed) : \A r \in LineageOf(c) :
        /\ r \in rows /\ Used(r) => rotatedTo[r] # None
        /\ access[r] # "revoked"

(* Sessions that share one stored token and rotate it at the same moment    *)
(* are never taken for reuse: a detected reuse has a cause the header of    *)
(* tokens.server.ts names - a use older than the grace, a chain past the    *)
(* hop limit, an expired row, or a lineage already revoked or deleted.      *)
ReuseHasCause ==
    \A c \in reused :
        \/ c \in replayed
        \/ \E r \in LineageOf(c) : r \notin rows
        \/ \E r \in LineageOf(c) : Used(r) /\ now - usedAt[r] > Grace
        \/ \E r \in LineageOf(c) : expiresAt[r] <= now
        \/ Cardinality(LineageOf(c)) > MaxHops + 1

(* A token is spent for good: no step makes a used row, a consumed or       *)
(* deleted code or a revoked access token usable again.                     *)
SpentForGood ==
    [][/\ \A c \in Codes : /\ code[c] = "used" => code'[c] \in {"used", "deleted"}
                           /\ code[c] = "deleted" => code'[c] = "deleted"
       /\ \A r \in RowIds : /\ r \in rows /\ Used(r) => r \notin rows' \/ usedAt'[r] = usedAt[r]
                            /\ r \notin rows /\ origin[r] # None => r \notin rows'
                            /\ access[r] = "revoked" => access'[r] # "live"]_vars

(* rotateTail and revokeLineage end: no request chases a lineage that other *)
(* requests keep extending.                                                 *)
RequestsEnd == \A p \in Requests : pc[p] # "idle" ~> pc[p] = "idle"

-----------------------------------------------------------------------------
(* The inductive invariant OAuthTokensProofs rests on: TypeOK, LinksResolve, *)
(* OneLiveRefresh and BurntStaysBurnt with what makes them inductive.       *)

(* A row belongs to the lineage of a consumed code; a code names a row only *)
(* of its own lineage.                                                      *)
Allocation ==
    /\ \A r \in rows \cup doomed \cup burnt : origin[r] # None
    /\ \A c \in Codes : origin[c] \in {c, None}
    /\ \A r \in RowIds : origin[r] # None => code[origin[r]] \in {"used", "deleted"}

(* One request won each code, and it has minted nothing before it inserts.  *)
Exchange ==
    /\ \A p \in Requests : pc[p] \in {"consume", "spoil", "insert", "find"} =>
          start[p] \in Codes /\ cur[p] = start[p]
    /\ \A p \in Requests : pc[p] = "insert" =>
          /\ code[start[p]] \in {"used", "deleted"}
          /\ \A r \in RowIds : origin[r] # start[p]
    /\ \A p, q \in Requests :
          pc[p] = "insert" /\ pc[q] = "insert" /\ start[p] = start[q] => p = q

(* What a burning request has behind it: only used rows of one flagged      *)
(* lineage, whose links lead to rows behind it or to the one it works on.   *)
Burning(p) == pc[p] \in {"mark", "next", "revoke"}
Walk ==
    \A p \in Requests :
        /\ pc[p] \in {"follow", "claim", "reread"} => origin[start[p]] # None
        /\ pc[p] = "find" => start[p] \in replayed
        /\ ~Burning(p) => seen[p] = {}
        /\ pc[p] \in {"next", "revoke"} => cur[p] \in seen[p]
        /\ Burning(p) =>
              /\ origin[start[p]] \in reused \cup replayed
              /\ \A r \in seen[p] \cup {cur[p]} : origin[r] = origin[start[p]]
              /\ \A r \in seen[p] \cap rows :
                    /\ Used(r)
                    /\ \/ pc[p] = "next" /\ r = cur[p]
                       \/ pc[p] = "mark" /\ rotatedTo[r] = cur[p]
                       \/ rotatedTo[r] \in seen[p] \cup {None}

(* Damage, a used row without successor or a revoked access token, is found *)
(* only in a flagged lineage.                                               *)
Damage ==
    /\ \A r \in rows : Used(r) /\ rotatedTo[r] = None => origin[r] \in reused \cup replayed
    /\ \A r \in RowIds : access[r] = "revoked" => origin[r] \in reused \cup replayed

(* The snapshot of revokeConnection is closed under predecessors.           *)
Snapshot ==
    connPc = "refresh" => \A r \in rows \ doomed : rotatedTo[r] \notin doomed

IInv == /\ TypeOK /\ Allocation /\ Exchange /\ LinksResolve /\ OneLiveRefresh
        /\ Walk /\ BurntStaysBurnt /\ Damage /\ Snapshot
=============================================================================
