----------------------------- MODULE AppAssets -----------------------------
(***************************************************************************)
(* The assets of one app: the draft's rows, the sets frozen by publishes,  *)
(* and the files in the app's directory that both name.                    *)
(* packages/apps/src/assets/assets.server.ts, snapshots.server.ts,         *)
(* sweep.server.ts and purge.server.ts.                                    *)
(*                                                                         *)
(* Rows and files change under the app's assets lock (an advisory lock of  *)
(* the transaction).  Publish, restore and purge lock the app's row before *)
(* it; an upload holds the assets lock when the foreign key of the row it  *)
(* inserts asks for the app's row, so the two can wait for each other, and *)
(* Postgres then aborts one.                                               *)
(*                                                                         *)
(* Left out: the stream before the transaction (its refusals change        *)
(* nothing), temporary files, upload tokens, versions that do not compile. *)
(***************************************************************************)
EXTENDS Integers, FiniteSets, FiniteSetsExt

CONSTANTS
    Names,       \* paths of assets
    Keys,        \* storage keys
    Sha,         \* the key the bytes of a file get today; older rows keep another
    Size,        \* bytes of a file
    Quota,       \* APP_ASSETS_QUOTA
    SetsKept,    \* ASSET_SNAPSHOTS_KEPT
    Requests,    \* bound: requests in flight at once
    MaxVersion,  \* bound: versions that compile
    Nothing      \* no row, no set, no key, no request

ASSUME AssetAssumption ==
    /\ IsFiniteSet(Names)
    /\ Sha \in [Keys -> Keys] /\ Size \in [Keys -> Nat]
    /\ \A k \in Keys : Sha[Sha[k]] = Sha[k] /\ Size[Sha[k]] = Size[k]
    /\ {Quota, SetsKept} \subseteq Nat /\ MaxVersion \in Nat \ {0}
    /\ Nothing \notin Keys \cup Requests

Versions == 1..MaxVersion
Sets == [Names -> Keys \cup {Nothing}]

VARIABLES
    app,         \* live, down (locked by an admin), deleted, expired (a day ago), gone
    head,        \* the newest version that compiled
    live,        \* the published version; 0: none
    draft,       \* app_assets: the key each name's row has
    sets,        \* app_version_assets by version; Nothing: assets_frozen_at is null
    newer,       \* of each set, the versions whose sets were frozen after it
    disk,        \* the files in the app's directory
    rowLock,     \* who holds the app's row FOR UPDATE
    assetsLock,  \* who holds the advisory lock across calls
    pc,          \* the call each request makes next
    name, key,   \* the name it is about, and the key of its file
    ver,         \* the version it publishes or restores
    drop,        \* the sets it drops when it commits
    spare,       \* the key of a row it has replaced or deleted
    sw, listed   \* the sweep's next step; the files it has listed

rows == <<draft, sets, newer>>
state == <<app, head, live>>
locks == <<rowLock, assetsLock>>
local == <<pc, name, key, ver, drop, spare>>
sweep == <<sw, listed>>
vars == <<state, rows, disk, locks, local, sweep>>

Steps == {"idle", "insert", "release", "freeze", "reset", "remove", "commit"}

TypeOK ==
    /\ app \in {"live", "down", "deleted", "expired", "gone"}
    /\ head \in 0..MaxVersion /\ live \in 0..head
    /\ draft \in Sets /\ sets \in [Versions -> Sets \cup {Nothing}]
    /\ newer \in [Versions -> SUBSET Versions]
    /\ disk \subseteq Keys /\ listed \subseteq Keys
    /\ rowLock \in Requests \cup {Nothing} /\ assetsLock \in Requests \cup {Nothing}
    /\ pc \in [Requests -> Steps] /\ name \in [Requests -> Names \cup {Nothing}]
    /\ key \in [Requests -> Keys \cup {Nothing}] /\ spare \in [Requests -> Keys \cup {Nothing}]
    /\ ver \in [Requests -> 0..MaxVersion] /\ drop \in [Requests -> SUBSET Versions]
    /\ sw \in {"idle", "sets", "dir", "list", "orphans"}
    /\ \A r \in Requests :
        /\ rowLock = r <=> pc[r] \in {"freeze", "reset", "remove", "commit"}
        /\ assetsLock = r <=> pc[r] \in {"insert", "commit"}

-----------------------------------------------------------------------------
(* What the statements read.                                               *)

RowKeys(f) == {f[n] : n \in Names} \ {Nothing}
SetKeys(v) == IF sets[v] = Nothing THEN {} ELSE RowKeys(sets[v])
FrozenKeys == UNION {SetKeys(v) : v \in Versions}

UnreferencedMutant(K) == K \ RowKeys(draft)
\* Of the keys K, those no draft row or kept set references.
Unreferenced(K) == K \ (RowKeys(draft) \cup FrozenKeys)

\* The bytes of the files K, each byte of each file counted once.
Bytes(K) == Cardinality(UNION {{k} \X (1..Size[k]) : k \in K})

\* Unique files: the draft, the sets of S and the extra keys share them.
UniqueBytes(f, S, extra) ==
    Bytes(RowKeys(f) \cup (UNION {SetKeys(v) : v \in S}) \cup extra)

\* A key under which the app's rows have these bytes: the draft's first.
StoredKeys(c) ==
    LET from(K) == {k \in K : Sha[k] = c} IN
    IF from(RowKeys(draft)) # {} THEN from(RowKeys(draft)) ELSE from(FrozenKeys)

HasSet == {v \in Versions : sets[v] # Nothing}

BeyondMutant(v, n) == {w \in HasSet \ {head} : Cardinality(newer[w] \ {head}) >= n}
\* The sets other than v's that go when the n most recent of them stay.
Beyond(v, n) == {w \in HasSet \ {v} : Cardinality(newer[w] \ {v}) >= n}

\* The file an upload of c is to name: one of those, or one written now.
KeyFor(c) ==
    (StoredKeys(c) \cap disk) \cup (IF StoredKeys(c) \subseteq disk /\ StoredKeys(c) # {} THEN {} ELSE {c})
Reused(k) == k \in StoredKeys(Sha[k]) \cap disk

Replaced(n) == [draft EXCEPT ![n] = Nothing]

OverQuotaMutant(n, k) == UniqueBytes(Replaced(n), {}, {k}) > Quota
\* The draft without the name, the live set and the new file need more.
OverQuota(n, k) == UniqueBytes(Replaced(n), {live} \ {0}, {k}) > Quota

\* pruneAssetSnapshots of an upload: more go, the oldest first, while the rest
\* does not fit the quota.
Pruned(n, k) ==
    LET fits(m) == UniqueBytes(Replaced(n), Versions \ Beyond(live, m), {k}) <= Quota
    IN  Beyond(live, Max({m \in 0..SetsKept : m = 0 \/ fits(m)}))

Dropped(S, D) == [v \in Versions |-> IF v \in D THEN Nothing ELSE S[v]]
NewerWithout(D) == [v \in Versions |-> IF v \in D THEN {} ELSE newer[v] \ D]

-----------------------------------------------------------------------------
\* An app, perhaps with assets from before keys were the bytes' hash.
Init ==
    /\ app = "live" /\ head \in 0..1 /\ live = 0
    /\ \E n \in Names, k \in Keys \cup {Nothing} :
          draft = [m \in Names |-> IF m = n THEN k ELSE Nothing]
    /\ sets = [v \in Versions |-> Nothing] /\ newer = [v \in Versions |-> {}]
    /\ disk = RowKeys(draft)
    /\ UniqueBytes(draft, {}, {}) <= Quota
    /\ rowLock = Nothing /\ assetsLock = Nothing
    /\ pc = [r \in Requests |-> "idle"]
    /\ name = [r \in Requests |-> Nothing] /\ key = [r \in Requests |-> Nothing]
    /\ spare = [r \in Requests |-> Nothing]
    /\ ver = [r \in Requests |-> 0] /\ drop = [r \in Requests |-> {}]
    /\ sw = "idle" /\ listed = {}

\* What a request keeps between its calls.
Becomes(r, step, n, k, D, old) ==
    /\ pc' = [pc EXCEPT ![r] = step]
    /\ name' = [name EXCEPT ![r] = n]
    /\ key' = [key EXCEPT ![r] = k]
    /\ drop' = [drop EXCEPT ![r] = D]
    /\ spare' = [spare EXCEPT ![r] = old]
    /\ ver' = [ver EXCEPT ![r] = 0]

Locks(r, step, v) ==
    /\ pc[r] = "idle" /\ rowLock = Nothing
    /\ rowLock' = r
    /\ pc' = [pc EXCEPT ![r] = step] /\ ver' = [ver EXCEPT ![r] = v]
    /\ UNCHANGED <<state, rows, disk, assetsLock, name, key, drop, spare, sweep>>

Ends(r) == Becomes(r, "idle", Nothing, Nothing, {}, Nothing)

-----------------------------------------------------------------------------
(* Uploads and deletes.                                                    *)

\* The bytes c of name n have arrived.  Under the lock: is the app there,
\* which file, does it fit, which sets go.  The file is moved into place; the
\* rows are not committed.
StoreAsset(r, n, c) ==
    /\ pc[r] = "idle" /\ assetsLock = Nothing
    /\ app = "live" /\ c = Sha[c]
    /\ \E k \in KeyFor(c) :
        /\ ~OverQuota(n, k)
        /\ IF Reused(k) THEN UNCHANGED disk
                       ELSE disk' = disk \cup {k}
        /\ Becomes(r, "insert", n, k, Pruned(n, k), draft[n])
    /\ assetsLock' = r
    /\ UNCHANGED <<state, rows, rowLock, sweep>>

\* The upsert and the commit.  A new row's foreign key waits for the app's row.
InsertAsset(r) ==
    /\ pc[r] = "insert"
    /\ draft[name[r]] = Nothing => rowLock = Nothing
    /\ draft' = [draft EXCEPT ![name[r]] = key[r]]
    /\ sets' = Dropped(sets, drop[r]) /\ newer' = NewerWithout(drop[r])
    /\ assetsLock' = Nothing
    /\ IF spare[r] \in {Nothing, key[r]} THEN Ends(r)
       ELSE Becomes(r, "release", Nothing, Nothing, {}, spare[r])
    /\ UNCHANGED <<state, disk, rowLock, sweep>>

DeleteAsset(r, n) ==
    /\ pc[r] = "idle" /\ assetsLock = Nothing
    /\ draft[n] # Nothing
    /\ draft' = [draft EXCEPT ![n] = Nothing]
    /\ Becomes(r, "release", Nothing, Nothing, {}, draft[n])
    /\ UNCHANGED <<state, sets, newer, disk, locks, sweep>>

\* The file of the row that went, if nothing else references it.
ReleaseAssetFiles(r) ==
    /\ pc[r] = "release" /\ assetsLock = Nothing
    /\ disk' = disk \ Unreferenced({spare[r]})
    /\ Ends(r)
    /\ UNCHANGED <<state, rows, locks, sweep>>

-----------------------------------------------------------------------------
(* Publish, rollback and restore.                                          *)

\* The app's row is locked and the request not refused.
Publish(r, v) == app = "live" /\ v <= head /\ Locks(r, "freeze", v)
RestoreVersion(r, v) == app = "live" /\ v <= head /\ head < MaxVersion /\ Locks(r, "reset", v)

\* The draft goes live, or (a rollback) the version's own set stays.
FromDraft(v) == v = head \/ sets[v] = Nothing

FreezeAssets(r) ==
    LET v == ver[r]
        frozen == IF FromDraft(v) THEN [sets EXCEPT ![v] = draft] ELSE sets
        gone == Beyond(v, SetsKept)
    IN
    /\ pc[r] = "freeze" /\ assetsLock = Nothing
    /\ live' = v
    /\ sets' = Dropped(frozen, gone)
    /\ newer' = [w \in Versions |-> IF w \in HasSet \ (gone \cup {v})
                                   THEN (newer[w] \ gone) \cup {v} ELSE {}]
    /\ rowLock' = Nothing
    /\ Ends(r)
    /\ UNCHANGED <<app, head, draft, disk, assetsLock, sweep>>

\* A new version, and the draft as the source's set was when last live.
RestoreDraftAssets(r) ==
    LET v == ver[r] IN
    /\ pc[r] = "reset" /\ assetsLock = Nothing
    /\ head' = head + 1
    /\ draft' = IF sets[v] = Nothing THEN draft ELSE sets[v]
    /\ rowLock' = Nothing
    /\ Ends(r)
    /\ UNCHANGED <<app, live, sets, newer, disk, assetsLock, sweep>>

\* What only takes the app's row.
CreateVersion ==
    /\ rowLock = Nothing /\ app = "live" /\ head < MaxVersion
    /\ head' = head + 1
    /\ UNCHANGED <<app, live, rows, disk, locks, local, sweep>>

UnpublishApp ==
    /\ rowLock = Nothing /\ app \in {"live", "down"} /\ live # 0
    /\ live' = 0
    /\ UNCHANGED <<app, head, rows, disk, locks, local, sweep>>

TakedownApp ==
    /\ rowLock = Nothing /\ app = "live"
    /\ app' = "down" /\ live' = 0
    /\ UNCHANGED <<head, rows, disk, locks, local, sweep>>

RestoreApp ==
    /\ rowLock = Nothing /\ app = "down"
    /\ app' = "live"
    /\ UNCHANGED <<head, live, rows, disk, locks, local, sweep>>

SoftDeleteApp ==
    /\ rowLock = Nothing /\ app \in {"live", "down"}
    /\ app' = "deleted"
    /\ UNCHANGED <<head, live, rows, disk, locks, local, sweep>>

-----------------------------------------------------------------------------
(* The purge and the sweep.                                                *)

\* SKIP LOCKED: a row somebody holds is left to the next run.
PurgeApp(r) == app \in {"deleted", "expired"} /\ Locks(r, "remove", 0)

\* The rows are deleted and the directory removed, then the commit.
RemoveApp(r) ==
    /\ pc[r] = "remove" /\ assetsLock = Nothing
    /\ assetsLock' = r
    /\ disk' = {}
    /\ pc' = [pc EXCEPT ![r] = "commit"]
    /\ UNCHANGED <<state, rows, rowLock, name, key, ver, drop, spare, sweep>>

CommitPurge(r) ==
    /\ pc[r] = "commit"
    /\ app' = "gone" /\ head' = 0 /\ live' = 0
    /\ draft' = [n \in Names |-> Nothing]
    /\ sets' = [v \in Versions |-> Nothing] /\ newer' = [v \in Versions |-> {}]
    /\ rowLock' = Nothing /\ assetsLock' = Nothing
    /\ Ends(r)
    /\ UNCHANGED <<disk, sweep>>

NoRows == [v \in Versions |-> IF sets[v] = Nothing THEN Nothing ELSE [n \in Names |-> Nothing]]

\* An app deleted a day ago: its rows go first, without the lock.
Leftover == app = "expired" /\ RowKeys(draft) \cup FrozenKeys # {}

SweepDraft ==
    /\ sw = "idle" /\ Leftover
    /\ sw' = "sets"
    /\ draft' = [n \in Names |-> Nothing]
    /\ UNCHANGED <<state, sets, newer, disk, locks, local, listed>>

SweepSets ==
    /\ sw = "sets" /\ sw' = "dir"
    /\ sets' = NoRows
    /\ UNCHANGED <<state, draft, newer, disk, locks, local, listed>>

SweepDirectory ==
    /\ sw = "dir" /\ sw' = "list"
    /\ disk' = {}
    /\ UNCHANGED <<state, rows, locks, local, listed>>

\* readdir of the app's directory.
SweepList ==
    /\ sw = "list" \/ (sw = "idle" /\ ~Leftover)
    /\ disk # {}
    /\ sw' = "orphans" /\ listed' = disk
    /\ UNCHANGED <<state, rows, disk, locks, local>>

\* Of the files listed before the lock, those over an hour old go under it.
SweepOrphans(aged) ==
    /\ sw = "orphans" /\ assetsLock = Nothing
    /\ aged \subseteq listed
    /\ disk' = disk \ Unreferenced(aged)
    /\ sw' = "idle" /\ listed' = {}
    /\ UNCHANGED <<state, rows, locks, local>>

SweepDies ==
    /\ sw # "idle"
    /\ sw' = "idle" /\ listed' = {}
    /\ UNCHANGED <<state, rows, disk, locks, local>>

\* No transaction that read the app before its deletion lasts for a day.
DayPasses ==
    /\ app = "deleted" /\ \A r \in Requests : pc[r] # "insert"
    /\ app' = "expired"
    /\ UNCHANGED <<head, live, rows, disk, locks, local, sweep>>

-----------------------------------------------------------------------------
Freed(r) ==
    /\ rowLock' = IF rowLock = r THEN Nothing ELSE rowLock
    /\ assetsLock' = IF assetsLock = r THEN Nothing ELSE assetsLock

\* The process dies, a call throws or Postgres picks the victim of a deadlock:
\* the transaction is rolled back, what was done to files stays done.
Fails(r) ==
    /\ pc[r] # "idle"
    /\ Freed(r) /\ Ends(r)
    /\ UNCHANGED <<state, rows, disk, sweep>>

Proceeds(r) ==
    \/ InsertAsset(r) \/ ReleaseAssetFiles(r) \/ FreezeAssets(r)
    \/ RestoreDraftAssets(r) \/ RemoveApp(r) \/ CommitPurge(r)

Calls(r) ==
    \/ \E n \in Names, c \in Keys : StoreAsset(r, n, c)
    \/ \E n \in Names : DeleteAsset(r, n)
    \/ \E v \in Versions : Publish(r, v) \/ RestoreVersion(r, v)
    \/ PurgeApp(r)

Sweeps == SweepDraft \/ SweepSets \/ SweepDirectory \/ SweepList

Next ==
    \/ \E r \in Requests : Calls(r) \/ Proceeds(r) \/ Fails(r)
    \/ Sweeps \/ (\E aged \in SUBSET Keys : SweepOrphans(aged)) \/ SweepDies \/ DayPasses
    \/ CreateVersion \/ UnpublishApp \/ TakedownApp \/ RestoreApp \/ SoftDeleteApp

Spec == Init /\ [][Next]_vars

-----------------------------------------------------------------------------
\* Every asset a host may serve is on disk: no delete, replacement, prune or
\* sweep takes a file that a row or a kept set still names.
ServedAreStored == app \in {"live", "down"} => RowKeys(draft) \cup FrozenKeys \subseteq disk

\* The files the draft and all sets name fit the quota, though the check and
\* the prune read a published version that others change beside them.
QuotaHolds == UniqueBytes(draft, Versions, {}) <= Quota

\* The production host's assets change only by a publish: a draft change, a
\* prune or a sweep never does, whatever was live when it was planned.
LiveSetFixed ==
    [][\A v \in Versions : live = v /\ live' = v /\ app = "live" =>
          \/ sets'[v] = sets[v]
          \/ \E r \in Requests : FreezeAssets(r) /\ ver[r] = v]_vars
=============================================================================
