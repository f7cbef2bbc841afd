-------------------------- MODULE AppAssetsProofs --------------------------
(***************************************************************************)
(* For any assets, quotas, versions and requests: what a live app's rows   *)
(* name is on disk and fits the quota, and the published set changes only  *)
(* by a publish.                                                           *)
(*                                                                         *)
(* An upload keeps what it knows under its lock until it commits: its file *)
(* is there, and the sets it drops are not the live one.  The two steps    *)
(* that remove a whole directory, one of them without the lock, come after *)
(* the app's deletion only, which nothing undoes.                          *)
(***************************************************************************)
EXTENDS AppAssets, FiniteSetTheorems, WellFoundedInduction, TLAPS

\* What an upload about to commit has found under the lock it still holds.
Uploads ==
    \A r \in Requests : pc[r] = "insert" =>
        /\ name[r] \in Names /\ key[r] \in Keys
        /\ app \in {"live", "down", "deleted"}
        /\ app # "deleted" => key[r] \in disk
        /\ live \notin drop[r]

\* A purge and the sweep's first phase are about a deleted app.
Removals ==
    /\ \A r \in Requests : pc[r] \in {"remove", "commit"} => app \in {"deleted", "expired"}
    /\ \A r \in Requests : pc[r] = "freeze" => app = "live" /\ ver[r] \in 1..head
    /\ \A r \in Requests : pc[r] = "reset" => app = "live" /\ ver[r] \in 1..head /\ head < MaxVersion
    /\ sw \in {"sets", "dir"} => app \in {"expired", "gone"}
    /\ app = "gone" => live = 0

IInv == TypeOK /\ ServedAreStored /\ Uploads /\ Removals

-----------------------------------------------------------------------------
(* Helpers.                                                                *)

(* The rows of a set name keys. *)
LEMMA KeysOfRows ==
    ASSUME NEW f \in Sets
    PROVE  RowKeys(f) \subseteq Keys
BY DEF RowKeys, Sets

LEMMA NothingIsNoKey == Nothing \notin Keys /\ Nothing \notin Requests
BY AssetAssumption DEF AssetAssumption

(* An upload's file is one of the app's that has its bytes, or its own. *)
LEMMA KeyForIsKey ==
    ASSUME TypeOK, NEW c \in Keys, NEW k \in KeyFor(c)
    PROVE  k \in Keys /\ (k \in disk \/ k = c)
BY DEF TypeOK, KeyFor

(* A prune never takes the set of the version it spares. *)
LEMMA PrunedSparesLive ==
    ASSUME NEW n, NEW k
    PROVE  Pruned(n, k) \subseteq Versions \ {live}
BY DEF Pruned, Beyond, HasSet

(* What is still referenced is not among the unreferenced. *)
LEMMA UnreferencedSpares ==
    ASSUME NEW K
    PROVE  Unreferenced(K) \cap (RowKeys(draft) \cup FrozenKeys) = {}
BY DEF Unreferenced

(* What only takes the app's row, and time. *)
RowActs == CreateVersion \/ UnpublishApp \/ TakedownApp \/ RestoreApp \/ SoftDeleteApp \/ DayPasses

Served(r) == Calls(r) \/ Proceeds(r) \/ Fails(r)

SweepActs == Sweeps \/ (\E aged \in SUBSET Keys : SweepOrphans(aged)) \/ SweepDies

(* A step is a request's, the sweep's or one of the app's row alone. *)
LEMMA WhoActs ==
    [Next]_vars => (\E r \in Requests : Served(r)) \/ SweepActs \/ RowActs \/ UNCHANGED vars
BY DEF Next, Served, SweepActs, RowActs

-----------------------------------------------------------------------------
(* Types.                                                                  *)

(* The type invariant in parts: what is stored, what the requests keep, and  *)
(* who holds the locks.                                                      *)
Stored ==
    /\ app \in {"live", "down", "deleted", "expired", "gone"}
    /\ head \in 0..MaxVersion /\ live \in 0..head
    /\ draft \in Sets /\ sets \in [Versions -> Sets \cup {Nothing}]
    /\ newer \in [Versions -> SUBSET Versions]
    /\ disk \subseteq Keys /\ listed \subseteq Keys
    /\ sw \in {"idle", "sets", "dir", "list", "orphans"}

Locals ==
    /\ pc \in [Requests -> Steps] /\ name \in [Requests -> Names \cup {Nothing}]
    /\ key \in [Requests -> Keys \cup {Nothing}] /\ spare \in [Requests -> Keys \cup {Nothing}]
    /\ ver \in [Requests -> 0..MaxVersion] /\ drop \in [Requests -> SUBSET Versions]

Held ==
    /\ rowLock \in Requests \cup {Nothing} /\ assetsLock \in Requests \cup {Nothing}
    /\ \A r \in Requests :
        /\ rowLock = r <=> pc[r] \in {"freeze", "reset", "remove", "commit"}
        /\ assetsLock = r <=> pc[r] \in {"insert", "commit"}

LEMMA TypeParts == TypeOK <=> Stored /\ Locals /\ Held
BY DEF TypeOK, Stored, Locals, Held

(* The locals of a request that Becomes something else. *)
LEMMA BecomesType ==
    ASSUME Locals, NEW r \in Requests, NEW step \in Steps, NEW n \in Names \cup {Nothing},
           NEW k \in Keys \cup {Nothing}, NEW D \in SUBSET Versions,
           NEW old \in Keys \cup {Nothing}, Becomes(r, step, n, k, D, old)
    PROVE  /\ Locals' /\ pc'[r] = step
           /\ \A s \in Requests : s # r => pc'[s] = pc[s]
BY AssetAssumption DEF Locals, Becomes, AssetAssumption

(* A request that ends. *)
LEMMA EndsType ==
    ASSUME Locals, NEW r \in Requests, Ends(r)
    PROVE  /\ Locals' /\ pc'[r] = "idle"
           /\ \A s \in Requests : s # r => pc'[s] = pc[s]
BY BecomesType DEF Ends, Steps

(* Requests that begin keep the types. *)
LEMMA CallsType ==
    ASSUME IInv, NEW r \in Requests, Calls(r)
    PROVE  TypeOK'
<1>0. Stored /\ Locals /\ Held
  BY TypeParts DEF IInv
<1>1. ASSUME NEW n \in Names, NEW c \in Keys, StoreAsset(r, n, c) PROVE TypeOK'
  <2>1. PICK k \in KeyFor(c) : /\ disk' \in {disk, disk \cup {k}}
                               /\ Becomes(r, "insert", n, k, Pruned(n, k), draft[n])
    BY <1>1 DEF StoreAsset
  <2>2. k \in Keys /\ Pruned(n, k) \in SUBSET Versions /\ draft[n] \in Keys \cup {Nothing}
    BY <1>0, KeyForIsKey, TypeParts, PrunedSparesLive DEF Stored, Sets
  <2>3. Locals' /\ pc'[r] = "insert" /\ \A s \in Requests : s # r => pc'[s] = pc[s]
    BY <1>0, <2>1, <2>2, BecomesType DEF Steps
  <2>4. UNCHANGED <<state, rows, rowLock, sweep>> /\ assetsLock' = r /\ pc[r] = "idle"
        /\ assetsLock = Nothing
    BY <1>1 DEF StoreAsset
  <2>5. Stored'
    BY <1>0, <2>1, <2>2, <2>4 DEF Stored, state, rows, sweep
  <2>6. Held'
    BY <1>0, <2>3, <2>4, NothingIsNoKey DEF Held
  <2> QED BY <2>3, <2>5, <2>6 DEF TypeOK, Stored, Locals, Held
<1>2. ASSUME NEW n \in Names, DeleteAsset(r, n) PROVE TypeOK'
  <2>1. draft[n] \in Keys \cup {Nothing} /\ "release" \in Steps /\ {} \in SUBSET Versions
    BY <1>0 DEF Stored, Sets, Steps
  <2>2. /\ Becomes(r, "release", Nothing, Nothing, {}, draft[n])
        /\ pc[r] = "idle" /\ draft' \in Sets
        /\ UNCHANGED <<state, sets, newer, disk, locks, sweep>>
    BY <1>0, <1>2 DEF DeleteAsset, Stored, Sets
  <2>3. Locals' /\ pc'[r] = "release" /\ \A s \in Requests : s # r => pc'[s] = pc[s]
    BY <1>0, <2>1, <2>2, BecomesType
  <2>4. Stored'
    BY <1>0, <2>2 DEF Stored, state, sweep
  <2>5. Held'
    BY <1>0, <2>2, <2>3 DEF Held, locks
  <2> QED BY <2>3, <2>4, <2>5 DEF TypeOK, Stored, Locals, Held
<1>3. ASSUME NEW step \in {"freeze", "reset", "remove"}, NEW v \in 0..MaxVersion, Locks(r, step, v)
      PROVE  TypeOK'
  <2>1. Stored'
    BY <1>0, <1>3 DEF Stored, Locks, state, rows, sweep
  <2>2. Locals'
    BY <1>0, <1>3 DEF Locals, Locks, Steps
  <2>3. Held'
    BY <1>0, <1>3, NothingIsNoKey DEF Held, Locals, Locks
  <2> QED BY <2>1, <2>2, <2>3 DEF TypeOK, Stored, Locals, Held
<1>4. ASSUME NEW v \in Versions, Publish(r, v) \/ RestoreVersion(r, v) PROVE TypeOK'
  BY <1>3, <1>4, AssetAssumption DEF Publish, RestoreVersion, Versions, AssetAssumption
<1>5. ASSUME PurgeApp(r) PROVE TypeOK'
  BY <1>3, <1>5, AssetAssumption DEF PurgeApp, AssetAssumption
<1> QED BY <1>1, <1>2, <1>4, <1>5 DEF Calls

(* Requests that go on keep the types. *)
LEMMA ProceedsType ==
    ASSUME IInv, NEW r \in Requests, Proceeds(r)
    PROVE  TypeOK'
<1>0. Stored /\ Locals /\ Held
  BY TypeParts DEF IInv
<1>1. ASSUME InsertAsset(r) PROVE TypeOK'
  <2>1. name[r] \in Names /\ key[r] \in Keys /\ spare[r] \in Keys \cup {Nothing}
    BY <1>0, <1>1 DEF IInv, Uploads, InsertAsset, Locals
  <2>2. Locals' /\ pc'[r] \in {"idle", "release"} /\ \A s \in Requests : s # r => pc'[s] = pc[s]
    <3>1. CASE Ends(r)
      BY <1>0, <3>1, EndsType
    <3>2. CASE Becomes(r, "release", Nothing, Nothing, {}, spare[r])
      BY <1>0, <2>1, <3>2, BecomesType DEF Steps
    <3> QED BY <1>1, <3>1, <3>2 DEF InsertAsset
  <2>3. draft' \in Sets /\ sets' \in [Versions -> Sets \cup {Nothing}]
        /\ newer' \in [Versions -> SUBSET Versions]
    BY <1>0, <1>1, <2>1 DEF InsertAsset, Stored, Sets, Dropped, NewerWithout
  <2>4. Stored'
    BY <1>0, <1>1, <2>3 DEF InsertAsset, Stored, state, sweep
  <2>5. Held'
    BY <1>0, <1>1, <2>2, NothingIsNoKey DEF InsertAsset, Held
  <2> QED BY <2>2, <2>4, <2>5 DEF TypeOK, Stored, Locals, Held
<1>2. ASSUME ReleaseAssetFiles(r) PROVE TypeOK'
  <2>1. Locals' /\ pc'[r] = "idle" /\ \A s \in Requests : s # r => pc'[s] = pc[s]
    BY <1>0, <1>2, EndsType DEF ReleaseAssetFiles
  <2>2. Stored'
    BY <1>0, <1>2 DEF ReleaseAssetFiles, Stored, state, rows, sweep
  <2>3. Held'
    BY <1>0, <1>2, <2>1 DEF ReleaseAssetFiles, Held, locks
  <2> QED BY <2>1, <2>2, <2>3 DEF TypeOK, Stored, Locals, Held
<1>3. ASSUME FreezeAssets(r) PROVE TypeOK'
  <2>1. Locals' /\ pc'[r] = "idle" /\ \A s \in Requests : s # r => pc'[s] = pc[s]
    BY <1>0, <1>3, EndsType DEF FreezeAssets
  <2>2. ver[r] \in 1..head /\ ver[r] \in Versions
    BY <1>0, <1>3, AssetAssumption
       DEF IInv, Removals, FreezeAssets, Stored, Versions, AssetAssumption
  <2>3. sets' \in [Versions -> Sets \cup {Nothing}] /\ newer' \in [Versions -> SUBSET Versions]
    BY <1>0, <1>3, <2>2 DEF FreezeAssets, Stored, Dropped, HasSet
  <2>4. live' \in 0..head'
    BY <1>0, <1>3, <2>2 DEF FreezeAssets, Stored
  <2>5. Stored'
    BY <1>0, <1>3, <2>3, <2>4 DEF FreezeAssets, Stored, sweep
  <2>6. Held'
    BY <1>0, <1>3, <2>1, NothingIsNoKey DEF FreezeAssets, Held
  <2> QED BY <2>1, <2>5, <2>6 DEF TypeOK, Stored, Locals, Held
<1>4. ASSUME RestoreDraftAssets(r) PROVE TypeOK'
  <2>1. Locals' /\ pc'[r] = "idle" /\ \A s \in Requests : s # r => pc'[s] = pc[s]
    BY <1>0, <1>4, EndsType DEF RestoreDraftAssets
  <2>2. ver[r] \in Versions /\ head < MaxVersion
    BY <1>0, <1>4, AssetAssumption
       DEF IInv, Removals, RestoreDraftAssets, Stored, Versions, AssetAssumption
  <2>3. draft' \in Sets
    BY <1>0, <1>4, <2>2 DEF RestoreDraftAssets, Stored
  <2>4. head' \in 0..MaxVersion /\ live' \in 0..head'
    BY <1>0, <1>4, <2>2, AssetAssumption DEF RestoreDraftAssets, Stored, AssetAssumption
  <2>5. Stored'
    BY <1>0, <1>4, <2>3, <2>4 DEF RestoreDraftAssets, Stored, sweep
  <2>6. Held'
    BY <1>0, <1>4, <2>1, NothingIsNoKey DEF RestoreDraftAssets, Held
  <2> QED BY <2>1, <2>5, <2>6 DEF TypeOK, Stored, Locals, Held
<1>5. ASSUME RemoveApp(r) PROVE TypeOK'
  <2>1. Stored'
    BY <1>0, <1>5 DEF RemoveApp, Stored, state, rows, sweep
  <2>2. Locals'
    BY <1>0, <1>5 DEF RemoveApp, Locals, Steps
  <2>3. Held'
    BY <1>0, <1>5, NothingIsNoKey DEF RemoveApp, Held, Locals
  <2> QED BY <2>1, <2>2, <2>3 DEF TypeOK, Stored, Locals, Held
<1>6. ASSUME CommitPurge(r) PROVE TypeOK'
  <2>1. Locals' /\ pc'[r] = "idle" /\ \A s \in Requests : s # r => pc'[s] = pc[s]
    BY <1>0, <1>6, EndsType DEF CommitPurge
  <2>2. Stored'
    BY <1>0, <1>6, AssetAssumption DEF CommitPurge, Stored, Sets, sweep, AssetAssumption
  <2>3. Held'
    BY <1>0, <1>6, <2>1, NothingIsNoKey DEF CommitPurge, Held
  <2> QED BY <2>1, <2>2, <2>3 DEF TypeOK, Stored, Locals, Held
<1> QED BY <1>1, <1>2, <1>3, <1>4, <1>5, <1>6 DEF Proceeds

(* A request that fails gives back what it holds. *)
LEMMA FailsType ==
    ASSUME IInv, NEW r \in Requests, Fails(r)
    PROVE  TypeOK'
<1>0. Stored /\ Locals /\ Held
  BY TypeParts DEF IInv
<1>1. Locals' /\ pc'[r] = "idle" /\ \A s \in Requests : s # r => pc'[s] = pc[s]
  BY <1>0, EndsType DEF Fails
<1>2. Stored'
  BY <1>0 DEF Fails, Stored, state, rows, sweep
<1>3. Held'
  BY <1>0, <1>1, NothingIsNoKey DEF Fails, Freed, Held
<1> QED BY <1>1, <1>2, <1>3 DEF TypeOK, Stored, Locals, Held

(* The sweep and the steps of the app's row leave requests and locks alone. *)
LEMMA OthersType ==
    ASSUME IInv, SweepActs \/ RowActs \/ UNCHANGED vars
    PROVE  TypeOK' /\ UNCHANGED <<locks, local>>
<1>0. Stored /\ Locals /\ Held
  BY TypeParts DEF IInv
<1>1. UNCHANGED <<locks, local>>
  BY DEF SweepActs, RowActs, Sweeps, SweepDraft, SweepSets, SweepDirectory, SweepList,
     SweepOrphans, SweepDies, DayPasses, CreateVersion, UnpublishApp, TakedownApp,
     RestoreApp, SoftDeleteApp, vars
<1>2. Locals' /\ Held'
  BY <1>0, <1>1 DEF Locals, Held, locks, local
<1>3. ASSUME SweepActs PROVE Stored'
  <2>1. CASE SweepDraft
    BY <1>0, <2>1 DEF SweepDraft, Stored, Sets, state
  <2>2. CASE SweepSets
    BY <1>0, <2>2 DEF SweepSets, NoRows, Stored, Sets, state
  <2>3. CASE SweepDirectory
    BY <1>0, <2>3 DEF SweepDirectory, Stored, state, rows
  <2>4. CASE SweepList
    BY <1>0, <2>4 DEF SweepList, Stored, state, rows
  <2>5. ASSUME NEW aged \in SUBSET Keys, SweepOrphans(aged) PROVE Stored'
    BY <1>0, <2>5 DEF SweepOrphans, Stored, state, rows
  <2>6. CASE SweepDies
    BY <1>0, <2>6 DEF SweepDies, Stored, state, rows
  <2> QED BY <1>3, <2>1, <2>2, <2>3, <2>4, <2>5, <2>6 DEF SweepActs, Sweeps
<1>4. ASSUME RowActs PROVE Stored'
  <2>1. UNCHANGED <<rows, disk, sweep>>
    BY <1>4 DEF RowActs, DayPasses, CreateVersion, UnpublishApp, TakedownApp, RestoreApp,
       SoftDeleteApp
  <2>2. /\ app' \in {"live", "down", "deleted", "expired", "gone"}
        /\ head' \in 0..MaxVersion /\ live' \in 0..head'
    BY <1>0, <1>4, AssetAssumption
       DEF RowActs, DayPasses, CreateVersion, UnpublishApp, TakedownApp, RestoreApp,
           SoftDeleteApp, Stored, AssetAssumption
  <2> QED BY <1>0, <2>1, <2>2 DEF Stored, rows, sweep
<1>5. ASSUME UNCHANGED vars PROVE Stored'
  BY <1>0, <1>5 DEF vars, Stored, state, rows, sweep
<1> QED BY <1>1, <1>2, <1>3, <1>4, <1>5 DEF TypeOK, Stored, Locals, Held

(* Every step keeps the types. *)
LEMMA NextType ==
    ASSUME IInv, [Next]_vars
    PROVE  TypeOK'
<1>1. ASSUME NEW r \in Requests, Served(r) PROVE TypeOK'
  BY <1>1, CallsType, ProceedsType, FailsType DEF Served
<1> QED BY <1>1, OthersType, WhoActs

-----------------------------------------------------------------------------
(* What the others keep while a request acts.                              *)

(* A request leaves the others' locals alone. *)
LEMMA OthersKeep ==
    ASSUME IInv, NEW r \in Requests, Served(r), NEW s \in Requests, s # r
    PROVE  /\ pc'[s] = pc[s] /\ name'[s] = name[s] /\ key'[s] = key[s]
           /\ drop'[s] = drop[s] /\ ver'[s] = ver[s]
<1>0. Locals
  BY TypeParts DEF IInv
<1>1. ASSUME NEW step, NEW n, NEW k, NEW D, NEW old, Becomes(r, step, n, k, D, old)
      PROVE  /\ pc'[s] = pc[s] /\ name'[s] = name[s] /\ key'[s] = key[s]
             /\ drop'[s] = drop[s] /\ ver'[s] = ver[s]
  BY <1>0, <1>1 DEF Locals, Becomes
<1>2. ASSUME NEW step, NEW v, Locks(r, step, v)
      PROVE  /\ pc'[s] = pc[s] /\ name'[s] = name[s] /\ key'[s] = key[s]
             /\ drop'[s] = drop[s] /\ ver'[s] = ver[s]
  BY <1>0, <1>2 DEF Locals, Locks
<1>3. ASSUME RemoveApp(r)
      PROVE  /\ pc'[s] = pc[s] /\ name'[s] = name[s] /\ key'[s] = key[s]
             /\ drop'[s] = drop[s] /\ ver'[s] = ver[s]
  BY <1>0, <1>3 DEF Locals, RemoveApp
<1>4. \/ \E step, n, k, D, old : Becomes(r, step, n, k, D, old)
      \/ \E step, v : Locks(r, step, v)
      \/ RemoveApp(r)
  BY DEF Served, Calls, Proceeds, Fails, StoreAsset, DeleteAsset, Publish, RestoreVersion,
         PurgeApp, InsertAsset, ReleaseAssetFiles, FreezeAssets, RestoreDraftAssets,
         CommitPurge, Ends
<1> QED BY <1>1, <1>2, <1>3, <1>4

(* While one holds the assets lock, another request changes neither what is  *)
(* stored nor the files.                                                     *)
LEMMA AssetsLockHolds ==
    ASSUME IInv, NEW r \in Requests, Served(r), NEW s \in Requests, s # r, assetsLock = s
    PROVE  UNCHANGED <<state, rows, disk>>
<1>1. assetsLock # Nothing /\ pc[r] \notin {"insert", "commit"}
  BY NothingIsNoKey DEF IInv, TypeOK
<1> QED BY <1>1
        DEF Served, Calls, Proceeds, Fails, StoreAsset, DeleteAsset, Publish, RestoreVersion,
            PurgeApp, Locks, InsertAsset, ReleaseAssetFiles, FreezeAssets, RestoreDraftAssets,
            RemoveApp, CommitPurge

(* While one holds the app's row, another request leaves the app alone. *)
LEMMA RowLockHolds ==
    ASSUME IInv, NEW r \in Requests, Served(r), NEW s \in Requests, s # r, rowLock = s
    PROVE  UNCHANGED state
<1>1. pc[r] \notin {"freeze", "reset", "remove", "commit"}
  BY DEF IInv, TypeOK
<1> QED BY <1>1
        DEF Served, Calls, Proceeds, Fails, StoreAsset, DeleteAsset, Publish, RestoreVersion,
            PurgeApp, Locks, InsertAsset, ReleaseAssetFiles, FreezeAssets, RestoreDraftAssets,
            RemoveApp, CommitPurge

(* Only an upload whose bytes have arrived is about to insert. *)
LEMMA OnlyStoreInserts ==
    ASSUME IInv, NEW s \in Requests, Served(s), pc'[s] = "insert"
    PROVE  \E n \in Names, c \in Keys : StoreAsset(s, n, c)
<1>0. Locals
  BY TypeParts DEF IInv
<1>1. ASSUME NEW step \in {"freeze", "reset", "remove"}, NEW v, Locks(s, step, v)
      PROVE  FALSE
  BY <1>0, <1>1 DEF Locals, Locks
<1>2. ASSUME NEW step \in {"idle", "release"}, NEW n, NEW k, NEW D, NEW old,
             Becomes(s, step, n, k, D, old)
      PROVE  FALSE
  BY <1>0, <1>2 DEF Locals, Becomes
<1>3. ~RemoveApp(s)
  BY <1>0 DEF Locals, RemoveApp
<1> QED BY <1>1, <1>2, <1>3
        DEF Served, Calls, Proceeds, Fails, DeleteAsset, Publish, RestoreVersion, PurgeApp,
            InsertAsset, ReleaseAssetFiles, FreezeAssets, RestoreDraftAssets, CommitPurge, Ends

(* An upload's knowledge survives every step. *)
LEMMA UploadsKept ==
    ASSUME IInv, [Next]_vars
    PROVE  Uploads'
<1> SUFFICES ASSUME NEW s \in Requests, pc'[s] = "insert"
             PROVE  /\ name'[s] \in Names /\ key'[s] \in Keys
                    /\ app' \in {"live", "down", "deleted"}
                    /\ app' # "deleted" => key'[s] \in disk'
                    /\ live' \notin drop'[s]
  BY DEF Uploads
<1>0. Locals
  BY TypeParts DEF IInv
<1>1. ASSUME NEW r \in Requests, Served(r), r # s
      PROVE  /\ name'[s] \in Names /\ key'[s] \in Keys
             /\ app' \in {"live", "down", "deleted"}
             /\ app' # "deleted" => key'[s] \in disk'
             /\ live' \notin drop'[s]
  <2>1. pc[s] = "insert" /\ name'[s] = name[s] /\ key'[s] = key[s] /\ drop'[s] = drop[s]
    BY <1>1, OthersKeep
  <2>2. assetsLock = s
    BY <2>1 DEF IInv, TypeOK
  <2>3. UNCHANGED <<state, disk>>
    BY <1>1, <2>2, AssetsLockHolds
  <2> QED BY <2>1, <2>3 DEF IInv, Uploads, state
<1>2. ASSUME Served(s)
      PROVE  /\ name'[s] \in Names /\ key'[s] \in Keys
             /\ app' \in {"live", "down", "deleted"}
             /\ app' # "deleted" => key'[s] \in disk'
             /\ live' \notin drop'[s]
  <2>1. PICK n \in Names, c \in Keys : StoreAsset(s, n, c)
    BY <1>2, OnlyStoreInserts
  <2>2. PICK k \in KeyFor(c) : /\ IF Reused(k) THEN UNCHANGED disk ELSE disk' = disk \cup {k}
                               /\ Becomes(s, "insert", n, k, Pruned(n, k), draft[n])
    BY <2>1 DEF StoreAsset
  <2>3. name'[s] = n /\ key'[s] = k /\ drop'[s] = Pruned(n, k)
    BY <1>0, <2>2 DEF Locals, Becomes
  <2>4. app = "live" /\ UNCHANGED state
    BY <2>1 DEF StoreAsset
  <2>5. k \in Keys /\ k \in disk'
    BY <2>2, KeyForIsKey DEF Reused, IInv
  <2> QED BY <2>3, <2>4, <2>5, PrunedSparesLive DEF state
<1>3. ASSUME SweepActs \/ RowActs \/ UNCHANGED vars
      PROVE  /\ name'[s] \in Names /\ key'[s] \in Keys
             /\ app' \in {"live", "down", "deleted"}
             /\ app' # "deleted" => key'[s] \in disk'
             /\ live' \notin drop'[s]
  <2>1. name' = name /\ key' = key /\ drop' = drop /\ pc[s] = "insert"
    BY <1>3, OthersType DEF local
  <2>2. assetsLock = s /\ assetsLock # Nothing /\ 0 \notin drop[s] /\ s \in Requests
    BY <2>1, NothingIsNoKey DEF IInv, TypeOK, Versions
  <2>3. /\ name[s] \in Names /\ key[s] \in Keys
        /\ app \in {"live", "down", "deleted"}
        /\ app # "deleted" => key[s] \in disk
        /\ live \notin drop[s]
        /\ sw \notin {"sets", "dir"}
    BY <2>1 DEF IInv, Uploads, Removals
  <2>4. ASSUME SweepActs PROVE UNCHANGED <<state, disk>>
    BY <2>2, <2>3, <2>4
       DEF SweepActs, Sweeps, SweepDraft, SweepSets, SweepDirectory, SweepList, SweepOrphans,
           SweepDies
  <2>5. ASSUME RowActs
        PROVE  /\ app' \in {"live", "down", "deleted"}
               /\ app' # "deleted" => app # "deleted"
               /\ live' \in {live, 0} /\ UNCHANGED disk
    BY <2>1, <2>3, <2>5
       DEF RowActs, DayPasses, CreateVersion, UnpublishApp, TakedownApp, RestoreApp, SoftDeleteApp
  <2>6. /\ app' \in {"live", "down", "deleted"}
        /\ app' # "deleted" => app # "deleted"
        /\ live' \in {live, 0} /\ disk' = disk
    BY <1>3, <2>3, <2>4, <2>5 DEF state, vars
  <2>7. live' \notin drop'[s]
    BY <2>1, <2>2, <2>3, <2>6
  <2> QED BY <2>1, <2>3, <2>6, <2>7
<1> QED BY <1>1, <1>2, <1>3, WhoActs

(* What a purge, a publish, a restore and the sweep found stays so. *)
LEMMA RemovalsKept ==
    ASSUME IInv, [Next]_vars
    PROVE  Removals'
<1>0. Stored /\ Locals /\ Held
  BY TypeParts DEF IInv
<1> DEFINE Found(s) ==
        /\ pc[s] \in {"remove", "commit"} => app \in {"deleted", "expired"}
        /\ pc[s] = "freeze" => app = "live" /\ ver[s] \in 1..head
        /\ pc[s] = "reset" => app = "live" /\ ver[s] \in 1..head /\ head < MaxVersion
<1>1. ASSUME NEW s \in Requests PROVE Found(s)'
  <2>1. ASSUME NEW r \in Requests, Served(r), r # s PROVE Found(s)'
    <3>1. pc'[s] = pc[s] /\ ver'[s] = ver[s]
      BY <2>1, OthersKeep
    <3>2. pc[s] \in {"freeze", "reset", "remove", "commit"} => UNCHANGED state
      BY <2>1, RowLockHolds DEF IInv, TypeOK
    <3> QED BY <3>1, <3>2 DEF IInv, Removals, state
  <2>2. ASSUME Served(s) PROVE Found(s)'
    <3>1. ASSUME NEW v \in Versions, Publish(s, v) \/ RestoreVersion(s, v) PROVE Found(s)'
      BY <1>0, <3>1 DEF Publish, RestoreVersion, Locks, Locals, Stored, state, Versions
    <3>2. ASSUME PurgeApp(s) PROVE Found(s)'
      BY <1>0, <3>2 DEF PurgeApp, Locks, Locals, state
    <3>3. ASSUME RemoveApp(s) PROVE Found(s)'
      BY <1>0, <3>3 DEF RemoveApp, Locals, state, IInv, Removals
    <3>4. ASSUME NEW step \in {"idle", "insert", "release"}, NEW n, NEW k, NEW D, NEW old,
                 Becomes(s, step, n, k, D, old)
          PROVE  Found(s)'
      BY <1>0, <3>4 DEF Becomes, Locals
    <3> QED BY <2>2, <3>1, <3>2, <3>3, <3>4
            DEF Served, Calls, Proceeds, Fails, StoreAsset, DeleteAsset, InsertAsset,
                ReleaseAssetFiles, FreezeAssets, RestoreDraftAssets, CommitPurge, Ends
  <2>3. ASSUME SweepActs \/ RowActs \/ UNCHANGED vars PROVE Found(s)'
    <3>1. UNCHANGED <<pc, ver>>
      BY <2>3, OthersType DEF local
    <3>2. Found(s) /\ (pc[s] \in {"freeze", "reset", "remove", "commit"} => rowLock # Nothing)
      BY NothingIsNoKey DEF IInv, Removals, TypeOK
    <3>3. ASSUME pc[s] \in {"freeze", "reset", "remove", "commit"}
          PROVE  UNCHANGED state \/ (app = "deleted" /\ app' = "expired")
      BY <2>3, <3>2, <3>3
         DEF SweepActs, Sweeps, SweepDraft, SweepSets, SweepDirectory, SweepList, SweepOrphans,
             SweepDies, RowActs, DayPasses, CreateVersion, UnpublishApp, TakedownApp, RestoreApp,
             SoftDeleteApp, vars
    <3> QED BY <3>1, <3>2, <3>3 DEF state
  <2> QED BY <2>1, <2>2, <2>3, WhoActs
<1>2. (sw \in {"sets", "dir"} => app \in {"expired", "gone"})' /\ (app = "gone" => live = 0)'
  <2>1. ASSUME NEW r \in Requests, Served(r)
        PROVE  /\ sw' = sw /\ (app' = app \/ app' = "gone")
               /\ app' = "gone" => live' = 0
    <3>1. ASSUME NEW step, NEW v, Locks(r, step, v)
          PROVE  sw' = sw /\ UNCHANGED state
      BY <3>1 DEF Locks, sweep
    <3>2. ASSUME FreezeAssets(r) PROVE sw' = sw /\ app' = app /\ app # "gone"
      BY <3>2 DEF FreezeAssets, sweep, IInv, Removals
    <3>3. ASSUME CommitPurge(r) PROVE sw' = sw /\ app' = "gone" /\ live' = 0
      BY <3>3 DEF CommitPurge, sweep
    <3>4. ASSUME InsertAsset(r) \/ ReleaseAssetFiles(r) \/ RemoveApp(r) \/ Fails(r)
                 \/ (\E n \in Names, c \in Keys : StoreAsset(r, n, c))
                 \/ (\E n \in Names : DeleteAsset(r, n))
          PROVE  sw' = sw /\ UNCHANGED state
      BY <3>4 DEF InsertAsset, ReleaseAssetFiles, RemoveApp, Fails, StoreAsset, DeleteAsset, sweep
    <3>5. ASSUME RestoreDraftAssets(r) PROVE sw' = sw /\ app' = app /\ live' = live
      BY <3>5 DEF RestoreDraftAssets, sweep
    <3> QED BY <2>1, <3>1, <3>2, <3>3, <3>4, <3>5
            DEF Served, Calls, Proceeds, Publish, RestoreVersion, PurgeApp, IInv, Removals, state
  <2>2. ASSUME SweepActs
        PROVE  /\ UNCHANGED state
               /\ sw' \in {"sets", "dir"} => sw \in {"sets", "dir"} \/ app = "expired"
    BY <2>2 DEF SweepActs, Sweeps, SweepDraft, SweepSets, SweepDirectory, SweepList,
                SweepOrphans, SweepDies, Leftover
  <2>3. ASSUME RowActs
        PROVE  sw' = sw /\ app # "gone" /\ app' # "gone" /\ app # "expired"
    BY <2>3 DEF RowActs, DayPasses, CreateVersion, UnpublishApp, TakedownApp, RestoreApp,
                SoftDeleteApp, sweep
  <2> QED BY <2>1, <2>2, <2>3, WhoActs DEF IInv, Removals, vars, state, sweep
<1> QED BY <1>1, <1>2 DEF Removals

-----------------------------------------------------------------------------
(* The files.                                                              *)

(* What the rows name, name by name. *)
DraftThere == \A n \in Names : draft[n] # Nothing => draft[n] \in disk

SetsThere ==
    \A v \in Versions : sets[v] # Nothing =>
        \A n \in Names : sets[v][n] # Nothing => sets[v][n] \in disk

LEMMA ThereIsStored == ServedAreStored <=> (app \in {"live", "down"} => DraftThere /\ SetsThere)
BY DEF ServedAreStored, DraftThere, SetsThere, RowKeys, FrozenKeys, SetKeys

(* A file still referenced is not released. *)
LEMMA ReleaseSpares ==
    ASSUME DraftThere /\ SetsThere, NEW K, disk' = disk \ Unreferenced(K), UNCHANGED <<draft, sets>>
    PROVE  DraftThere' /\ SetsThere'
BY UnreferencedSpares DEF DraftThere, SetsThere, RowKeys, FrozenKeys, SetKeys

(* What a request does leaves the rows' files in place. *)
LEMMA RequestsKeepFiles ==
    ASSUME IInv, NEW r \in Requests, Served(r), app \in {"live", "down"}
    PROVE  DraftThere' /\ SetsThere'
<1>0. /\ Stored /\ Locals /\ Held
      /\ DraftThere /\ SetsThere
  BY TypeParts, ThereIsStored DEF IInv
<1>1. ASSUME NEW n \in Names, NEW c \in Keys, StoreAsset(r, n, c) PROVE DraftThere' /\ SetsThere'
  <2>1. disk \subseteq disk' /\ UNCHANGED <<draft, sets>>
    BY <1>1 DEF StoreAsset, rows
  <2> QED BY <1>0, <2>1 DEF DraftThere, SetsThere
<1>2. ASSUME NEW n \in Names, DeleteAsset(r, n) PROVE DraftThere' /\ SetsThere'
  BY <1>0, <1>2 DEF DeleteAsset, DraftThere, SetsThere, Stored, Sets
<1>3. ASSUME NEW step, NEW v, Locks(r, step, v) PROVE DraftThere' /\ SetsThere'
  BY <1>0, <1>3 DEF Locks, rows, DraftThere, SetsThere
<1>4. ASSUME InsertAsset(r) PROVE DraftThere' /\ SetsThere'
  <2>1. name[r] \in Names /\ key[r] \in disk
    BY <1>4 DEF InsertAsset, IInv, Uploads
  <2>2. DraftThere'
    BY <1>0, <1>4, <2>1 DEF InsertAsset, DraftThere, Stored, Sets
  <2>3. SetsThere'
    BY <1>0, <1>4 DEF InsertAsset, SetsThere, Dropped
  <2> QED BY <2>2, <2>3
<1>5. ASSUME ReleaseAssetFiles(r) PROVE DraftThere' /\ SetsThere'
  BY <1>0, <1>5, ReleaseSpares DEF ReleaseAssetFiles, rows
<1>6. ASSUME FreezeAssets(r) PROVE DraftThere' /\ SetsThere'
  <2>1. /\ draft' = draft /\ disk' = disk
        /\ \A v \in Versions : sets'[v] \in {Nothing, draft, sets[v]}
    BY <1>0, <1>6 DEF FreezeAssets, Dropped, Stored
  <2> QED BY <1>0, <2>1 DEF DraftThere, SetsThere
<1>7. ASSUME RestoreDraftAssets(r) PROVE DraftThere' /\ SetsThere'
  <2>1. ver[r] \in Versions
    BY <1>0, <1>7, AssetAssumption
       DEF RestoreDraftAssets, IInv, Removals, Stored, Versions, AssetAssumption
  <2>2. /\ sets' = sets /\ disk' = disk
        /\ draft' = IF sets[ver[r]] = Nothing THEN draft ELSE sets[ver[r]]
    BY <1>7 DEF RestoreDraftAssets
  <2> QED BY <1>0, <2>1, <2>2 DEF DraftThere, SetsThere
<1>8. ~RemoveApp(r) /\ ~CommitPurge(r)
  BY DEF RemoveApp, CommitPurge, IInv, Removals
<1>9. ASSUME Fails(r) PROVE DraftThere' /\ SetsThere'
  BY <1>0, <1>9 DEF Fails, rows, DraftThere, SetsThere
<1> QED BY <1>1, <1>2, <1>3, <1>4, <1>5, <1>6, <1>7, <1>8, <1>9
        DEF Served, Calls, Proceeds, Publish, RestoreVersion, PurgeApp

(* Nor do the sweep and the steps of the app's row. *)
LEMMA OthersKeepFiles ==
    ASSUME IInv, SweepActs \/ RowActs \/ UNCHANGED vars, app \in {"live", "down"}
    PROVE  DraftThere' /\ SetsThere'
<1>0. DraftThere /\ SetsThere
  BY ThereIsStored DEF IInv
<1>1. ASSUME NEW aged \in SUBSET Keys, SweepOrphans(aged) PROVE DraftThere' /\ SetsThere'
  BY <1>0, <1>1, ReleaseSpares DEF SweepOrphans, rows
<1>2. ~SweepDraft /\ ~SweepSets /\ ~SweepDirectory
  BY DEF SweepDraft, SweepSets, SweepDirectory, Leftover, IInv, Removals
<1>3. ASSUME SweepList \/ SweepDies \/ RowActs \/ UNCHANGED vars PROVE DraftThere' /\ SetsThere'
  <2>1. UNCHANGED <<rows, disk>>
    BY <1>3 DEF SweepList, SweepDies, RowActs, DayPasses, CreateVersion, UnpublishApp,
       TakedownApp, RestoreApp, SoftDeleteApp, vars
  <2> QED BY <1>0, <2>1 DEF DraftThere, SetsThere, rows
<1> QED BY <1>1, <1>2, <1>3 DEF SweepActs, Sweeps

(* An app that is deleted stays deleted. *)
LEMMA DeletedForGood ==
    ASSUME IInv, [Next]_vars, app' \in {"live", "down"}
    PROVE  app \in {"live", "down"}
<1>1. ASSUME NEW r \in Requests, Served(r) PROVE app' \in {app, "gone"}
  BY <1>1 DEF Served, Calls, Proceeds, Fails, StoreAsset, DeleteAsset, Publish, RestoreVersion,
     PurgeApp, Locks, InsertAsset, ReleaseAssetFiles, FreezeAssets, RestoreDraftAssets, RemoveApp,
     CommitPurge, state
<1>2. ASSUME SweepActs \/ RowActs \/ UNCHANGED vars
      PROVE  app' = app \/ app \in {"live", "down"} \/ app' = "expired"
  BY <1>2 DEF SweepActs, Sweeps, SweepDraft, SweepSets, SweepDirectory, SweepList, SweepOrphans,
     SweepDies, RowActs, DayPasses, CreateVersion, UnpublishApp, TakedownApp, RestoreApp,
     SoftDeleteApp, vars, state
<1> QED BY <1>1, <1>2, WhoActs

-----------------------------------------------------------------------------
(* The quota.  The check under the lock compares what stays with the quota, *)
(* so what matters of the sum is that fewer files have no more bytes.       *)

(* The values of a function on a finite set are finitely many. *)
LEMMA FiniteRange ==
    ASSUME NEW S, IsFiniteSet(S), NEW f, f \in [S -> {f[x] : x \in S}]
    PROVE  IsFiniteSet({f[x] : x \in S})
<1>1. f \in Surjection(S, {f[x] : x \in S})
  BY DEF Surjection
<1> QED BY <1>1, FS_Surjection

(* Fewer files have no more bytes. *)
LEMMA BytesGrow ==
    ASSUME NEW K \in SUBSET Keys, IsFiniteSet(K), NEW L \in SUBSET K
    PROVE  Bytes(K) \in Nat /\ Bytes(L) \in Nat /\ Bytes(L) <= Bytes(K)
<1> DEFINE of == [k \in K |-> {k} \X (1..Size[k])]
           U == UNION {of[k] : k \in K}
           V == UNION {{k} \X (1..Size[k]) : k \in L}
<1>1. \A k \in K : IsFiniteSet(of[k])
  <2> TAKE k \in K
  <2>1. Size[k] \in Int
    BY AssetAssumption DEF AssetAssumption
  <2>2. IsFiniteSet(1..Size[k])
    BY <2>1, FS_Interval
  <2>3. IsFiniteSet({k})
    BY FS_Singleton
  <2> QED BY <2>2, <2>3, FS_Product
<1>2. IsFiniteSet({of[k] : k \in K})
  <2> HIDE DEF of
  <2>1. of \in [K -> {of[k] : k \in K}]
    BY DEF of
  <2> QED BY <2>1, FiniteRange
<1>3. IsFiniteSet(U)
  <2> HIDE DEF of
  <2> QED BY <1>1, <1>2, FS_UNION
<1>4. U = UNION {{k} \X (1..Size[k]) : k \in K} /\ V \in SUBSET U
  OBVIOUS
<1>5. Cardinality(U) \in Nat /\ IsFiniteSet(V) /\ Cardinality(V) <= Cardinality(U)
  <2> HIDE DEF U, V
  <2> QED BY <1>3, <1>4, FS_Subset, FS_CardinalityType
<1>6. Cardinality(V) \in Nat
  <2> HIDE DEF V
  <2> QED BY <1>5, FS_CardinalityType
<1> QED BY <1>4, <1>5, <1>6 DEF Bytes

(* A set's rows are finitely many. *)
LEMMA RowsFinite ==
    ASSUME NEW f \in Sets
    PROVE  IsFiniteSet(RowKeys(f))
<1>1. IsFiniteSet({f[n] : n \in Names})
  <2>1. f \in [Names -> {f[n] : n \in Names}]
    BY DEF Sets
  <2> QED BY <2>1, FiniteRange, AssetAssumption DEF AssetAssumption
<1> QED BY <1>1, FS_Subset DEF RowKeys

\* The files the draft f and the sets of S name.
Named(f, S) == RowKeys(f) \cup UNION {SetKeys(v) : v \in S}

(* They are finitely many, and some other file makes no difference. *)
LEMMA NamedFinite ==
    ASSUME Stored, NEW f \in Sets, NEW S \in SUBSET Versions, NEW X \in SUBSET Keys, IsFiniteSet(X)
    PROVE  Named(f, S) \cup X \in SUBSET Keys /\ IsFiniteSet(Named(f, S) \cup X)
<1> DEFINE g == [v \in S |-> SetKeys(v)]
<1>1. \A v \in S : IsFiniteSet(SetKeys(v)) /\ SetKeys(v) \in SUBSET Keys
  <2> TAKE v \in S
  <2>1. CASE sets[v] = Nothing
    BY <2>1, FS_EmptySet DEF SetKeys
  <2>2. CASE sets[v] # Nothing
    <3>1. sets[v] \in Sets
      BY <2>2 DEF Stored
    <3> QED BY <2>2, <3>1, RowsFinite, KeysOfRows DEF SetKeys
  <2> QED BY <2>1, <2>2
<1>2. IsFiniteSet(S)
  <2>1. IsFiniteSet(Versions)
    BY AssetAssumption, FS_Interval DEF Versions, AssetAssumption
  <2> QED BY <2>1, FS_Subset
<1>3. IsFiniteSet({g[v] : v \in S}) /\ \A T \in {g[v] : v \in S} : IsFiniteSet(T)
  <2>1. g \in [S -> {g[v] : v \in S}]
    OBVIOUS
  <2>2. \A T \in {g[v] : v \in S} : IsFiniteSet(T)
    BY <1>1
  <2> HIDE DEF g
  <2> QED BY <1>2, <2>1, <2>2, FiniteRange
<1>4. IsFiniteSet(UNION {g[v] : v \in S})
  <2> HIDE DEF g
  <2> QED BY <1>3, FS_UNION
<1>5. UNION {g[v] : v \in S} = UNION {SetKeys(v) : v \in S}
  OBVIOUS
<1>6. IsFiniteSet(RowKeys(f)) /\ RowKeys(f) \in SUBSET Keys
  BY RowsFinite, KeysOfRows
<1>7. IsFiniteSet(Named(f, S))
  BY <1>4, <1>5, <1>6, FS_Union DEF Named
<1>8. Named(f, S) \in SUBSET Keys
  BY <1>1, <1>6 DEF Named
<1> QED BY <1>7, <1>8, FS_Union

(* What a set of files fits, a smaller one fits. *)
LEMMA FewerFit ==
    ASSUME NEW K \in SUBSET Keys, IsFiniteSet(K), NEW L \in SUBSET K, Bytes(K) <= Quota
    PROVE  Bytes(L) <= Quota
<1>1. Bytes(K) \in Nat /\ Bytes(L) \in Nat /\ Bytes(L) <= Bytes(K)
  BY BytesGrow
<1> QED BY <1>1, AssetAssumption DEF AssetAssumption

(* A non-empty bounded set of numbers has its maximum. *)
LEMMA MaxIs ==
    ASSUME NEW n \in Nat, NEW S \in SUBSET (0..n), S # {}
    PROVE  Max(S) \in S
<1> DEFINE T == {n - m : m \in S}
<1>1. T \subseteq Nat /\ T # {}
  <2>1. T # {}
    OBVIOUS
  <2>2. \A m \in S : m \in Int /\ m <= n
    OBVIOUS
  <2>3. \A m \in S : n - m \in Nat
    BY <2>2
  <2> QED BY <2>1, <2>3
<1>2. PICK x \in T : \A y \in T : ~(<<y, x>> \in OpToRel(<, Nat))
  BY <1>1, NatLessThanWellFounded, WFMin
<1>3. \A y \in T : ~(y < x)
  BY <1>1, <1>2 DEF OpToRel
<1>4. PICK m \in S : x = n - m
  BY <1>2
<1>5. \A k \in S : m >= k
  <2> TAKE k \in S
  <2>1. m \in Int /\ k \in Int /\ n - k \in T
    BY <1>4
  <2> QED BY <1>3, <1>4, <2>1
<1> QED BY <1>5 DEF Max

(* With no older set kept, only the live one is. *)
LEMMA NoneBeyond ==
    ASSUME Stored, NEW v \in Versions \ Beyond(live, 0), sets[v] # Nothing
    PROVE  v = live
<1>1. newer[v] \ {live} \in SUBSET Versions
  BY DEF Stored
<1>2. IsFiniteSet(Versions)
  BY AssetAssumption, FS_Interval DEF Versions, AssetAssumption
<1>3. Cardinality(newer[v] \ {live}) >= 0
  BY <1>1, <1>2, FS_Subset, FS_CardinalityType
<1> QED BY <1>3 DEF Beyond, HasSet

(* The sum is over the files that are named, and those given besides. *)
LEMMA UniqueIsNamed ==
    ASSUME NEW f, NEW S, NEW X
    PROVE  UniqueBytes(f, S, X) = Bytes(Named(f, S) \cup X)
<1>1. RowKeys(f) \cup (UNION {SetKeys(v) : v \in S}) \cup X = Named(f, S) \cup X
  BY DEF Named
<1> QED BY <1>1 DEF UniqueBytes

(* An upload that is not over the quota prunes until the rest fits. *)
LEMMA PrunedFits ==
    ASSUME Stored, NEW n \in Names, NEW k \in Keys, ~OverQuota(n, k)
    PROVE  Bytes(Named(Replaced(n), Versions \ Pruned(n, k)) \cup {k}) <= Quota
<1> DEFINE fits(m) == UniqueBytes(Replaced(n), Versions \ Beyond(live, m), {k}) <= Quota
           M == {m \in 0..SetsKept : m = 0 \/ fits(m)}
<1>1. Max(M) \in M
  <2>1. M \in SUBSET (0..SetsKept) /\ 0 \in M /\ SetsKept \in Nat
    BY AssetAssumption DEF AssetAssumption
  <2> HIDE DEF M
  <2> QED BY <2>1, MaxIs
<1>2. Pruned(n, k) = Beyond(live, Max(M))
  BY DEF Pruned
<1>3. CASE fits(Max(M))
  <2>1. UniqueBytes(Replaced(n), Versions \ Pruned(n, k), {k}) <= Quota
    BY <1>2, <1>3
  <2> QED BY <2>1, UniqueIsNamed
<1>4. CASE Max(M) = 0
  <2>1. Replaced(n) \in Sets
    BY DEF Replaced, Sets, Stored
  <2>2. live \in Versions \cup {0}
    BY AssetAssumption DEF Stored, Versions, AssetAssumption
  <2> DEFINE K == Named(Replaced(n), {live} \ {0}) \cup {k}
             L == Named(Replaced(n), Versions \ Beyond(live, 0)) \cup {k}
  <2>3. K \in SUBSET Keys /\ IsFiniteSet(K)
    <3>1. IsFiniteSet({k}) /\ {k} \in SUBSET Keys
      BY FS_Singleton
    <3>2. {live} \ {0} \in SUBSET Versions
      BY <2>2
    <3> QED BY <2>1, <3>1, <3>2, NamedFinite
  <2>4. Bytes(K) <= Quota
    <3>1. Bytes(K) = UniqueBytes(Replaced(n), {live} \ {0}, {k})
      BY UniqueIsNamed
    <3>2. Bytes(K) \in Nat
      <4> HIDE DEF K
      <4> QED BY <2>3, BytesGrow
    <3>3. ~(Bytes(K) > Quota)
      BY <3>1 DEF OverQuota
    <3> HIDE DEF K
    <3> QED BY <3>2, <3>3, AssetAssumption DEF AssetAssumption
  <2>5. L \in SUBSET K
    <3>1. ASSUME NEW v \in Versions \ Beyond(live, 0)
          PROVE  SetKeys(v) \subseteq UNION {SetKeys(w) : w \in {live} \ {0}}
      <4>1. CASE sets[v] = Nothing
        BY <4>1 DEF SetKeys
      <4>2. CASE sets[v] # Nothing
        <5>1. v = live /\ v # 0
          BY <4>2, NoneBeyond DEF Versions
        <5> QED BY <5>1
      <4> QED BY <4>1, <4>2
    <3> QED BY <3>1 DEF Named
  <2>6. Bytes(L) <= Quota
    <3> HIDE DEF K, L
    <3> QED BY <2>3, <2>4, <2>5, FewerFit
  <2> QED BY <1>2, <1>4, <2>6
<1> QED BY <1>1, <1>3, <1>4

\* What the files named after an upload under way will need.
Fitting ==
    \A r \in Requests : pc[r] = "insert" =>
        Bytes(Named(Replaced(name[r]), Versions \ drop[r]) \cup {key[r]}) <= Quota

QuotaInv == QuotaHolds /\ Fitting

(* The quota is about all files the app names. *)
LEMMA QuotaIs == QuotaHolds <=> Bytes(Named(draft, Versions)) <= Quota
<1>1. RowKeys(draft) \cup (UNION {SetKeys(v) : v \in Versions}) \cup {} = Named(draft, Versions)
  BY DEF Named
<1> QED BY <1>1 DEF QuotaHolds, UniqueBytes

(* The same of the next state. *)
LEMMA QuotaPrimed == QuotaHolds' <=> Bytes(Named(draft, Versions)') <= Quota
<1>1. (RowKeys(draft) \cup (UNION {SetKeys(v) : v \in Versions}) \cup {})' = Named(draft, Versions)'
  BY DEF Named
<1> QED BY <1>1 DEF QuotaHolds, UniqueBytes

(* But for an upload's commit, no step names a file that nothing named. *)
LEMMA FewNewNames ==
    ASSUME IInv, [Next]_vars
    PROVE  \/ Named(draft, Versions)' \subseteq Named(draft, Versions)
           \/ \E r \in Requests : InsertAsset(r)
<1> DEFINE Fewer == Named(draft, Versions)' \subseteq Named(draft, Versions)
<1>0. Stored /\ Locals
  BY TypeParts DEF IInv
<1>1. ASSUME UNCHANGED <<draft, sets>> PROVE Fewer
  BY <1>1 DEF Named, RowKeys, SetKeys
<1>2. ASSUME NEW r \in Requests, NEW n \in Names, DeleteAsset(r, n) PROVE Fewer
  <2>1. sets' = sets /\ RowKeys(draft)' \subseteq RowKeys(draft)
    BY <1>0, <1>2 DEF DeleteAsset, RowKeys, Stored, Sets
  <2> QED BY <2>1 DEF Named, SetKeys
<1>3. ASSUME NEW r \in Requests, FreezeAssets(r) PROVE Fewer
  <2>1. draft' = draft /\ \A v \in Versions : sets'[v] \in {Nothing, draft, sets[v]}
    BY <1>0, <1>3 DEF FreezeAssets, Dropped, Stored
  <2>2. \A v \in Versions : SetKeys(v)' \subseteq RowKeys(draft) \cup SetKeys(v)
    BY <2>1 DEF SetKeys
  <2> QED BY <2>1, <2>2 DEF Named, RowKeys
<1>4. ASSUME NEW r \in Requests, RestoreDraftAssets(r) PROVE Fewer
  <2>1. ver[r] \in Versions
    BY <1>0, <1>4, AssetAssumption
       DEF RestoreDraftAssets, IInv, Removals, Stored, Versions, AssetAssumption
  <2>2. sets' = sets /\ draft' = IF sets[ver[r]] = Nothing THEN draft ELSE sets[ver[r]]
    BY <1>4 DEF RestoreDraftAssets
  <2>3. RowKeys(draft)' \subseteq RowKeys(draft) \cup SetKeys(ver[r])
    BY <2>2 DEF RowKeys, SetKeys
  <2> QED BY <2>1, <2>2, <2>3 DEF Named, SetKeys
<1>5. ASSUME NEW r \in Requests, CommitPurge(r) PROVE Fewer
  BY <1>5 DEF CommitPurge, Named, RowKeys, SetKeys
<1>6. ASSUME SweepDraft \/ SweepSets PROVE Fewer
  <2>1. RowKeys(draft)' \subseteq RowKeys(draft) /\ \A v \in Versions : SetKeys(v)' \subseteq SetKeys(v)
    BY <1>6 DEF SweepDraft, SweepSets, NoRows, RowKeys, SetKeys
  <2> QED BY <2>1 DEF Named
<1>7. ASSUME NEW r \in Requests, Calls(r)
      PROVE  UNCHANGED <<draft, sets>> \/ \E n \in Names : DeleteAsset(r, n)
  BY <1>7 DEF Calls, StoreAsset, Publish, RestoreVersion, PurgeApp, Locks, rows
<1>8. ASSUME NEW r \in Requests, ReleaseAssetFiles(r) \/ RemoveApp(r) \/ Fails(r)
      PROVE  UNCHANGED <<draft, sets>>
  BY <1>8 DEF ReleaseAssetFiles, RemoveApp, Fails, rows
<1>9. ASSUME SweepActs \/ RowActs \/ UNCHANGED vars
      PROVE  UNCHANGED <<draft, sets>> \/ SweepDraft \/ SweepSets
  BY <1>9 DEF SweepActs, Sweeps, SweepDirectory, SweepList, SweepOrphans, SweepDies, RowActs,
     DayPasses, CreateVersion, UnpublishApp, TakedownApp, RestoreApp, SoftDeleteApp, vars, rows
<1>10. ASSUME NEW r \in Requests, Served(r) PROVE Fewer \/ InsertAsset(r)
  BY <1>1, <1>2, <1>3, <1>4, <1>5, <1>7, <1>8, <1>10 DEF Served, Proceeds
<1> QED BY <1>1, <1>6, <1>9, <1>10, WhoActs

(* The quota holds after each step, and what an upload found holds too. *)
LEMMA QuotaStep ==
    ASSUME IInv, QuotaInv, [Next]_vars
    PROVE  QuotaInv'
<1>0. Stored /\ Locals /\ Held
  BY TypeParts DEF IInv
<1>1. QuotaHolds'
  <2>1. CASE Named(draft, Versions)' \subseteq Named(draft, Versions)
    <3>1. Named(draft, Versions) \in SUBSET Keys /\ IsFiniteSet(Named(draft, Versions))
      <4>1. /\ Named(draft, Versions) \cup {} \in SUBSET Keys
            /\ IsFiniteSet(Named(draft, Versions) \cup {})
        BY <1>0, NamedFinite, FS_EmptySet DEF Stored
      <4>2. Named(draft, Versions) \cup {} = Named(draft, Versions)
        OBVIOUS
      <4> QED BY <4>1, <4>2
    <3>2. Bytes(Named(draft, Versions)') <= Quota
      BY <2>1, <3>1, QuotaIs, FewerFit DEF QuotaInv
    <3> QED BY <3>2, QuotaPrimed
  <2>2. ASSUME NEW r \in Requests, InsertAsset(r) PROVE QuotaHolds'
    <3>1. /\ name[r] \in Names /\ key[r] \in Keys /\ drop[r] \in SUBSET Versions
          /\ draft' = [draft EXCEPT ![name[r]] = key[r]] /\ sets' = Dropped(sets, drop[r])
      BY <1>0, <2>2 DEF InsertAsset, IInv, Uploads, Locals
    <3> DEFINE K == Named(Replaced(name[r]), Versions \ drop[r]) \cup {key[r]}
    <3>2. Bytes(K) <= Quota
      BY <2>2 DEF QuotaInv, Fitting, InsertAsset
    <3>3. K \in SUBSET Keys /\ IsFiniteSet(K)
      <4>1. Replaced(name[r]) \in Sets
        BY <1>0, <3>1 DEF Replaced, Sets, Stored
      <4> QED BY <1>0, <3>1, <4>1, NamedFinite, FS_Singleton
    <3>4. Named(draft, Versions)' \subseteq K
      <4>1. RowKeys(draft)' \subseteq RowKeys(Replaced(name[r])) \cup {key[r]}
        BY <1>0, <3>1 DEF RowKeys, Replaced, Stored, Sets
      <4>2. \A v \in Versions : SetKeys(v)' \subseteq IF v \in drop[r] THEN {} ELSE SetKeys(v)
        BY <3>1 DEF SetKeys, Dropped, RowKeys
      <4> QED BY <4>1, <4>2 DEF Named
    <3>5. Bytes(Named(draft, Versions)') <= Quota
      <4> HIDE DEF K
      <4> QED BY <3>2, <3>3, <3>4, FewerFit
    <3> QED BY <3>5, QuotaPrimed
  <2> QED BY <2>1, <2>2, FewNewNames
<1>2. Fitting'
  <2> SUFFICES ASSUME NEW s \in Requests, pc'[s] = "insert"
               PROVE  (Bytes(Named(Replaced(name[s]), Versions \ drop[s]) \cup {key[s]}) <= Quota)'
    BY DEF Fitting
  <2>1. ASSUME pc[s] = "insert", name'[s] = name[s], key'[s] = key[s], drop'[s] = drop[s],
               UNCHANGED <<draft, sets>>
        PROVE  (Bytes(Named(Replaced(name[s]), Versions \ drop[s]) \cup {key[s]}) <= Quota)'
    <3>1. Replaced(name[s])' = Replaced(name[s])
      BY <2>1 DEF Replaced
    <3>2. Named(Replaced(name[s]), Versions \ drop[s])' = Named(Replaced(name[s]), Versions \ drop[s])
      BY <2>1, <3>1 DEF Named, SetKeys, RowKeys
    <3> QED BY <2>1, <3>2 DEF QuotaInv, Fitting
  <2>2. ASSUME NEW r \in Requests, Served(r), r # s
        PROVE  (Bytes(Named(Replaced(name[s]), Versions \ drop[s]) \cup {key[s]}) <= Quota)'
    <3>1. pc[s] = "insert" /\ name'[s] = name[s] /\ key'[s] = key[s] /\ drop'[s] = drop[s]
      BY <2>2, OthersKeep
    <3>2. assetsLock = s
      BY <3>1 DEF IInv, TypeOK
    <3>3. UNCHANGED <<draft, sets>>
      BY <2>2, <3>2, AssetsLockHolds DEF rows
    <3> QED BY <2>1, <3>1, <3>3
  <2>3. ASSUME Served(s)
        PROVE  (Bytes(Named(Replaced(name[s]), Versions \ drop[s]) \cup {key[s]}) <= Quota)'
    <3>1. PICK n \in Names, c \in Keys : StoreAsset(s, n, c)
      BY <2>3, OnlyStoreInserts
    <3>2. PICK k \in KeyFor(c) : ~OverQuota(n, k) /\ Becomes(s, "insert", n, k, Pruned(n, k), draft[n])
      BY <3>1 DEF StoreAsset
    <3>3. /\ name'[s] = n /\ key'[s] = k /\ drop'[s] = Pruned(n, k)
          /\ UNCHANGED <<draft, sets>> /\ k \in Keys
      BY <1>0, <3>1, <3>2, KeyForIsKey DEF Locals, Becomes, StoreAsset, rows, IInv
    <3>4. Bytes(Named(Replaced(n), Versions \ Pruned(n, k)) \cup {k}) <= Quota
      BY <1>0, <3>2, <3>3, PrunedFits
    <3>5. Replaced(name[s])' = Replaced(n)
      BY <3>3 DEF Replaced
    <3>6. Named(Replaced(name[s]), Versions \ drop[s])' = Named(Replaced(n), Versions \ Pruned(n, k))
      BY <3>3, <3>5 DEF Named, SetKeys, RowKeys
    <3> QED BY <3>3, <3>4, <3>6
  <2>4. ASSUME SweepActs \/ RowActs \/ UNCHANGED vars
        PROVE  (Bytes(Named(Replaced(name[s]), Versions \ drop[s]) \cup {key[s]}) <= Quota)'
    <3>1. pc[s] = "insert" /\ name' = name /\ key' = key /\ drop' = drop
      BY <2>4, OthersType DEF local
    <3>2. app \in {"live", "down", "deleted"} /\ sw \notin {"sets", "dir"}
      BY <3>1 DEF IInv, Uploads, Removals
    <3>3. UNCHANGED <<draft, sets>>
      BY <2>4, <3>2
         DEF SweepActs, Sweeps, SweepDraft, SweepSets, SweepDirectory, SweepList, SweepOrphans,
             SweepDies, Leftover, RowActs, DayPasses, CreateVersion, UnpublishApp, TakedownApp,
             RestoreApp, SoftDeleteApp, vars, rows
    <3> QED BY <2>1, <3>1, <3>3
  <2> QED BY <2>2, <2>3, <2>4, WhoActs
<1> QED BY <1>1, <1>2 DEF QuotaInv

-----------------------------------------------------------------------------
(* The theorems.                                                           *)

(* The inductive invariant holds initially and after every step. *)
THEOREM Invariance == Spec => []IInv
<1>1. Init => IInv
  <2> SUFFICES ASSUME Init PROVE IInv
    OBVIOUS
  <2>1. PICK n0 \in Names, k0 \in Keys \cup {Nothing} :
            draft = [m \in Names |-> IF m = n0 THEN k0 ELSE Nothing]
    BY DEF Init
  <2>2. TypeOK
    <3>1. draft \in Sets
      BY <2>1 DEF Sets
    <3>2. RowKeys(draft) \subseteq Keys
      BY <3>1, KeysOfRows
    <3>3. Stored
      BY <3>1, <3>2, AssetAssumption DEF Init, Stored, AssetAssumption, Versions
    <3>4. Locals
      BY AssetAssumption DEF Init, Locals, Steps, AssetAssumption
    <3>5. Held
      BY NothingIsNoKey DEF Init, Held
    <3> QED BY <3>3, <3>4, <3>5, TypeParts
  <2>3. ServedAreStored
    BY DEF Init, ServedAreStored, FrozenKeys, SetKeys
  <2>4. Uploads /\ Removals
    BY DEF Init, Uploads, Removals
  <2> QED BY <2>2, <2>3, <2>4 DEF IInv
<1>2. IInv /\ [Next]_vars => IInv'
  <2> SUFFICES ASSUME IInv, [Next]_vars PROVE IInv'
    OBVIOUS
  <2>1. app' \in {"live", "down"} => DraftThere' /\ SetsThere'
    BY DeletedForGood, RequestsKeepFiles, OthersKeepFiles, WhoActs
  <2>2. ServedAreStored'
    BY <2>1 DEF ServedAreStored, DraftThere, SetsThere, RowKeys, FrozenKeys, SetKeys
  <2> QED BY <2>2, NextType, UploadsKept, RemovalsKept DEF IInv
<1> QED BY <1>1, <1>2, PTL DEF Spec

(* Every variable keeps its type, and each lock its holder. *)
THEOREM TypeCorrect == Spec => []TypeOK
BY Invariance, PTL DEF IInv

(* Whatever a live app's rows and kept sets name is on disk. *)
THEOREM FilesStay == Spec => []ServedAreStored
BY Invariance, PTL DEF IInv

(* The published set of a live app changes only by a publish. *)
THEOREM LiveSetStays == Spec => LiveSetFixed
<1>1. IInv /\ [Next]_vars =>
        [\A v \in Versions : live = v /\ live' = v /\ app = "live" =>
            \/ sets'[v] = sets[v]
            \/ \E r \in Requests : FreezeAssets(r) /\ ver[r] = v]_vars
  <2> SUFFICES ASSUME IInv, [Next]_vars, NEW v \in Versions, live = v, live' = v, app = "live"
               PROVE  sets'[v] = sets[v] \/ \E r \in Requests : FreezeAssets(r) /\ ver[r] = v
    OBVIOUS
  <2>1. ASSUME NEW r \in Requests, Served(r)
        PROVE  sets'[v] = sets[v] \/ (FreezeAssets(r) /\ ver[r] = v)
    <3>1. ASSUME InsertAsset(r) PROVE sets'[v] = sets[v]
      BY <3>1 DEF InsertAsset, Dropped, IInv, Uploads
    <3>2. ASSUME FreezeAssets(r) PROVE ver[r] = v
      BY <3>2 DEF FreezeAssets
    <3>3. ~CommitPurge(r)
      BY DEF CommitPurge, IInv, Removals
    <3> QED BY <2>1, <3>1, <3>2, <3>3
            DEF Served, Calls, Proceeds, Fails, StoreAsset, DeleteAsset, Publish, RestoreVersion,
                PurgeApp, Locks, ReleaseAssetFiles, RestoreDraftAssets, RemoveApp, rows
  <2>2. ASSUME SweepActs \/ RowActs \/ UNCHANGED vars PROVE sets' = sets
    BY <2>2
       DEF SweepActs, Sweeps, SweepDraft, SweepSets, SweepDirectory, SweepList, SweepOrphans,
           SweepDies, RowActs, DayPasses, CreateVersion, UnpublishApp, TakedownApp, RestoreApp,
           SoftDeleteApp, vars, rows, IInv, Removals
  <2> QED BY <2>1, <2>2, WhoActs
<1> QED BY <1>1, Invariance, PTL DEF Spec, LiveSetFixed

(* The quota holds at every commit, though the check and the prune plan     *)
(* with a published version and rows that others change beside them.        *)
THEOREM QuotaKept == Spec => []QuotaHolds
<1>1. Init => QuotaInv
  <2> SUFFICES ASSUME Init PROVE QuotaInv
    OBVIOUS
  <2>1. UNION {SetKeys(v) : v \in Versions} = {}
    BY DEF Init, SetKeys
  <2>2. UniqueBytes(draft, Versions, {}) = UniqueBytes(draft, {}, {})
    BY <2>1 DEF UniqueBytes
  <2> QED BY <2>2 DEF Init, QuotaInv, QuotaHolds, Fitting
<1>2. IInv /\ QuotaInv /\ [Next]_vars => QuotaInv'
  BY QuotaStep
<1>3. QuotaInv => QuotaHolds
  BY DEF QuotaInv
<1> QED BY <1>1, <1>2, <1>3, Invariance, PTL DEF Spec
=============================================================================
