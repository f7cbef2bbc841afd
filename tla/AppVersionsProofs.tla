------------------------- MODULE AppVersionsProofs -------------------------
(***************************************************************************)
(* Any number of members, versions and batches: no number is given out     *)
(* twice, deletions make no room in the hourly rate, and no deletion is    *)
(* seen by production, the preview, a kept version or a rollback.          *)
(*                                                                         *)
(* IInv is inductive.  HourWindow is its core: the last hour is a run of   *)
(* numbers ending at the newest version, all of them stored, which is why  *)
(* a check that counts stored rows is exact.                               *)
(***************************************************************************)
EXTENDS AppVersions, FiniteSetTheorems, WellFoundedInduction, TLAPS

USE LimitAssumption DEF Numbers

(* The limits and bounds are numbers. *)
LEMMA Bounds == MaxNumber \in Nat /\ MaxPublishes \in Nat /\ SetsKept \in Nat
BY DEF LimitAssumption

-----------------------------------------------------------------------------
(* Helpers.                                                                *)

(* A bounded non-empty set of numbers has a highest element. *)
LEMMA HighestExists ==
    ASSUME NEW n \in Nat, NEW S, S \subseteq 1..n, S # {}
    PROVE  Highest(S) \in S /\ \A w \in S : w <= Highest(S)
<1> DEFINE T == {n - v : v \in S}
<1>1. T \subseteq Nat /\ T # {}
  <2>1. T # {}
    OBVIOUS
  <2>2. \A v \in S : v \in Int /\ v <= n
    BY SMT
  <2>3. \A v \in S : n - v \in Nat
    BY <2>2, SMT
  <2> QED BY <2>1, <2>3
<1>2. PICK x \in T : \A y \in T : ~(<<y, x>> \in OpToRel(<, Nat))
  BY <1>1, NatLessThanWellFounded, WFMin
<1>3. \A y \in T : ~(y < x)
  BY <1>1, <1>2 DEF OpToRel
<1>4. PICK v \in S : x = n - v
  BY <1>2
<1>5. \A w \in S : w <= v
  BY <1>3, <1>4
<1> QED BY <1>5 DEF Highest

(* The highest element is the only one that bounds the set. *)
LEMMA HighestIs ==
    ASSUME NEW S, S \subseteq Int, NEW v \in S, \A w \in S : w <= v
    PROVE  Highest(S) = v
<1>1. \E h \in S : Highest(S) = h /\ \A w \in S : w <= h
  BY DEF Highest
<1>2. PICK h \in S : Highest(S) = h /\ \A w \in S : w <= h
  BY <1>1
<1>3. h <= v /\ v <= h /\ h \in Int /\ v \in Int
  BY <1>2
<1> QED BY <1>2, <1>3

(* The newest stored version is the last one made. *)
LEMMA Newest ==
    ASSUME TypeOK, Numbering
    PROVE  /\ NextNumber = made + 1
           /\ made # 0 => Highest(stored) = made
<1>1. CASE made = 0
  BY <1>1 DEF Numbering, NextNumber
<1>2. CASE made # 0
  <2>1. /\ stored \subseteq Int /\ made \in stored
        /\ \A w \in stored : w <= made
    BY <1>2 DEF TypeOK, Numbering, NewestStays
  <2>2. Highest(stored) = made
    BY <2>1, HighestIs
  <2> QED BY <1>2, <2>1, <2>2 DEF NextNumber
<1> QED BY <1>1, <1>2

(* A window the check finds open has room for one more version. *)
LEMMA RoomIsReal ==
    ASSUME TypeOK, Numbering, HourWindow, ~WindowFull
    PROVE  Cardinality(lastHour) \in Nat /\ Cardinality(lastHour) < PerApp
<1>1. PICK k \in 1..(made + 1) : lastHour = k..made
  BY DEF HourWindow
<1>2. k \in Int /\ made \in Int /\ made \in Nat
  BY DEF TypeOK
<1>3. Cardinality(lastHour) = IF k > made THEN 0 ELSE made - k + 1
  BY <1>1, <1>2, FS_Interval
<1>4. Cardinality(lastHour) \in Nat /\ Cardinality(lastHour) <= PerApp
  BY <1>2, <1>3 DEF HourWindow, RateIsHourly
<1>5. ASSUME Cardinality(lastHour) = PerApp PROVE FALSE
  <2>1. k <= made
    BY <1>2, <1>3, <1>5
  <2>2. k \in stored \cap lastHour
    BY <1>1, <1>2, <2>1 DEF HourWindow
  <2>3. {w \in stored : w >= k} = lastHour
    <3>1. \A w \in stored : w \in Int /\ w <= made
      BY <1>2 DEF Numbering
    <3>2. \A w \in stored : w >= k => w \in lastHour
      BY <1>1, <1>2, <3>1
    <3>3. \A w \in lastHour : w \in stored /\ w >= k
      BY <1>1, <1>2 DEF HourWindow
    <3> QED BY <3>2, <3>3
  <2> QED BY <1>5, <2>2, <2>3 DEF WindowFull
<1> QED BY <1>4, <1>5

-----------------------------------------------------------------------------
(* The two operations that change the table of versions.                   *)

LEMMA InsertInv ==
    ASSUME IInv, NEW succeeded \in BOOLEAN, Insert(succeeded)
    PROVE  IInv'
<1> USE DEF IInv
<1>1. NextNumber = made + 1 /\ made \in Nat /\ made + 1 \in Numbers
  <2>1. NextNumber = made + 1
    BY Newest
  <2>2. made \in 0..MaxNumber /\ made < MaxNumber
    BY DEF Insert, TypeOK
  <2> QED BY <2>1, <2>2, LimitAssumption DEF Numbers
<1>2. TypeOK'
  <2>1. stored' \subseteq Numbers /\ lastHour' \subseteq Numbers
    BY <1>1 DEF Insert, TypeOK
  <2>2. ok' \subseteq stored' /\ kept' \subseteq stored'
    BY DEF Insert, TypeOK
  <2>3. made' \in 0..MaxNumber
    BY <1>1, Bounds DEF Insert, Numbers
  <2> QED BY <2>1, <2>2, <2>3 DEF Insert, TypeOK, cleanupVars
<1>3. Numbering'
  BY <1>1 DEF Insert, TypeOK, Numbering, NewestStays
<1>4. HourWindow'
  <2>1. PICK k \in 1..(made + 1) : lastHour = k..made
    BY DEF HourWindow
  <2>2. lastHour' = k..made'
    BY <1>1, <2>1 DEF Insert
  <2>3. IsFiniteSet(lastHour)
    BY <1>1, <2>1, FS_Interval
  <2>4. Cardinality(lastHour') <= PerApp
    <3>1. Cardinality(lastHour) \in Nat /\ Cardinality(lastHour) < PerApp
      BY RoomIsReal DEF Insert
    <3>2. Cardinality(lastHour') \in {Cardinality(lastHour), Cardinality(lastHour) + 1}
      BY <2>3, FS_AddElement DEF Insert
    <3> QED BY <3>1, <3>2
  <2>5. lastHour' \subseteq stored'
    BY DEF Insert, HourWindow
  <2>6. k \in 1..(made' + 1)
    BY <1>1, <2>1 DEF Insert
  <2> QED BY <2>2, <2>4, <2>5, <2>6 DEF HourWindow, RateIsHourly
<1>5. AssetSets'
  BY <1>1 DEF Insert, TypeOK, AssetSets, LiveHasSet, HasSet
<1>6. Plans'
  BY DEF Insert, Plans, cleanupVars
<1> QED BY <1>2, <1>3, <1>4, <1>5, <1>6

(* Deleting versions nothing protects changes none of what is protected. *)
LEMMA DeleteKeeps ==
    ASSUME TypeOK, Numbering, HourWindow, AssetSets,
           NEW S \in SUBSET stored, \A v \in S : ~Protected(v), Delete(S)
    PROVE  /\ Numbering' /\ HourWindow' /\ AssetSets'
           /\ published' = published /\ Preview' = Preview
           /\ kept' = kept /\ HasSet' = HasSet
<1>1. published \notin S /\ Preview \notin S
      /\ S \cap (kept \cup HasSet \cup lastHour) = {}
  BY DEF Protected
<1>2. published' = published /\ kept' = kept /\ lastHour' = lastHour /\ made' = made
  BY <1>1 DEF Delete
<1>3. HasSet' = HasSet
  BY <1>1 DEF Delete, HasSet, TypeOK
<1>4. Preview' = Preview
  <2>1. CASE ok = {}
    BY <2>1 DEF Delete, Preview
  <2>2. CASE ok # {}
    <3>1. Highest(ok) \in ok /\ \A w \in ok : w <= Highest(ok)
      BY <2>2, HighestExists DEF TypeOK
    <3>2. Highest(ok) \in ok' /\ ok' \subseteq ok
      BY <1>1, <2>2, <3>1 DEF Delete, Preview
    <3>3. ok' \subseteq Int /\ \A w \in ok' : w <= Highest(ok)
      BY <3>1, <3>2 DEF TypeOK
    <3>4. Highest(ok') = Highest(ok)
      BY <3>2, <3>3, HighestIs
    <3> QED BY <2>2, <3>2, <3>4 DEF Preview
  <2> QED BY <2>1, <2>2
<1>5. Numbering'
  <2>1. made # 0 => Highest(stored) = made
    BY Newest
  <2>2. made # 0 => made \notin S
    BY <2>1 DEF Protected
  <2> QED BY <1>2, <2>2 DEF Numbering, NewestStays, Delete
<1>6. HourWindow'
  BY <1>1, <1>2 DEF HourWindow, RateIsHourly, Delete
<1>7. AssetSets'
  BY <1>1, <1>2, <1>3 DEF AssetSets, LiveHasSet, Delete, TypeOK
<1> QED BY <1>2, <1>3, <1>4, <1>5, <1>6, <1>7

LEMMA DeleteTypes ==
    ASSUME TypeOK, NEW S \in SUBSET stored, Delete(S)
    PROVE  /\ stored' \subseteq Numbers /\ ok' \subseteq stored' /\ kept' \subseteq stored'
           /\ frozenAt' \in [Numbers -> 0..MaxPublishes]
           /\ published' \in 0..MaxNumber
           /\ locked' = locked /\ lastHour' = lastHour /\ made' = made /\ publishes' = publishes
BY DEF TypeOK, Delete

(* Batches are made of versions that may go. *)
LEMMA BatchIsFree ==
    ASSUME TypeOK, NEW m \in Members, NEW plan
    PROVE  /\ BatchOf(m, plan) \in SUBSET stored /\ BatchOf(m, plan) \subseteq plan
           /\ \A v \in BatchOf(m, plan) : ~Protected(v)
BY DEF BatchOf, LowestOf, Free, InScope

LEMMA RetentionBatchIsFree ==
    ASSUME TypeOK
    PROVE  /\ LowestOf(Free(PastKeep), Batch) \in SUBSET PastKeep /\ PastKeep \subseteq stored
           /\ \A v \in LowestOf(Free(PastKeep), Batch) : ~Protected(v)
BY DEF LowestOf, Free, PastKeep

-----------------------------------------------------------------------------
(* The operations that move a pointer or a mark.                           *)

(* The live version is never among the sets that are dropped. *)
LEMMA DropSetsKeeps ==
    ASSUME NEW at \in [Numbers -> 0..MaxPublishes], NEW live, NEW n
    PROVE  /\ DropSets(at, live, n) \in [Numbers -> 0..MaxPublishes]
           /\ \A v \in Numbers : DropSets(at, live, n)[v] \in {0, at[v]}
           /\ live \in Numbers => DropSets(at, live, n)[live] = at[live]
BY DEF DropSets, OlderSets

LEMMA PublishInv ==
    ASSUME IInv, NEW n \in Numbers, Publish(n)
    PROVE  IInv'
<1> USE DEF IInv
<1> DEFINE at == [frozenAt EXCEPT ![n] = publishes + 1]
<1>1. /\ at \in [Numbers -> 0..MaxPublishes] /\ at[n] # 0
      /\ \A v \in Numbers : at[v] # 0 => v \in ok
      /\ frozenAt' = DropSets(at, n, SetsKept)
  BY DEF Publish, TypeOK, AssetSets
<1> HIDE DEF at
<1>2. /\ frozenAt' \in [Numbers -> 0..MaxPublishes] /\ frozenAt'[n] # 0
      /\ \A v \in Numbers : frozenAt'[v] # 0 => v \in ok
  BY <1>1, DropSetsKeeps
<1>3. TypeOK'
  <2>1. /\ published' \in 0..MaxNumber /\ publishes' \in 0..MaxPublishes
        /\ UNCHANGED <<stored, ok, kept, locked, lastHour, made, pruning, cleanupVars>>
    BY DEF Publish, TypeOK
  <2> QED BY <1>2, <2>1 DEF TypeOK, cleanupVars
<1>4. Numbering' /\ HourWindow' /\ Plans'
  BY DEF Publish, Numbering, NewestStays, HourWindow, RateIsHourly, Plans, cleanupVars
<1>5. AssetSets'
  BY <1>2 DEF Publish, AssetSets, LiveHasSet, HasSet, TypeOK
<1> QED BY <1>3, <1>4, <1>5

LEMMA QuotaDropsSetsInv == ASSUME IInv, QuotaDropsSets PROVE IInv'
<1> USE DEF IInv
<1>1. PICK n \in 0..SetsKept : frozenAt' = DropSets(frozenAt, published, n)
  BY DEF QuotaDropsSets
<1>2. /\ frozenAt' \in [Numbers -> 0..MaxPublishes]
      /\ \A v \in Numbers : frozenAt'[v] \in {0, frozenAt[v]}
      /\ published \in Numbers => frozenAt'[published] = frozenAt[published]
  BY <1>1, DropSetsKeeps DEF TypeOK
<1>3. TypeOK'
  BY <1>2 DEF QuotaDropsSets, TypeOK, cleanupVars
<1>4. Numbering' /\ HourWindow' /\ Plans'
  BY DEF QuotaDropsSets, Numbering, NewestStays, HourWindow, RateIsHourly, Plans, cleanupVars
<1>5. AssetSets'
  BY <1>2 DEF QuotaDropsSets, AssetSets, LiveHasSet, HasSet, TypeOK
<1> QED BY <1>3, <1>4, <1>5

LEMMA MarksInv ==
    ASSUME IInv, \/ Unpublish \/ TakedownApp \/ RestoreApp
                 \/ \E n \in Numbers : KeepVersion(n)
    PROVE  IInv'
<1> USE DEF IInv, Unpublish, TakedownApp, RestoreApp, KeepVersion, cleanupVars
<1>1. TypeOK'
  <2>1. CASE Unpublish \/ TakedownApp \/ RestoreApp
    <3>1. published' = published \/ published' = 0
      BY <2>1
    <3>2. UNCHANGED <<stored, ok, kept, frozenAt, lastHour, made, publishes, pruning,
                      cleanupVars>>
      BY <2>1
    <3>3. published' \in 0..MaxNumber
      BY <3>1, Bounds DEF TypeOK
    <3>4. locked' \in BOOLEAN
      BY <2>1 DEF TypeOK
    <3> QED BY <3>2, <3>3, <3>4 DEF TypeOK
  <2>2. ASSUME NEW n \in Numbers, KeepVersion(n) PROVE TypeOK'
    <3>1. kept' \subseteq stored'
      BY <2>2 DEF TypeOK
    <3> QED BY <2>2, <3>1 DEF TypeOK
  <2> QED BY <2>1, <2>2
<1>2. Numbering' /\ HourWindow' /\ Plans'
  BY DEF Numbering, NewestStays, HourWindow, RateIsHourly, Plans
<1>3. AssetSets'
  BY DEF AssetSets, LiveHasSet, HasSet, TypeOK
<1> QED BY <1>1, <1>2, <1>3

(* The window loses its oldest number and stays a run of numbers. *)
LEMMA HourPassesInv == ASSUME IInv, HourPasses PROVE IInv'
<1> USE DEF IInv
<1>1. TypeOK' /\ Numbering' /\ AssetSets' /\ Plans'
  <2>1. lastHour' \subseteq Numbers
    BY DEF HourPasses, TypeOK
  <2>2. TypeOK'
    BY <2>1 DEF HourPasses, TypeOK, cleanupVars
  <2>3. Numbering' /\ AssetSets' /\ Plans'
    BY DEF HourPasses, Numbering, NewestStays, AssetSets, LiveHasSet, HasSet, Plans, cleanupVars
  <2> QED BY <2>2, <2>3
<1>2. HourWindow'
  <2>1. PICK k \in 1..(made + 1) : lastHour = k..made
    BY DEF HourWindow
  <2>2. k \in Int /\ made \in Int /\ k <= made
    BY <2>1 DEF HourPasses, TypeOK
  <2>3. lastHour' = (k + 1)..made
    <3>1. \A v \in k..made : (\E w \in k..made : w < v) <=> v > k
      BY <2>2
    <3>2. lastHour' = {v \in k..made : \E w \in k..made : w < v}
      BY <2>1 DEF HourPasses
    <3>3. {v \in k..made : v > k} = (k + 1)..made
      BY <2>2
    <3> QED BY <3>1, <3>2, <3>3
  <2>4. Cardinality(lastHour') <= PerApp
    <3>1. Cardinality(lastHour) = made - k + 1 /\ IsFiniteSet(lastHour)
      BY <2>1, <2>2, FS_Interval
    <3>2. Cardinality(lastHour') = IF k + 1 > made THEN 0 ELSE made - (k + 1) + 1
      <4>1. k + 1 \in Int
        BY <2>2
      <4> QED BY <2>2, <2>3, <4>1, FS_Interval
    <3> QED BY <2>2, <3>1, <3>2 DEF HourWindow, RateIsHourly
  <2>5. lastHour' \subseteq stored'
    BY DEF HourPasses, HourWindow
  <2>6. k + 1 \in 1..(made' + 1)
    BY <2>1, <2>2 DEF HourPasses
  <2>7. lastHour' = (k + 1)..made'
    BY <2>3 DEF HourPasses
  <2> QED BY <2>4, <2>5, <2>6, <2>7 DEF HourWindow, RateIsHourly
<1> QED BY <1>1, <1>2

-----------------------------------------------------------------------------
(* The two deleters.                                                       *)

LEMMA RetentionInv == ASSUME IInv, RetentionStart \/ RetentionBatch PROVE IInv'
<1> USE DEF IInv
<1>1. CASE RetentionStart
  BY <1>1 DEF RetentionStart, TypeOK, Numbering, NewestStays, HourWindow, RateIsHourly,
              AssetSets, LiveHasSet, HasSet, Plans, versionVars, cleanupVars
<1>2. CASE RetentionBatch
  <2> DEFINE batch == LowestOf(Free(PastKeep), Batch)
  <2>1. Delete(batch) /\ batch \in SUBSET stored /\ \A v \in batch : ~Protected(v)
    BY <1>2, RetentionBatchIsFree DEF RetentionBatch
  <2>2. pruning' \in BOOLEAN /\ UNCHANGED cleanupVars
    BY <1>2 DEF RetentionBatch
  <2> HIDE DEF batch
  <2>3. TypeOK'
    BY <2>1, <2>2, DeleteTypes DEF TypeOK, cleanupVars
  <2>4. Numbering' /\ HourWindow' /\ AssetSets'
    BY <2>1, DeleteKeeps
  <2>5. Plans'
    BY <2>2 DEF Plans, cleanupVars
  <2> QED BY <2>3, <2>4, <2>5
<1> QED BY <1>1, <1>2

(* A batch of a plan inside what the member saw. *)
LEMMA CleanupBatchInv ==
    ASSUME IInv, NEW m \in Members, NEW plan, plan \subseteq shown[m], CleanupBatch(m, plan)
    PROVE  IInv'
<1> USE DEF IInv
<1> DEFINE batch == BatchOf(m, plan)
<1>1. Delete(batch) /\ batch \in SUBSET stored /\ \A v \in batch : ~Protected(v)
  BY BatchIsFree DEF CleanupBatch
<1>2. batch \subseteq Numbers /\ UNCHANGED pruning
  BY <1>1 DEF CleanupBatch, TypeOK
<1>3. \/ /\ cl' = [cl EXCEPT ![m] = "batches"]
         /\ planned' = [planned EXCEPT ![m] = plan]
         /\ UNCHANGED <<scope, shown>>
      \/ CleanupIdle(m)
  BY DEF CleanupBatch
<1> HIDE DEF batch
<1>4. plan \subseteq Numbers
  BY DEF TypeOK
<1>5. TypeOK'
  <2>1. /\ cl' \in [Members -> {"idle", "shown", "batches"}]
        /\ scope' \in [Members -> Scopes \cup {<<>>}]
    BY <1>3 DEF TypeOK, CleanupIdle
  <2>2. /\ shown' \in [Members -> SUBSET Numbers]
        /\ planned' \in [Members -> SUBSET Numbers]
    BY <1>2, <1>3, <1>4 DEF TypeOK, CleanupIdle
  <2> QED BY <1>1, <1>2, <2>1, <2>2, DeleteTypes DEF TypeOK
<1>6. Numbering' /\ HourWindow' /\ AssetSets'
  BY <1>1, DeleteKeeps
<1>7. Plans'
  BY <1>3 DEF Plans, TypeOK, CleanupIdle
<1> QED BY <1>5, <1>6, <1>7

(* The steps of a clean-up that delete nothing. *)
LEMMA CleanupInv ==
    ASSUME IInv, NEW m \in Members,
           \/ \E s \in Scopes : PlanVersionDeletion(m, s)
           \/ CleanupStops(m)
    PROVE  IInv'
<1> USE DEF IInv, PlanVersionDeletion, CleanupStops, CleanupIdle, versionVars
<1>1. TypeOK'
  <2>1. ASSUME NEW s \in Scopes, PlanVersionDeletion(m, s) PROVE TypeOK'
    <3>1. Free(InScope(s)) \subseteq Numbers
      BY DEF Free, InScope, TypeOK
    <3>2. /\ cl' \in [Members -> {"idle", "shown", "batches"}]
          /\ scope' \in [Members -> Scopes \cup {<<>>}]
          /\ shown' \in [Members -> SUBSET Numbers]
      BY <2>1, <3>1 DEF TypeOK
    <3> QED BY <2>1, <3>2 DEF TypeOK
  <2>2. CASE CleanupStops(m)
    <3>1. /\ cl' \in [Members -> {"idle", "shown", "batches"}]
          /\ scope' \in [Members -> Scopes \cup {<<>>}]
          /\ shown' \in [Members -> SUBSET Numbers]
          /\ planned' \in [Members -> SUBSET Numbers]
      BY <2>2 DEF TypeOK
    <3> QED BY <2>2, <3>1 DEF TypeOK
  <2> QED BY <2>1, <2>2
<1>2. Numbering' /\ HourWindow' /\ AssetSets'
  BY DEF Numbering, NewestStays, HourWindow, RateIsHourly, AssetSets, LiveHasSet, HasSet
<1>3. Plans'
  <2>1. ASSUME NEW s \in Scopes, PlanVersionDeletion(m, s) PROVE Plans'
    <3>1. planned[m] = {} /\ planned' = planned
      BY <2>1 DEF Plans
    <3> QED BY <2>1, <3>1 DEF Plans, TypeOK
  <2>2. CASE CleanupStops(m)
    BY <2>2 DEF Plans, TypeOK
  <2> QED BY <2>1, <2>2
<1> QED BY <1>1, <1>2, <1>3

-----------------------------------------------------------------------------
(* The theorems.                                                           *)

(* A clean-up's batches work on a plan the member saw. *)
LEMMA PlanIsShown ==
    ASSUME Plans, NEW m \in Members, DeleteVersions(m) \/ NextBatch(m)
    PROVE  \E plan : /\ plan \subseteq shown[m] /\ CleanupBatch(m, plan)
                     /\ cl[m] # "idle"
<1>1. CASE DeleteVersions(m)
  <2>1. Free(InScope(scope[m])) = shown[m] /\ CleanupBatch(m, shown[m]) /\ cl[m] = "shown"
    BY <1>1 DEF DeleteVersions, PlanHolds
  <2> QED BY <2>1
<1>2. CASE NextBatch(m)
  BY <1>2 DEF NextBatch, Plans
<1> QED BY <1>1, <1>2

(* IInv is inductive: one step per action. *)
LEMMA StepInv == IInv /\ [Next]_vars => IInv'
<1> SUFFICES ASSUME IInv, [Next]_vars PROVE IInv'
  OBVIOUS
<1>1. CASE CreateVersion \/ Restore
  <2>1. CASE CreateVersion
    BY <2>1, InsertInv DEF CreateVersion
  <2>2. CASE Restore
    <3>1. PICK n \in stored : Insert(n \in ok)
      BY <2>2 DEF Restore
    <3>2. (n \in ok) \in BOOLEAN
      OBVIOUS
    <3> QED BY <3>1, <3>2, InsertInv
  <2> QED BY <1>1, <2>1, <2>2
<1>2. CASE \E n \in Numbers : Publish(n)
  BY <1>2, PublishInv
<1>3. CASE QuotaDropsSets
  BY <1>3, QuotaDropsSetsInv
<1>4. CASE Unpublish \/ TakedownApp \/ RestoreApp \/ \E n \in Numbers : KeepVersion(n)
  BY <1>4, MarksInv
<1>5. CASE HourPasses
  BY <1>5, HourPassesInv
<1>6. CASE RetentionStart \/ RetentionBatch
  BY <1>6, RetentionInv
<1>7. ASSUME NEW m \in Members, DeleteVersions(m) \/ NextBatch(m) PROVE IInv'
  BY <1>7, PlanIsShown, CleanupBatchInv DEF IInv
<1>8. ASSUME NEW m \in Members,
             \/ \E s \in Scopes : PlanVersionDeletion(m, s)
             \/ CleanupStops(m)
      PROVE  IInv'
  BY <1>8, CleanupInv
<1>9. CASE UNCHANGED vars
  BY <1>9 DEF vars, versionVars, cleanupVars, IInv, TypeOK, Numbering, NewestStays, HourWindow,
              RateIsHourly, AssetSets, LiveHasSet, HasSet, Plans
<1> QED BY <1>1, <1>2, <1>3, <1>4, <1>5, <1>6, <1>7, <1>8, <1>9 DEF Next

LEMMA InitInv == Init => IInv
<1> SUFFICES ASSUME Init PROVE IInv
  OBVIOUS
<1>1. TypeOK
  <2>1. /\ cl \in [Members -> {"idle", "shown", "batches"}]
        /\ scope \in [Members -> Scopes \cup {<<>>}]
        /\ shown \in [Members -> SUBSET Numbers]
        /\ planned \in [Members -> SUBSET Numbers]
    BY DEF Init
  <2>2. frozenAt \in [Numbers -> 0..MaxPublishes]
    BY DEF Init
  <2>3. published \in 0..MaxNumber /\ made \in 0..MaxNumber /\ publishes \in 0..MaxPublishes
    BY Bounds DEF Init
  <2> QED BY <2>1, <2>2, <2>3 DEF Init, TypeOK
<1>3. Numbering /\ AssetSets /\ Plans
  BY DEF Init, Numbering, NewestStays, AssetSets, LiveHasSet, Plans
<1>2. HourWindow
  <2>1. 1..0 = {} /\ Cardinality(1..0) = 0
    BY FS_Interval
  <2> QED BY <2>1 DEF Init, HourWindow, RateIsHourly
<1> QED BY <1>1, <1>2, <1>3 DEF IInv

THEOREM Invariance == Spec => []IInv
BY InitInv, StepInv, PTL DEF Spec

(* Every column, plan and clock keeps its type; versions that compiled or are  *)
(* kept are versions that exist.                                              *)
THEOREM TypeCorrect == Spec => []TypeOK
<1>1. IInv => TypeOK
  BY DEF IInv
<1> QED BY <1>1, Invariance, PTL

(* Whatever is deleted, max(number) + 1 (nextNumber) is a number never given out. *)
THEOREM NumbersNeverReused == Spec => []NewestStays
<1>1. IInv => NewestStays
  BY DEF IInv, Numbering
<1> QED BY <1>1, Invariance, PTL

(* The hourly rate counts stored rows, and yet deleting makes no room in it. *)
THEOREM RateHolds == Spec => []RateIsHourly
<1>1. IInv => RateIsHourly
  BY DEF IInv, HourWindow
<1> QED BY <1>1, Invariance, PTL

(* What production serves exists, compiled, and has its assets. *)
THEOREM LiveIsServable == Spec => []LiveHasSet
<1>1. IInv => LiveHasSet
  BY DEF IInv, AssetSets
<1> QED BY <1>1, Invariance, PTL

(* A step that deletes is a batch of one of the two deleters. *)
LEMMA OnlyBatchesDelete ==
    ASSUME IInv, [Next]_vars, ~(stored \subseteq stored')
    PROVE  RetentionBatch \/ \E m \in Members : DeleteVersions(m) \/ NextBatch(m)
BY DEF Next, vars, versionVars, CreateVersion, Restore, Insert, Publish, KeepVersion,
       QuotaDropsSets, Unpublish, TakedownApp, RestoreApp, HourPasses, RetentionStart,
       PlanVersionDeletion, CleanupStops

(* No batch of a deleter is seen by production, the preview or a rollback. *)
THEOREM DeletionsAreUnseen == Spec => DeletionsShowNothing
<1>1. ASSUME IInv, [Next]_vars
      PROVE  [~(stored \subseteq stored') =>
                /\ published' = published /\ Preview' = Preview
                /\ kept' = kept /\ HasSet' = HasSet]_vars
  <2> SUFFICES ASSUME ~(stored \subseteq stored')
               PROVE  /\ published' = published /\ Preview' = Preview
                      /\ kept' = kept /\ HasSet' = HasSet
    OBVIOUS
  <2>1. CASE RetentionBatch
    BY <1>1, <2>1, RetentionBatchIsFree, DeleteKeeps DEF RetentionBatch, IInv
  <2>2. ASSUME NEW m \in Members, DeleteVersions(m) \/ NextBatch(m)
        PROVE  /\ published' = published /\ Preview' = Preview
               /\ kept' = kept /\ HasSet' = HasSet
    <3>1. PICK plan : CleanupBatch(m, plan)
      BY <1>1, <2>2, PlanIsShown DEF IInv
    <3> QED BY <1>1, <3>1, BatchIsFree, DeleteKeeps DEF CleanupBatch, IInv
  <2> QED BY <1>1, <2>1, <2>2, OnlyBatchesDelete
<1> QED BY <1>1, Invariance, PTL DEF Spec, DeletionsShowNothing

(* A member's clean-up deletes only what they saw and confirmed. *)
THEOREM OnlyConfirmedGo == Spec => OnlyShownGo
<1> DEFINE Goes(v) == \/ v \in PastKeep
                      \/ \E m \in Members : cl[m] # "idle" /\ v \in shown[m]
<1>1. ASSUME IInv, [Next]_vars
      PROVE  [\A v \in stored \ stored' : Goes(v)]_vars
  <2> SUFFICES ASSUME NEW v \in stored \ stored' PROVE Goes(v)
    OBVIOUS
  <2>1. CASE RetentionBatch
    BY <1>1, <2>1, RetentionBatchIsFree DEF RetentionBatch, Delete, IInv
  <2>2. ASSUME NEW m \in Members, DeleteVersions(m) \/ NextBatch(m) PROVE Goes(v)
    <3>1. PICK plan : plan \subseteq shown[m] /\ CleanupBatch(m, plan) /\ cl[m] # "idle"
      BY <1>1, <2>2, PlanIsShown DEF IInv
    <3>2. v \in plan
      BY <1>1, <3>1, BatchIsFree DEF CleanupBatch, Delete, IInv
    <3> QED BY <3>1, <3>2
  <2> QED BY <1>1, <2>1, <2>2, OnlyBatchesDelete
<1> QED BY <1>1, Invariance, PTL DEF Spec, OnlyShownGo

-----------------------------------------------------------------------------
(* At most SetsKept older versions keep their sets.                          *)

LEMMA NumbersAreFinite ==
    ASSUME NEW S, S \subseteq Numbers
    PROVE  IsFiniteSet(S) /\ Cardinality(S) \in Nat
<1>1. IsFiniteSet(1..MaxNumber)
  BY Bounds, FS_Interval
<1>2. IsFiniteSet(S)
  BY <1>1, FS_Subset
<1> QED BY <1>2, FS_CardinalityType

(* What DropSets leaves has at most n older sets: the oldest of them has     *)
(* fewer than n newer ones, and all the others are newer.                    *)
LEMMA DropSetsLeaves ==
    ASSUME TypeOK, NEW at \in [Numbers -> 0..MaxPublishes], NEW live, NEW n \in Nat,
           \A v, w \in Numbers : at[v] # 0 /\ at[v] = at[w] => v = w
    PROVE  Cardinality(OlderSets(DropSets(at, live, n), live)) <= n
<1> DEFINE older == OlderSets(at, live)
           newer(v) == {w \in older : at[w] > at[v]}
           left == OlderSets(DropSets(at, live, n), live)
<1>1. older \subseteq Numbers /\ IsFiniteSet(older)
  <2>1. older \subseteq Numbers
    BY DEF OlderSets, TypeOK
  <2> QED BY <2>1, NumbersAreFinite
<1>2. left = {v \in older : ~(Cardinality(newer(v)) >= n)}
  BY <1>1 DEF OlderSets, DropSets, TypeOK
<1> SUFFICES Cardinality(left) <= n
  OBVIOUS
<1> HIDE DEF left
<1>3. CASE left = {}
  BY <1>3, FS_EmptySet
<1>4. CASE left # {}
  <2> DEFINE ages == {MaxPublishes + 1 - at[v] : v \in left}
  <2>1. \A v \in left : v \in older /\ v \in Numbers /\ at[v] \in 1..MaxPublishes
    BY <1>1, <1>2, Bounds DEF OlderSets
  <2>2. ages \subseteq 1..MaxPublishes /\ ages # {}
    BY <1>4, <2>1, Bounds
  <2>3. Highest(ages) \in ages /\ \A x \in ages : x <= Highest(ages)
    BY <2>2, Bounds, HighestExists
  <2>4. PICK v \in left : Highest(ages) = MaxPublishes + 1 - at[v]
    BY <2>3
  <2>5. ASSUME NEW w \in left PROVE at[v] <= at[w]
    <3>1. MaxPublishes + 1 - at[w] <= MaxPublishes + 1 - at[v]
      BY <2>3, <2>4
    <3>2. at[w] \in Int /\ at[v] \in Int
      BY <2>1
    <3> QED BY <3>1, <3>2, Bounds
  <2>6. left \subseteq newer(v) \cup {v}
    <3> SUFFICES ASSUME NEW w \in left, w # v PROVE w \in newer(v)
      OBVIOUS
    <3>1. at[w] # at[v]
      BY <2>1
    <3>2. at[v] < at[w]
      BY <2>1, <2>5, <3>1
    <3> QED BY <2>1, <3>2
  <2>7. /\ IsFiniteSet(newer(v)) /\ v \notin newer(v)
        /\ Cardinality(newer(v)) \in Nat /\ ~(Cardinality(newer(v)) >= n)
    <3>1. newer(v) \subseteq older
      OBVIOUS
    <3>2. v \notin newer(v)
      BY <2>1
    <3> QED BY <1>1, <1>2, <3>1, <3>2, FS_Subset, FS_CardinalityType
  <2> HIDE DEF newer
  <2>8. /\ IsFiniteSet(newer(v) \cup {v})
        /\ Cardinality(newer(v) \cup {v}) = Cardinality(newer(v)) + 1
    BY <2>7, FS_AddElement
  <2>9. Cardinality(left) <= Cardinality(newer(v) \cup {v})
        /\ Cardinality(left) \in Nat
    BY <2>6, <2>8, FS_Subset, FS_CardinalityType
  <2> QED BY <2>7, <2>8, <2>9
<1> QED BY <1>3, <1>4

(* Dropping sets leaves those that stay told apart.                          *)
LEMMA DropSetsApart ==
    ASSUME NEW at \in [Numbers -> 0..MaxPublishes], NEW to \in [Numbers -> 0..MaxPublishes],
           \A v \in Numbers : to[v] \in {0, at[v]}, NEW limit \in Nat,
           \A v \in Numbers : at[v] <= limit,
           \A v, w \in Numbers : at[v] # 0 /\ at[v] = at[w] => v = w
    PROVE  /\ \A v \in Numbers : to[v] <= limit
           /\ \A v, w \in Numbers : to[v] # 0 /\ to[v] = to[w] => v = w
<1> HIDE DEF Numbers
<1>1. ASSUME NEW v \in Numbers PROVE to[v] <= limit
  BY <1>1
<1>2. ASSUME NEW v \in Numbers, NEW w \in Numbers, to[v] # 0, to[v] = to[w] PROVE v = w
  <2>1. to[v] = at[v] /\ to[w] = at[w]
    BY <1>2
  <2> QED BY <1>2, <2>1
<1> QED BY <1>1, <1>2

(* The older sets are the sets without the live one, and finitely many.      *)
LEMMA OlderSetsAre ==
    ASSUME IInv
    PROVE  /\ OlderSets(frozenAt, published) = {v \in Numbers : frozenAt[v] # 0} \ {published}
           /\ IsFiniteSet(OlderSets(frozenAt, published))
           /\ Cardinality(OlderSets(frozenAt, published)) \in Nat
<1>1. OlderSets(frozenAt, published) = {v \in Numbers : frozenAt[v] # 0} \ {published}
  BY DEF IInv, TypeOK, AssetSets, OlderSets
<1>2. IsFiniteSet(OlderSets(frozenAt, published))
  <2>1. OlderSets(frozenAt, published) \subseteq Numbers
    BY <1>1
  <2> QED BY <2>1, NumbersAreFinite
<1> QED BY <1>1, <1>2, FS_CardinalityType

LEMMA SetOrderStep ==
    ASSUME IInv, IInv', SetOrder, [Next]_vars
    PROVE  SetOrder'
<1> DEFINE Mine == \A v \in Numbers : frozenAt'[v] # 0 => v \in ok'
<1>0. /\ Mine
      /\ frozenAt \in [Numbers -> 0..MaxPublishes] /\ frozenAt' \in [Numbers -> 0..MaxPublishes]
      /\ publishes \in Nat /\ SetsKept \in Nat /\ TypeOK
      /\ published \in 0..MaxNumber /\ stored' \subseteq Numbers
  <2>1. TypeOK /\ TypeOK' /\ AssetSets'
    BY DEF IInv
  <2>2. Mine
    BY <2>1 DEF AssetSets
  <2>3. /\ frozenAt \in [Numbers -> 0..MaxPublishes] /\ publishes \in 0..MaxPublishes
        /\ published \in 0..MaxNumber
    BY <2>1 DEF TypeOK
  <2>4. frozenAt' \in [Numbers -> 0..MaxPublishes] /\ stored' \subseteq Numbers
    BY <2>1 DEF TypeOK
  <2> QED BY <2>1, <2>2, <2>3, <2>4, Bounds
<1>1. ASSUME NEW n \in Numbers, Publish(n) PROVE SetOrder'
  <2> DEFINE at == [frozenAt EXCEPT ![n] = publishes + 1]
  <2>1. /\ at \in [Numbers -> 0..MaxPublishes]
        /\ \A v \in Numbers : at[v] <= publishes + 1
        /\ \A v, w \in Numbers : at[v] # 0 /\ at[v] = at[w] => v = w
    <3>1. /\ \A v \in Numbers : frozenAt[v] \in 0..publishes
          /\ \A v, w \in Numbers : frozenAt[v] # 0 /\ frozenAt[v] = frozenAt[w] => v = w
      BY <1>0 DEF SetOrder
    <3>2. publishes + 1 \in 0..MaxPublishes
      BY <1>0, <1>1, Bounds DEF Publish
    <3>3. /\ at[n] = publishes + 1
          /\ \A v \in Numbers \ {n} : at[v] = frozenAt[v]
          /\ at \in [Numbers -> 0..MaxPublishes]
      BY <1>0, <3>2
    <3> HIDE DEF at
    <3> HIDE DEF Numbers
    <3>4. ASSUME NEW v \in Numbers PROVE at[v] \in 0..(publishes + 1)
      BY <1>0, <3>1, <3>3
    <3>5. ASSUME NEW v \in Numbers, NEW w \in Numbers, at[v] # 0, at[v] = at[w] PROVE v = w
      <4>1. CASE v = n \/ w = n
        BY <1>0, <3>1, <3>3, <3>5, <4>1
      <4>2. CASE v # n /\ w # n
        BY <3>1, <3>3, <3>5, <4>2
      <4> QED BY <4>1, <4>2
    <3> QED BY <1>0, <3>3, <3>4, <3>5
  <2>2. /\ frozenAt' = DropSets(at, n, SetsKept) /\ published' = n /\ publishes' = publishes + 1
        /\ stored' = stored
    BY <1>1 DEF Publish
  <2> HIDE DEF at
  <2>3. \A v \in Numbers : frozenAt'[v] \in {0, at[v]}
    BY <2>1, <2>2, DropSetsKeeps
  <2>4. /\ \A v \in Numbers : frozenAt'[v] <= publishes + 1
        /\ \A v, w \in Numbers : frozenAt'[v] # 0 /\ frozenAt'[v] = frozenAt'[w] => v = w
    <3>1. publishes + 1 \in Nat
      BY <1>0
    <3> QED BY <1>0, <2>1, <2>3, <3>1, DropSetsApart
  <2>5. Cardinality(OlderSets(frozenAt, published))' <= SetsKept
    <3>1. Cardinality(OlderSets(DropSets(at, n, SetsKept), n)) <= SetsKept
      BY <1>0, <2>1, DropSetsLeaves
    <3>2. OlderSets(frozenAt, published)' = OlderSets(DropSets(at, n, SetsKept), n)
      BY <2>2 DEF OlderSets
    <3> QED BY <3>1, <3>2
  <2>6. published' # 0
    BY <2>2
  <2> QED BY <1>0, <2>2, <2>4, <2>5, <2>6 DEF SetOrder, RollbackTargets
<1>2. CASE QuotaDropsSets
  <2>1. PICK n \in 0..SetsKept : frozenAt' = DropSets(frozenAt, published, n)
    BY <1>2 DEF QuotaDropsSets
  <2>2. published' = published /\ publishes' = publishes /\ stored' = stored
    BY <1>2 DEF QuotaDropsSets
  <2>3. \A v \in Numbers : frozenAt'[v] \in {0, frozenAt[v]}
    BY <1>0, <2>1, DropSetsKeeps
  <2>4. /\ \A v \in Numbers : frozenAt'[v] <= publishes
        /\ \A v, w \in Numbers : frozenAt'[v] # 0 /\ frozenAt'[v] = frozenAt'[w] => v = w
    BY <1>0, <2>3, DropSetsApart DEF SetOrder
  <2>5. Cardinality(OlderSets(frozenAt, published))' <= n
    <3>1. /\ n \in Nat
          /\ \A v, w \in Numbers : frozenAt[v] # 0 /\ frozenAt[v] = frozenAt[w] => v = w
      BY <1>0 DEF SetOrder
    <3>3. Cardinality(OlderSets(DropSets(frozenAt, published, n), published)) <= n
      BY <1>0, <3>1, DropSetsLeaves
    <3>2. OlderSets(frozenAt, published)' = OlderSets(DropSets(frozenAt, published, n), published)
      BY <2>1, <2>2 DEF OlderSets
    <3> QED BY <3>2, <3>3
  <2>6. Cardinality(OlderSets(frozenAt, published))' \in Nat
    <3>1. OlderSets(frozenAt, published)' \subseteq Numbers
      BY <1>0 DEF OlderSets
    <3> QED BY <3>1, NumbersAreFinite
  <2> QED BY <1>0, <2>2, <2>4, <2>5, <2>6 DEF SetOrder, RollbackTargets
<1>3. ASSUME UNCHANGED publishes,
             \A v \in Numbers : frozenAt'[v] \in {0, frozenAt[v]},
             published' = published \/ (published' = 0 /\ published # 0)
      PROVE  SetOrder'
  <2>1. /\ \A v \in Numbers : frozenAt'[v] <= publishes
        /\ \A v, w \in Numbers : frozenAt'[v] # 0 /\ frozenAt'[v] = frozenAt'[w] => v = w
    BY <1>0, <1>3, DropSetsApart DEF SetOrder
  <2> DEFINE S == OlderSets(frozenAt, published)
             T == {v \in Numbers : frozenAt'[v] # 0} \ {published'}
  <2>2. /\ S = {v \in Numbers : frozenAt[v] # 0} \ {published}
        /\ IsFiniteSet(S) /\ Cardinality(S) \in Nat
    BY OlderSetsAre
  <2>3. OlderSets(frozenAt, published)' = T
    BY <1>0 DEF IInv, TypeOK, OlderSets
  <2>4. Cardinality(S) <= SetsKept + (IF published = 0 THEN 1 ELSE 0)
    BY DEF SetOrder, RollbackTargets
  <2> HIDE DEF S
  <2>5. CASE published' = published
    <3>1. T \subseteq S
      BY <1>3, <2>2, <2>5
    <3>2. Cardinality(T) <= Cardinality(S) /\ Cardinality(T) \in Nat
      BY <2>2, <3>1, FS_Subset, FS_CardinalityType
    <3>3. Cardinality(T) <= SetsKept + (IF published' = 0 THEN 1 ELSE 0)
      BY <1>0, <2>2, <2>4, <2>5, <3>2
    <3> QED BY <1>0, <1>3, <2>1, <2>3, <3>3 DEF SetOrder, RollbackTargets
  <2>6. CASE published' = 0 /\ published # 0
    <3>1. T \subseteq S \cup {published}
      BY <1>3, <2>2, <2>6
    <3>2. /\ published \notin S /\ IsFiniteSet(S \cup {published})
          /\ Cardinality(S \cup {published}) = Cardinality(S) + 1
      BY <2>2, FS_AddElement
    <3>3. Cardinality(T) <= Cardinality(S) + 1 /\ Cardinality(T) \in Nat
      BY <3>1, <3>2, FS_Subset, FS_CardinalityType
    <3>4. Cardinality(T) <= SetsKept + (IF published' = 0 THEN 1 ELSE 0)
      BY <1>0, <2>2, <2>4, <2>6, <3>3
    <3> QED BY <1>0, <1>3, <2>1, <2>3, <3>4 DEF SetOrder, RollbackTargets
  <2> QED BY <1>3, <2>5, <2>6
<1>4. CASE CreateVersion \/ Restore
  BY <1>0, <1>3, <1>4 DEF CreateVersion, Restore, Insert
<1>5. CASE \E n \in Numbers : KeepVersion(n)
  BY <1>0, <1>3, <1>5 DEF KeepVersion
<1>6. CASE Unpublish \/ TakedownApp \/ RestoreApp \/ HourPasses \/ RetentionStart
  BY <1>0, <1>3, <1>6 DEF Unpublish, TakedownApp, RestoreApp, HourPasses, RetentionStart, versionVars
<1>7. ASSUME NEW batch \in SUBSET stored, Delete(batch) PROVE SetOrder'
  BY <1>0, <1>3, <1>7 DEF Delete
<1>8. CASE RetentionBatch
  BY <1>0, <1>7, <1>8, RetentionBatchIsFree DEF RetentionBatch, PastKeep
<1>9. ASSUME NEW m \in Members, DeleteVersions(m) \/ NextBatch(m) PROVE SetOrder'
  <2>1. PICK plan : CleanupBatch(m, plan)
    BY <1>9, PlanIsShown DEF IInv
  <2> QED BY <1>0, <1>7, <2>1, BatchIsFree DEF CleanupBatch
<1>10. ASSUME NEW m \in Members,
              \/ \E s \in Scopes : PlanVersionDeletion(m, s)
              \/ CleanupStops(m)
       PROVE  SetOrder'
  BY <1>0, <1>3, <1>10 DEF PlanVersionDeletion, CleanupStops, versionVars
<1>11. CASE UNCHANGED vars
  BY <1>0, <1>3, <1>11 DEF vars, versionVars
<1> QED BY <1>1, <1>2, <1>4, <1>5, <1>6, <1>8, <1>9, <1>10, <1>11 DEF Next

(* A rollback stays possible: a version with a set exists and compiled, and   *)
(* publishes and uploads keep at most SetsKept older sets.                    *)
THEOREM RollbacksStay == Spec => []RollbackTargets
<1>1. Init => SetOrder
  <2> SUFFICES ASSUME Init PROVE SetOrder
    OBVIOUS
  <2>1. OlderSets(frozenAt, published) = {}
    BY DEF Init, OlderSets
  <2>2. Cardinality(OlderSets(frozenAt, published)) = 0
    BY <2>1, FS_EmptySet
  <2>3. publishes = 0 /\ published = 0 /\ \A v \in Numbers : frozenAt[v] = 0
    BY DEF Init
  <2> QED BY <2>2, <2>3, Bounds DEF SetOrder, RollbackTargets
<1>2. IInv /\ IInv' /\ SetOrder /\ [Next]_vars => SetOrder'
  BY SetOrderStep
<1>3. SetOrder => RollbackTargets
  BY DEF SetOrder
<1> QED BY <1>1, <1>2, <1>3, Invariance, PTL DEF Spec

=============================================================================
