---------------------------- MODULE AppVersions ----------------------------
(***************************************************************************)
(* The versions of one app: packages/apps/src/versions.server.ts,          *)
(* version-keep.server.ts, version-rate.server.ts and                      *)
(* version-retention.server.ts.                                            *)
(*                                                                         *)
(* Every operation is one transaction that begins by locking the app's     *)
(* row, so each is one action here.  Two operations take several           *)
(* transactions and let everything else happen in between: the hourly      *)
(* retention, and a member's clean-up, which is shown as a plan, confirmed *)
(* later, and carried out in batches.                                      *)
(*                                                                         *)
(* Left out: file contents and their quota, the publish approval (a        *)
(* refusal changes no version), the draft assets a restore resets, and a   *)
(* soft-deleted app (its versions stay; only the purge removes them).      *)
(***************************************************************************)
EXTENDS Integers, FiniteSets

CONSTANTS
    Members,       \* members who may run a clean-up at once
    Keep,          \* APP_VERSIONS_KEEP
    KeptMax,       \* APP_VERSIONS_KEPT_MAX
    SetsKept,      \* ASSET_SNAPSHOTS_KEPT
    PerApp,        \* VERSIONS_PER_APP_HOUR
    Batch,         \* PRUNE_BATCH
    MaxNumber,     \* bound: versions ever made
    MaxPublishes   \* bound: publishes ever made

ASSUME LimitAssumption ==
    /\ {Keep, KeptMax, SetsKept, MaxNumber, MaxPublishes} \subseteq Nat
    /\ {PerApp, Batch} \subseteq Nat \ {0}

Numbers == 1..MaxNumber

VARIABLES
    stored,      \* numbers of the versions that exist
    ok,          \* those whose build succeeded
    kept,        \* those a member keeps (kept_at)
    frozenAt,    \* when a version's asset set was frozen (assets_frozen_at); 0: it has none
    published,   \* the version the production host serves; 0: none
    locked,      \* a super-admin took the app down
    lastHour,    \* versions made within the last hour, deleted or not
    made,        \* versions ever made: the highest number given out
    publishes,   \* the clock of frozenAt
    pruning,     \* the retention is between two batches of this app
    cl,          \* where a member's clean-up stands
    scope,       \* the versions it may touch: up to a number, perhaps only failed builds
    shown,       \* the plan the member saw
    planned      \* the plan made again under the first batch's lock

versionVars == <<stored, ok, kept, frozenAt, published, locked, lastHour, made, publishes>>
cleanupVars == <<cl, scope, shown, planned>>
vars == <<versionVars, pruning, cleanupVars>>

Scopes == [upTo : Numbers, failedOnly : BOOLEAN]

TypeOK ==
    /\ stored \subseteq Numbers /\ ok \subseteq stored /\ kept \subseteq stored
    /\ frozenAt \in [Numbers -> 0..MaxPublishes]
    /\ published \in 0..MaxNumber
    /\ locked \in BOOLEAN /\ pruning \in BOOLEAN
    /\ lastHour \subseteq Numbers
    /\ made \in 0..MaxNumber /\ publishes \in 0..MaxPublishes
    /\ cl \in [Members -> {"idle", "shown", "batches"}]
    /\ scope \in [Members -> Scopes \cup {<<>>}]
    /\ shown \in [Members -> SUBSET Numbers]
    /\ planned \in [Members -> SUBSET Numbers]

-----------------------------------------------------------------------------
(* What the statements read.                                               *)

Highest(S) == CHOOSE v \in S : \A w \in S : w <= v

\* The version the preview host serves: the newest that compiled.
Preview == IF ok = {} THEN 0 ELSE Highest(ok)

NextNumber == IF stored = {} THEN 1 ELSE Highest(stored) + 1

\* The PerApp-th newest version is still inside the hour.
WindowFull ==
    \E v \in stored \cap lastHour : Cardinality({w \in stored : w >= v}) = PerApp

HasSet == {v \in stored : frozenAt[v] # 0}

ProtectedNotRecentMutant(v) ==
    \/ v \in {published, Preview, Highest(stored)}
    \/ v \in kept \cup HasSet
ProtectedNotNewestMutant(v) ==
    \/ v \in {published, Preview}
    \/ v \in kept \cup HasSet \cup lastHour

\* The one rule both deleters share: the version must stay.
Protected(v) ==
    \/ v \in {published, Preview, Highest(stored)}
    \/ v \in kept \cup HasSet \cup lastHour

InScope(s) == {v \in stored : v <= s.upTo /\ (s.failedOnly => v \notin ok)}

Free(S) == {v \in S : ~Protected(v)}

LowestOf(S, n) == {v \in S : Cardinality({w \in S : w < v}) < n}

-----------------------------------------------------------------------------
Init ==
    /\ stored = {} /\ ok = {} /\ kept = {} /\ frozenAt = [v \in Numbers |-> 0]
    /\ published = 0 /\ locked = FALSE /\ lastHour = {} /\ made = 0 /\ publishes = 0
    /\ pruning = FALSE
    /\ cl = [m \in Members |-> "idle"] /\ scope = [m \in Members |-> <<>>]
    /\ shown = [m \in Members |-> {}] /\ planned = [m \in Members |-> {}]

\* The insert createVersion and restore share; `made` is the bound.
Insert(succeeded) ==
    /\ ~locked
    /\ ~WindowFull
    /\ made < MaxNumber
    /\ stored' = stored \cup {NextNumber}
    /\ ok' = IF succeeded THEN ok \cup {NextNumber} ELSE ok
    /\ lastHour' = lastHour \cup {NextNumber}
    /\ made' = made + 1
    /\ UNCHANGED <<kept, frozenAt, published, locked, publishes, pruning, cleanupVars>>

CreateVersion == \E succeeded \in BOOLEAN : Insert(succeeded)

\* A new version with the files and the compile result of version n.
Restore == \E n \in stored : Insert(n \in ok)

-----------------------------------------------------------------------------
(* publish and the asset sets it freezes.                                  *)

OlderSetsMutant(at, live) == {v \in stored : at[v] # 0}
\* Sets other than the live one: the ones pruneAssetSnapshots may drop.
OlderSets(at, live) == {v \in stored \ {live} : at[v] # 0}

DropSetsMutant(at, live, n) ==
    LET older == OlderSets(at, live)
        newer(v) == {w \in older : at[w] > at[v]}
    IN  [v \in Numbers |-> IF v \in older /\ Cardinality(newer(v)) > n THEN 0 ELSE at[v]]

\* Only the n most recent of the older sets stay.
DropSets(at, live, n) ==
    LET older == OlderSets(at, live)
        newer(v) == {w \in older : at[w] > at[v]}
    IN  [v \in Numbers |-> IF v \in older /\ Cardinality(newer(v)) >= n THEN 0 ELSE at[v]]

Publish(n) ==
    /\ ~locked
    /\ n \in ok
    /\ publishes < MaxPublishes
    /\ publishes' = publishes + 1
    /\ published' = n
    /\ frozenAt' = DropSets([frozenAt EXCEPT ![n] = publishes + 1], n, SetsKept)
    /\ UNCHANGED <<stored, ok, kept, locked, lastHour, made, pruning, cleanupVars>>

\* An upload over the asset quota drops the oldest sets until it fits.
QuotaDropsSets ==
    /\ \E n \in 0..SetsKept :
        /\ n < Cardinality(OlderSets(frozenAt, published))
        /\ frozenAt' = DropSets(frozenAt, published, n)
    /\ UNCHANGED <<stored, ok, kept, published, locked, lastHour, made, publishes, pruning,
                   cleanupVars>>

Unpublish ==
    /\ published # 0
    /\ published' = 0
    /\ UNCHANGED <<stored, ok, kept, frozenAt, locked, lastHour, made, publishes, pruning,
                   cleanupVars>>

TakedownApp ==
    /\ ~locked
    /\ locked' = TRUE
    /\ published' = 0
    /\ UNCHANGED <<stored, ok, kept, frozenAt, lastHour, made, publishes, pruning,
                   cleanupVars>>

RestoreApp ==
    /\ locked
    /\ locked' = FALSE
    /\ UNCHANGED <<stored, ok, kept, frozenAt, published, lastHour, made, publishes, pruning,
                   cleanupVars>>

\* keepVersion works on a taken-down app too: it locks the row without asking.
KeepVersion(n) ==
    /\ \/ n \in stored \ kept /\ Cardinality(kept) < KeptMax /\ kept' = kept \cup {n}
       \/ n \in kept /\ kept' = kept \ {n}
    /\ UNCHANGED <<stored, ok, frozenAt, published, locked, lastHour, made, publishes, pruning,
                   cleanupVars>>

\* The oldest version of the last hour leaves it.
HourPasses ==
    /\ lastHour # {}
    /\ lastHour' = {v \in lastHour : \E w \in lastHour : w < v}
    /\ UNCHANGED <<stored, ok, kept, frozenAt, published, locked, made, publishes, pruning,
                   cleanupVars>>

-----------------------------------------------------------------------------
(* The two deleters.                                                       *)

\* DELETE FROM app_versions; published_version_id is ON DELETE SET NULL.
Delete(S) ==
    /\ stored' = stored \ S
    /\ ok' = ok \ S
    /\ kept' = kept \ S
    /\ frozenAt' = [v \in Numbers |-> IF v \in S THEN 0 ELSE frozenAt[v]]
    /\ published' = IF published \in S THEN 0 ELSE published
    /\ UNCHANGED <<locked, lastHour, made, publishes>>

PastKeep == {v \in stored : v <= Highest(stored) - Keep}

\* The app is a candidate: it has more versions than it may keep.
RetentionStart ==
    /\ ~pruning
    /\ Cardinality(stored) > 1 /\ Cardinality(stored) > Keep
    /\ pruning' = TRUE
    /\ UNCHANGED <<versionVars, cleanupVars>>

\* One batch; a full one is followed by another.
RetentionBatch ==
    LET batch == LowestOf(Free(PastKeep), Batch) IN
    /\ pruning
    /\ Delete(batch)
    /\ pruning' = (Cardinality(batch) = Batch)
    /\ UNCHANGED cleanupVars

CleanupIdle(m) ==
    /\ cl' = [cl EXCEPT ![m] = "idle"]
    /\ scope' = [scope EXCEPT ![m] = <<>>]
    /\ shown' = [shown EXCEPT ![m] = {}]
    /\ planned' = [planned EXCEPT ![m] = {}]

\* planVersionDeletion: the member sees what would go and why the rest stays.
PlanVersionDeletion(m, s) ==
    /\ cl[m] = "idle"
    /\ ~locked
    /\ Free(InScope(s)) # {}
    /\ cl' = [cl EXCEPT ![m] = "shown"]
    /\ scope' = [scope EXCEPT ![m] = s]
    /\ shown' = [shown EXCEPT ![m] = Free(InScope(s))]
    /\ UNCHANGED <<versionVars, pruning, planned>>

\* expectedPlanId: the set worked out under the lock is the one the member saw.
PlanHolds(m) == Free(InScope(scope[m])) = shown[m]

BatchOfMutant(m, plan) == LowestOf(Free(InScope(scope[m])), Batch)
BatchUnprotectedMutant(m, plan) == LowestOf(InScope(scope[m]) \cap plan, Batch)
\* One batch of the plan; what protects a version is asked again.
BatchOf(m, plan) == LowestOf(Free(InScope(scope[m])) \cap plan, Batch)

\* Delete a batch; a full one is followed by another, a short one ends the call.
CleanupBatch(m, plan) ==
    LET batch == BatchOf(m, plan) IN
    /\ Delete(batch)
    /\ \/ /\ Cardinality(batch) = Batch
          /\ cl' = [cl EXCEPT ![m] = "batches"]
          /\ planned' = [planned EXCEPT ![m] = plan]
          /\ UNCHANGED <<scope, shown>>
       \/ Cardinality(batch) < Batch /\ CleanupIdle(m)
    /\ UNCHANGED pruning

\* The confirmed call: its first transaction makes the plan again.
DeleteVersions(m) ==
    /\ cl[m] = "shown"
    /\ ~locked
    /\ PlanHolds(m)
    /\ CleanupBatch(m, Free(InScope(scope[m])))

NextBatch(m) ==
    /\ cl[m] = "batches"
    /\ ~locked
    /\ CleanupBatch(m, planned[m])

\* plan_changed, app_locked_by_admin or a member who says no ends it before the
\* first batch; a takedown or a failure between two batches later.
CleanupStops(m) ==
    /\ cl[m] # "idle"
    /\ CleanupIdle(m)
    /\ UNCHANGED <<versionVars, pruning>>

Next ==
    \/ CreateVersion \/ Restore
    \/ \E n \in Numbers : Publish(n) \/ KeepVersion(n)
    \/ QuotaDropsSets \/ Unpublish \/ TakedownApp \/ RestoreApp \/ HourPasses
    \/ RetentionStart \/ RetentionBatch
    \/ \E m \in Members :
        \/ \E s \in Scopes : PlanVersionDeletion(m, s)
        \/ DeleteVersions(m) \/ NextBatch(m) \/ CleanupStops(m)

Spec == Init /\ [][Next]_vars

-----------------------------------------------------------------------------
(* Properties.                                                             *)

\* Version numbers are never reused: whatever was deleted, the highest number
\* ever given out is still stored, so max(number) + 1 is a new one.
NewestStays == made # 0 => made \in stored

\* Deleting versions makes no room in the hourly rate, which counts the rows
\* that exist: at most PerApp versions are made within any hour.
RateIsHourly == Cardinality(lastHour) <= PerApp

\* The published version exists, compiled, and has its asset set: neither the
\* quota nor the limit on sets takes it from the version production serves.
LiveHasSet == published # 0 => published \in ok \cap HasSet

\* A rollback stays possible: a version that still has its asset set exists
\* and compiled, and at most SetsKept older versions (one more while nothing
\* is published) have one.
RollbackTargets ==
    /\ \A v \in Numbers : frozenAt[v] # 0 => v \in ok
    /\ Cardinality(OlderSets(frozenAt, published)) <= SetsKept + (IF published = 0 THEN 1 ELSE 0)

\* A deletion is never seen on a production or preview host, and takes no
\* version a member keeps or a rollback needs, whichever batch it comes in.
DeletionsShowNothing ==
    [][~(stored \subseteq stored') =>
        /\ published' = published /\ Preview' = Preview
        /\ kept' = kept /\ HasSet' = HasSet]_vars

\* Nothing among the newest Keep versions goes except what a member saw in the
\* plan they confirmed, even if versions stop being kept between the batches.
OnlyShownGo ==
    [][\A v \in stored \ stored' :
        \/ v \in PastKeep
        \/ \E m \in Members : cl[m] # "idle" /\ v \in shown[m]]_vars

\* The parts of the inductive invariant behind AppVersionsProofs: the newest
\* version is the last one made, the last hour is a run of stored versions up
\* to it, sets belong to compiled versions, a batch stays inside the plan.
Numbering == NewestStays /\ stored \subseteq 1..made
HourWindow ==
    /\ lastHour \subseteq stored
    /\ \E k \in 1..(made + 1) : lastHour = k..made
    /\ RateIsHourly
AssetSets == LiveHasSet /\ \A v \in Numbers : frozenAt[v] # 0 => v \in ok
Plans == \A m \in Members :
    /\ planned[m] \subseteq shown[m]
    /\ cl[m] # "batches" => planned[m] = {}

IInv == TypeOK /\ Numbering /\ HourWindow /\ AssetSets /\ Plans

\* Sets are told apart by when they were frozen, so "the most recent ones" are
\* as many as the limit says.
SetOrder ==
    /\ \A v \in Numbers : frozenAt[v] <= publishes
    /\ \A v, w \in Numbers : frozenAt[v] # 0 /\ frozenAt[v] = frozenAt[w] => v = w
    /\ RollbackTargets

=============================================================================
