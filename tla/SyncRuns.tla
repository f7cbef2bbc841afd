------------------------------ MODULE SyncRuns ------------------------------
(* The built-in module sync: modules/sync/src/run.ts. The runs of one source *)
(* of one app.                                                               *)
(*                                                                           *)
(* Every minute a pass of the app's job reads the config and the source's    *)
(* row and runs the source when it is due; people run it by hand. A run      *)
(* takes the row's lease of two minutes by one conditional statement, is     *)
(* counted against the app's hour, fetches and imports, and stores its       *)
(* outcome: counters computed from the row as the claim returned it. The     *)
(* lease is given back without asking whose it is. Meanwhile members change  *)
(* or remove the source and resume it, and processes die.                    *)
(*                                                                           *)
(* A lease is a time in the row; here it is the run that wrote it, "orphan"  *)
(* when that run has died, "over" when its time has come. Of the delay       *)
(* before the next run only its end is told.                                 *)
EXTENDS Integers, FiniteSets

CONSTANTS
    Configs,      \* what a source may be configured to fetch (their hashes)
    Passes,       \* passes of the job under way (one, or more when one strays)
    Hands,        \* runs by hand under way
    PauseAfter,   \* SYNC_PAUSE_AFTER_FAILURES
    RunsPerHour,  \* SYNC_RUNS_PER_HOUR_PER_APP
    MaxSyncFaults, \* bound: processes that die, calls that fail
    Nil

Workers == Passes \cup Hands

(* The rows there may be (sync_sources).                                     *)
SourceRows ==
    [hash : Configs \cup {Nil}, failures : 0 .. PauseAfter,
     paused : BOOLEAN, due : BOOLEAN,
     lease : Workers \cup {Nil, "orphan", "over"}]

ASSUME SyncAssumption ==
    /\ PauseAfter \in Nat \ {0} /\ RunsPerHour \in Nat /\ MaxSyncFaults \in Nat
    /\ Nil \notin Configs \cup SourceRows
    /\ {Nil, "orphan", "over"} \cap Workers = {}

VARIABLES
    config,       \* the source's config; Nil: the app has no such source
    row,          \* its row; Nil: there is none
    used,         \* runs counted in this hour
    pc,           \* the next call of each run or pass
    mine,         \* the config it began with
    claimed,      \* the row as its claim returned it
    outlived,     \* runs in flight for more than two minutes
    robbed,       \* history: runs in flight whose lease others gave away
    streak,       \* history: failed runs in a row, and of which config
    overtaken,    \* history: an outcome was computed from an old row
    syncFaults

runs == <<pc, mine, claimed, outlived>>
history == <<robbed, streak, overtaken>>
syncVars == <<config, row, used, runs, history, syncFaults>>

NoCount == [of |-> Nil, n |-> 0]
Up(n) == IF n < PauseAfter THEN n + 1 ELSE n

InUse(w) == w.lease \notin {Nil, "over"}
ClaimableWhenFreeMutant(w) == w.lease = Nil
ClaimableAlwaysMutant(w) == TRUE
Claimable(w) == ~InUse(w)
Fresh(w, c) == w.hash # c
Counts(w) == [hash |-> w.hash, failures |-> w.failures, paused |-> w.paused]

(* Does the scheduled pass run the source? A source that is new, changed or  *)
(* resumed is due at once, whatever its row says of a pause.                 *)
SourceDue(w, c) ==
    w # Nil => ~InUse(w) /\ (~Fresh(w, c) => ~w.paused /\ w.due)

InFlight(r) == pc[r] \in {"count", "run"}

-----------------------------------------------------------------------------
Idle(r) ==
    /\ pc' = [pc EXCEPT ![r] = "idle"]
    /\ mine' = [mine EXCEPT ![r] = Nil]
    /\ claimed' = [claimed EXCEPT ![r] = Nil]
    /\ outlived' = outlived \ {r}

Goes(r, l) ==
    /\ pc' = [pc EXCEPT ![r] = l]
    /\ UNCHANGED <<mine, claimed, outlived>>

Begins(r, l) ==
    /\ pc[r] = "idle"
    /\ pc' = [pc EXCEPT ![r] = l]
    /\ mine' = [mine EXCEPT ![r] = config]
    /\ UNCHANGED <<config, row, used, claimed, outlived, history, syncFaults>>

(* The job of the app begins with the config it was given ...                *)
BeginPass(r) == r \in Passes /\ Begins(r, "load")

(* ... and a person's request with the one it read.                          *)
RunNow(r) == r \in Hands /\ config # Nil /\ Begins(r, "claim")

(* runDueSources: what the states say when they are read.                    *)
LoadStates(r) ==
    /\ pc[r] = "load"
    /\ \/ mine[r] # Nil /\ SourceDue(row, mine[r]) /\ Goes(r, "claim")
       \/ mine[r] = Nil /\ row # Nil /\ Goes(r, "forget")
       \/ /\ IF mine[r] = Nil THEN row = Nil ELSE ~SourceDue(row, mine[r])
          /\ Idle(r)
    /\ UNCHANGED <<config, row, used, history, syncFaults>>

(* At its end a pass deletes the rows of sources its config did not have.    *)
ForgetSource(r) ==
    /\ pc[r] = "forget"
    /\ row' = Nil
    /\ robbed' = robbed \cup {s \in Workers : row # Nil /\ row.lease = s}
    /\ streak' = NoCount
    /\ overtaken' = FALSE
    /\ Idle(r)
    /\ UNCHANGED <<config, used, syncFaults>>

NewRow(r) ==
    [hash |-> mine[r], failures |-> 0, paused |-> FALSE, due |-> TRUE, lease |-> r]

(* INSERT ... ON CONFLICT DO UPDATE ... WHERE the lease is free or over.     *)
Claim(r) ==
    /\ pc[r] = "claim"
    /\ \/ /\ row # Nil => Claimable(row)
          /\ row' = IF row = Nil THEN NewRow(r) ELSE [row EXCEPT !.lease = r]
          /\ claimed' = [claimed EXCEPT ![r] = Counts(row')]
          /\ pc' = [pc EXCEPT ![r] = "count"]
          /\ UNCHANGED <<mine, outlived>>
       \/ /\ row # Nil /\ ~Claimable(row)
          /\ Idle(r)
          /\ UNCHANGED row
    /\ UNCHANGED <<config, used, history, syncFaults>>

(* Whoever gives the lease back empties the row's, whose ever it is. A run   *)
(* that does so to another's has overstayed, or was robbed before.           *)
Returns(r) ==
    robbed' = IF r \in outlived \cup robbed
        THEN (robbed \cup {s \in Workers : row # Nil /\ row.lease = s}) \ {r}
        ELSE robbed

GiveBackMutant(r) ==
    /\ UNCHANGED <<row, robbed>>
    /\ Idle(r)

GiveBack(r) ==
    /\ row' = IF row = Nil THEN Nil ELSE [row EXCEPT !.lease = Nil]
    /\ Returns(r)
    /\ Idle(r)

(* ctx.rateLimit: counted, refused, or failed; the last two give back.       *)
Count(r) ==
    /\ pc[r] = "count"
    /\ \/ /\ used < RunsPerHour
          /\ used' = used + 1
          /\ Goes(r, "run")
          /\ UNCHANGED <<row, robbed, syncFaults>>
       \/ /\ used >= RunsPerHour
          /\ GiveBack(r)
          /\ UNCHANGED <<used, syncFaults>>
       \/ /\ syncFaults < MaxSyncFaults
          /\ syncFaults' = syncFaults + 1
          /\ GiveBack(r)
          /\ UNCHANGED used
    /\ UNCHANGED <<config, streak, overtaken>>

SameConfigMutant(r) == TRUE
SameConfig(r) == claimed[r].hash = mine[r]

(* The outcome, written to the row if there still is one.                    *)
Stored(r, ok) ==
    LET before == IF SameConfig(r) THEN claimed[r].failures ELSE 0
        wasPaused == SameConfig(r) /\ claimed[r].paused IN
    [hash |-> mine[r],
     failures |-> IF ok THEN 0 ELSE Up(before),
     paused |-> ~ok /\ (wasPaused \/ before + 1 >= PauseAfter),
     due |-> FALSE,
     lease |-> Nil]

Finish(r, ok) ==
    /\ pc[r] = "run"
    /\ row' = IF row = Nil THEN Nil ELSE Stored(r, ok)
    /\ IF row = Nil
        THEN UNCHANGED <<streak, overtaken>>
        ELSE /\ streak' =
                  [of |-> mine[r],
                   n |-> IF ok THEN 0
                         ELSE IF streak.of = mine[r] THEN Up(streak.n) ELSE 1]
             /\ overtaken' = (~ok /\ (overtaken \/ Counts(row) # claimed[r]))
    /\ Returns(r)
    /\ Idle(r)
    /\ UNCHANGED <<config, used, syncFaults>>

(* The process dies: its lease stands until its time.                        *)
Dies(r) ==
    /\ pc[r] # "idle" /\ syncFaults < MaxSyncFaults
    /\ syncFaults' = syncFaults + 1
    /\ row' = IF row # Nil /\ row.lease = r THEN [row EXCEPT !.lease = "orphan"]
              ELSE row
    /\ robbed' = robbed \ {r}
    /\ Idle(r)
    /\ UNCHANGED <<config, used, streak, overtaken>>

-----------------------------------------------------------------------------
(* Two minutes after its claim: a run that is still at it, and one that died.*)
Outlives(r) ==
    /\ InFlight(r) /\ r \notin outlived
    /\ outlived' = outlived \cup {r}
    /\ row' = IF row # Nil /\ row.lease = r THEN [row EXCEPT !.lease = "over"]
              ELSE row
    /\ UNCHANGED <<config, used, pc, mine, claimed, history, syncFaults>>

OrphanEnds ==
    /\ row # Nil /\ row.lease = "orphan"
    /\ row' = [row EXCEPT !.lease = "over"]
    /\ UNCHANGED <<config, used, runs, history, syncFaults>>

DelayEnds ==
    /\ row # Nil /\ ~row.due
    /\ row' = [row EXCEPT !.due = TRUE]
    /\ UNCHANGED <<config, used, runs, history, syncFaults>>

HourEnds ==
    /\ used > 0
    /\ used' = 0
    /\ UNCHANGED <<config, row, runs, history, syncFaults>>

(* resumeSource: only a pause is lifted; the cleared hash makes it due.      *)
Resume ==
    /\ config # Nil /\ row # Nil /\ row.paused
    /\ row' = [row EXCEPT !.paused = FALSE, !.failures = 0, !.hash = Nil]
    /\ streak' = NoCount
    /\ overtaken' = FALSE
    /\ UNCHANGED <<config, used, runs, robbed, syncFaults>>

(* configure_module: the source is added, changed or removed.                *)
Configure(c) ==
    /\ config # c
    /\ config' = c
    /\ UNCHANGED <<row, used, runs, history, syncFaults>>

-----------------------------------------------------------------------------
SyncInit ==
    /\ config = Nil /\ row = Nil /\ used = 0
    /\ pc = [r \in Workers |-> "idle"]
    /\ mine = [r \in Workers |-> Nil]
    /\ claimed = [r \in Workers |-> Nil]
    /\ outlived = {} /\ robbed = {}
    /\ streak = NoCount /\ overtaken = FALSE /\ syncFaults = 0

Step(r) ==
    \/ LoadStates(r) \/ ForgetSource(r) \/ Claim(r) \/ Count(r)
    \/ \E ok \in BOOLEAN : Finish(r, ok)

SyncNext ==
    \/ \E r \in Workers : BeginPass(r) \/ RunNow(r) \/ Step(r) \/ Dies(r) \/ Outlives(r)
    \/ OrphanEnds \/ DelayEnds \/ HourEnds \/ Resume
    \/ \E c \in Configs \cup {Nil} : Configure(c)

SyncSpec == SyncInit /\ [][SyncNext]_syncVars

(* The job's passes begin, a run's next call returns, and time passes.       *)
SyncLiveSpec ==
    /\ SyncSpec
    /\ \A r \in Passes : WF_syncVars(BeginPass(r))
    /\ \A r \in Workers : WF_syncVars(Step(r))
    /\ WF_syncVars(OrphanEnds) /\ WF_syncVars(DelayEnds) /\ WF_syncVars(HourEnds)

-----------------------------------------------------------------------------
(* The types; a row paused or a lease held by a run is so for a reason that  *)
(* is still there.                                                           *)
SyncTypeOK ==
    /\ config \in Configs \cup {Nil}
    /\ row \in SourceRows \cup {Nil}
    /\ row # Nil =>
        /\ row.lease \in Workers => InFlight(row.lease) /\ row.lease \notin outlived
        /\ row.paused => row.failures = PauseAfter
    /\ used \in 0 .. RunsPerHour
    /\ pc \in [Workers -> {"idle", "load", "forget", "claim", "count", "run"}]
    /\ mine \in [Workers -> Configs \cup {Nil}]
    /\ outlived \cup robbed \subseteq {r \in Workers : InFlight(r)}
    /\ syncFaults \in 0 .. MaxSyncFaults

(* "One run of a source at a time, across replicas", as far as the lease     *)
(* carries: of two runs at once one has overstayed its two minutes, or lost  *)
(* its lease to one that had, or to the removal of the source under it.      *)
OneRunAtATime ==
    \A r, s \in {x \in Workers : InFlight(x)} \ (outlived \cup robbed) : r = s

(* A pause is earned: SYNC_PAUSE_AFTER_FAILURES runs of this very config     *)
(* failed in a row since the last success or resume - unless an outcome was  *)
(* computed from a row that had changed since the claim.                     *)
PauseIsEarned ==
    row # Nil /\ row.paused =>
        overtaken \/ (streak.of = row.hash /\ streak.n >= PauseAfter)

(* A source that stays configured and is not paused keeps running: neither a *)
(* dead run's lease, nor a spent hour, nor a refused claim stops it for good.*)
KeepsRunning ==
    <>[](config # Nil /\ (row # Nil => ~row.paused))
        => []<>(\E r \in Workers : pc[r] = "run")
=============================================================================
