----------------------------- MODULE ModuleJobs -----------------------------
(***************************************************************************)
(* The scheduler of the modules' jobs, packages/modules/src/jobs.ts, run by *)
(* every replica: ticks that look for due runs, a Redis lease per run, the  *)
(* timeout, the backoff, and what a restart or a failing Redis does to it.  *)
(*                                                                         *)
(* Time is kept as ages and as time left, so a behaviour never runs out of  *)
(* it.  The unit is the tick, MODULE_JOBS_TICK_MS: a replica begins one in   *)
(* every unit, unless the one before is still on.  A job here is a server    *)
(* job, or one app of an app job; apps are looked at one by one.            *)
(*                                                                         *)
(* A run's work is followed until it settles or its grace is over; what     *)
(* ignores its signal for longer is on its own.  lastSuccessAt, which is    *)
(* only handed to the work, and the expiry of the state, which comes after   *)
(* every delay, are left out.                                              *)
(***************************************************************************)
EXTENDS Integers, FiniteSets

CONSTANTS
    Replicas, None,
    NumJobs,       \* the jobs, in the order a tick looks at them
    Interval,      \* each job's interval
    Backoff,       \* BACKOFF_BASE_MS
    BackoffCap,    \* BACKOFF_CAP_MS
    Timeout,       \* MODULE_JOBS_TIMEOUT_MS
    Grace,         \* TIMEOUT_GRACE_MS
    Slack,         \* what the lease lasts beyond both, a minute
    Late,          \* how long Redis and the event loop hold one run up, in all
    Concurrency,   \* MODULE_JOBS_CONCURRENCY
    SlowTicks,     \* a tick may last longer than MODULE_JOBS_TICK_MS
    MaxAge,        \* bound: ages told apart, at least the longest delay
    MaxFailures,   \* bound: failures in a row told apart
    MaxFaults      \* bound: crashes, shutdowns and Redis calls that fail

Jobs == 1..NumJobs

ASSUME BoundAssumption ==
    /\ NumJobs \in Nat /\ Concurrency \in Nat /\ MaxFaults \in Nat
    /\ Backoff \in Nat /\ BackoffCap \in Nat /\ Interval \in [Jobs -> Nat]
    /\ Timeout \in Nat /\ Grace \in Nat /\ Slack \in Nat /\ Late \in Nat
    /\ MaxAge \in Nat /\ MaxFailures \in Nat \ {0} /\ SlowTicks \in BOOLEAN

ASSUME ReplicaAssumption == IsFiniteSet(Replicas) /\ None \notin Replicas

\* Redis calls and timers hold a run up for less than the lease's slack.
ASSUME LateAssumption == Late < Slack /\ Late <= MaxAge

VARIABLES
    last,      \* Redis: a job's last run [age, failures], None before the first
    lease,     \* Redis: a job's lease [by, left], or None
    at,        \* the job a replica's tick is at, 0 between ticks
    reading,   \* that tick is reading the job's state
    ticked,    \* the replica's tick of this unit has begun
    up,        \* FALSE while the replica shuts down
    run,       \* a replica's run of a job [phase, state, left, late], or None
    faults

redis  == <<last, lease>>
ticker == <<at, reading, ticked>>
vars   == <<redis, ticker, up, run, faults>>

(* Launched, holding the lease, with the state read, working; recording its *)
(* end or, after the timeout, that it expired; winding down after that;     *)
(* giving the lease back, with its slot already freed (done) or not (left).  *)
Phases == {"launched", "held", "read", "work", "record", "expired", "wind", "done", "left"}

States == [age : 0..MaxAge, failures : 0..MaxFailures]
Runs   == [phase : Phases, state : States \cup {None}, left : Nat, late : 0..Late]
Leases == [by : Replicas, left : Nat \ {0}]

ASSUME NoneAssumption == None \notin States \cup Runs \cup Leases

TypeOK ==
    /\ last \in [Jobs -> States \cup {None}]
    /\ lease \in [Jobs -> Leases \cup {None}]
    /\ at \in [Replicas -> 0..NumJobs]
    /\ reading \in [Replicas -> BOOLEAN] /\ ticked \in [Replicas -> BOOLEAN]
    /\ up \in [Replicas -> BOOLEAN]
    /\ run \in [Replicas -> [Jobs -> Runs \cup {None}]]
    /\ faults \in 0..MaxFaults

Init ==
    /\ last = [j \in Jobs |-> None] /\ lease = [j \in Jobs |-> None]
    /\ at = [r \in Replicas |-> 0]
    /\ reading = [r \in Replicas |-> FALSE] /\ ticked = [r \in Replicas |-> FALSE]
    /\ up = [r \in Replicas |-> TRUE]
    /\ run = [r \in Replicas |-> [j \in Jobs |-> None]]
    /\ faults = 0

Fault == faults < MaxFaults /\ faults' = faults + 1

-----------------------------------------------------------------------------
(* jobBackoffMs and jobDueAt.                                               *)

Lower(a, b)  == IF a <= b THEN a ELSE b
Higher(a, b) == IF a >= b THEN a ELSE b

Wait == [j \in Jobs |-> [n \in 0..MaxFailures |->
           IF n = 0 THEN Interval[j]
           ELSE Lower(Higher(Interval[j], BackoffCap), Backoff * 2^(n - 1))]]

Due(j, l) == l # None => l.age >= Wait[j][l.failures]

Older(l)    == IF l = None \/ l.age = MaxAge THEN l ELSE [l EXCEPT !.age = @ + 1]
Failures(l) == IF l = None THEN 0 ELSE l.failures
OneMore(n)  == IF n = MaxFailures THEN n ELSE n + 1

-----------------------------------------------------------------------------
(* tick, scheduleServerJob and scheduleAppJob.                              *)

SlotPhases == {"launched", "held", "read", "work", "record", "expired", "left"}
InPhase(r, j, P) == run[r][j] # None /\ run[r][j].phase \in P
\* Mutant: a slot is taken only with the lease.
SlotsMutant(r) == {j \in Jobs : InPhase(r, j, SlotPhases \ {"launched"})}
Slots(r) == {j \in Jobs : InPhase(r, j, SlotPhases)}

\* Mutant: the loop runs past the last job.
Following(j) == IF j = NumJobs THEN 0 ELSE j + 1

TickStart(r) ==
    /\ ~ticked[r] /\ at[r] = 0 /\ up[r] /\ NumJobs > 0
    /\ at' = [at EXCEPT ![r] = 1]
    /\ ticked' = [ticked EXCEPT ![r] = TRUE]
    /\ UNCHANGED <<redis, reading, up, run, faults>>

\* At a job: every slot taken ends the tick, a job that runs here is passed.
TickLook(r) ==
    /\ at[r] # 0 /\ ~reading[r]
    /\ \/ /\ Cardinality(Slots(r)) >= Concurrency
          /\ at' = [at EXCEPT ![r] = 0]
          /\ UNCHANGED reading
       \/ /\ Cardinality(Slots(r)) < Concurrency
          /\ run[r][at[r]] # None
          /\ at' = [at EXCEPT ![r] = Following(at[r])]
          /\ UNCHANGED reading
       \/ /\ Cardinality(Slots(r)) < Concurrency
          /\ run[r][at[r]] = None
          /\ reading' = [reading EXCEPT ![r] = TRUE]
          /\ UNCHANGED at
    /\ UNCHANGED <<redis, ticked, up, run, faults>>

Launched == [phase |-> "launched", state |-> None, left |-> 0, late |-> 0]

TickRead(r) ==
    /\ at[r] # 0 /\ reading[r]
    /\ run' = IF Due(at[r], last[at[r]]) THEN [run EXCEPT ![r][at[r]] = Launched] ELSE run
    /\ at' = [at EXCEPT ![r] = Following(at[r])]
    /\ reading' = [reading EXCEPT ![r] = FALSE]
    /\ UNCHANGED <<redis, ticked, up, faults>>

\* The state could not be read: logged, and the tick goes on.
TickReadFails(r) ==
    /\ at[r] # 0 /\ reading[r]
    /\ at' = [at EXCEPT ![r] = Following(at[r])]
    /\ reading' = [reading EXCEPT ![r] = FALSE]
    /\ Fault
    /\ UNCHANGED <<redis, ticked, up, run>>

-----------------------------------------------------------------------------
(* execute: one run of job j by replica r, under withRedisLock.             *)

SetRun(r, j, x) == run' = [run EXCEPT ![r][j] = x]
GoesOn(r, j, phase, state, left) ==
    SetRun(r, j, [phase |-> phase, state |-> state, left |-> left, late |-> run[r][j].late])

\* Mutant: the grace is not in the lease ("the timeout + a minute").
LeaseTimeMutant == Timeout + Slack
LeaseTime == Timeout + Grace + Slack
Leased(r, j) == lease' = [lease EXCEPT ![j] = [by |-> r, left |-> LeaseTime]]

TakeLease(r, j) ==
    /\ InPhase(r, j, {"launched"})
    /\ \/ lease[j] = None /\ Leased(r, j) /\ GoesOn(r, j, "held", None, 0)
       \/ lease[j] # None /\ SetRun(r, j, None) /\ UNCHANGED lease
    /\ UNCHANGED <<last, ticker, up, faults>>

ReadState(r, j) ==
    /\ InPhase(r, j, {"held"})
    /\ GoesOn(r, j, "read", last[j], 0)
    /\ UNCHANGED <<redis, ticker, up, faults>>

\* Mutant: no second look.
BeginMutant(r, j) ==
    /\ InPhase(r, j, {"read"})
    /\ \/ up[r] /\ GoesOn(r, j, "work", run[r][j].state, Timeout)
       \/ ~up[r] /\ GoesOn(r, j, "left", None, 0)
    /\ UNCHANGED <<redis, ticker, up, faults>>

\* The second look, under the lease.
Begin(r, j) ==
    /\ InPhase(r, j, {"read"})
    /\ LET due == up[r] /\ Due(j, run[r][j].state) IN
       \/ due /\ GoesOn(r, j, "work", run[r][j].state, Timeout)
       \/ ~due /\ GoesOn(r, j, "left", None, 0)
    /\ UNCHANGED <<redis, ticker, up, faults>>

Ended(failures) == [age |-> 0, failures |-> failures]
Failed(r, j) == Ended(OneMore(Failures(run[r][j].state)))

Succeed(r, j) ==
    /\ InPhase(r, j, {"work"})
    /\ GoesOn(r, j, "record", Ended(0), 0)
    /\ UNCHANGED <<redis, ticker, up, faults>>

\* The work throws, or a shutdown aborts it.
Fail(r, j) ==
    /\ InPhase(r, j, {"work"})
    /\ GoesOn(r, j, "record", Failed(r, j), 0)
    /\ UNCHANGED <<redis, ticker, up, faults>>

\* The signal aborts, and the work may ignore it.
Expire(r, j) ==
    /\ InPhase(r, j, {"work"}) /\ run[r][j].left = 0
    /\ GoesOn(r, j, "expired", Failed(r, j), 0)
    /\ UNCHANGED <<redis, ticker, up, faults>>

Recorded(r, j) == last' = [last EXCEPT ![j] = run[r][j].state]

Record(r, j) ==
    /\ \/ InPhase(r, j, {"record"}) /\ GoesOn(r, j, "done", None, 0)
       \/ InPhase(r, j, {"expired"}) /\ GoesOn(r, j, "wind", None, Grace)
    /\ Recorded(r, j)
    /\ UNCHANGED <<lease, ticker, up, faults>>

\* The aborted work settles, or its grace is over.
Settle(r, j) ==
    /\ InPhase(r, j, {"wind"})
    /\ GoesOn(r, j, "done", None, 0)
    /\ UNCHANGED <<redis, ticker, up, faults>>

Release(r, j) ==
    /\ InPhase(r, j, {"done", "left"})
    /\ \/ lease[j] # None /\ lease[j].by = r /\ lease' = [lease EXCEPT ![j] = None]
       \/ ~(lease[j] # None /\ lease[j].by = r) /\ UNCHANGED lease
    /\ SetRun(r, j, None)
    /\ UNCHANGED <<last, ticker, up, faults>>

-----------------------------------------------------------------------------
(* Calls of Redis that fail, before they took effect or after.              *)

LeaseFails(r, j) ==
    /\ InPhase(r, j, {"launched"})
    /\ \/ lease[j] = None /\ Leased(r, j)
       \/ UNCHANGED lease
    /\ SetRun(r, j, None)
    /\ Fault
    /\ UNCHANGED <<last, ticker, up>>

ReadStateFails(r, j) ==
    /\ InPhase(r, j, {"held"})
    /\ GoesOn(r, j, "left", None, 0)
    /\ Fault
    /\ UNCHANGED <<redis, ticker, up>>

\* The lease goes back at once, even when the work was aborted and goes on.
RecordFails(r, j) ==
    /\ InPhase(r, j, {"record", "expired"})
    /\ Recorded(r, j) \/ UNCHANGED last
    /\ GoesOn(r, j, "left", None, 0)
    /\ Fault
    /\ UNCHANGED <<lease, ticker, up>>

ReleaseFails(r, j) ==
    /\ InPhase(r, j, {"done", "left"})
    /\ SetRun(r, j, None)
    /\ Fault
    /\ UNCHANGED <<redis, ticker, up>>

-----------------------------------------------------------------------------
(* The process, and time.                                                   *)

\* stop: no run starts any more, those on are aborted, the process exits.
Stop(r) ==
    /\ up[r]
    /\ up' = [up EXCEPT ![r] = FALSE]
    /\ Fault
    /\ UNCHANGED <<redis, ticker, run>>

Restarted(r) ==
    /\ up' = [up EXCEPT ![r] = TRUE]
    /\ at' = [at EXCEPT ![r] = 0]
    /\ reading' = [reading EXCEPT ![r] = FALSE]
    /\ ticked' = [ticked EXCEPT ![r] = FALSE]
    /\ run' = [run EXCEPT ![r] = [j \in Jobs |-> None]]
    /\ UNCHANGED redis

Exit(r)  == ~up[r] /\ Restarted(r) /\ UNCHANGED faults
Crash(r) == up[r] /\ Restarted(r) /\ Fault

\* A tick is begun in every unit, unless one is still on; a run is held up for
\* Late in all, past its timers, once it has the lease.
MayPass ==
    /\ \A r \in Replicas : up[r] => ticked[r] \/ at[r] # 0
    /\ \A r \in Replicas : at[r] # 0 => SlowTicks
    /\ \A r \in Replicas, j \in Jobs :
          InPhase(r, j, Phases \ {"launched"}) => run[r][j].left > 0 \/ run[r][j].late < Late

Waited(x) ==
    IF x = None \/ x.phase = "launched" THEN x
    ELSE [x EXCEPT !.state = Older(@),
                   !.left = IF @ > 0 THEN @ - 1 ELSE 0,
                   !.late = IF x.left > 0 THEN @ ELSE @ + 1]

TimePasses ==
    /\ MayPass
    /\ last' = [j \in Jobs |-> Older(last[j])]
    /\ lease' = [j \in Jobs |-> IF lease[j] = None \/ lease[j].left = 1 THEN None
                               ELSE [lease[j] EXCEPT !.left = @ - 1]]
    /\ run' = [r \in Replicas |-> [j \in Jobs |-> Waited(run[r][j])]]
    /\ ticked' = [r \in Replicas |-> FALSE]
    /\ UNCHANGED <<at, reading, up, faults>>

-----------------------------------------------------------------------------
Tick(r) == TickStart(r) \/ TickLook(r) \/ TickRead(r)

Run(r, j) ==
    \/ TakeLease(r, j) \/ ReadState(r, j) \/ Begin(r, j) \/ Expire(r, j)
    \/ Record(r, j) \/ Settle(r, j) \/ Release(r, j)

Work(r, j) == Succeed(r, j) \/ Fail(r, j)

RedisFails(r, j) ==
    LeaseFails(r, j) \/ ReadStateFails(r, j) \/ RecordFails(r, j) \/ ReleaseFails(r, j)

Next ==
    \/ TimePasses
    \/ \E r \in Replicas : Tick(r) \/ TickReadFails(r) \/ Stop(r) \/ Exit(r) \/ Crash(r)
    \/ \E r \in Replicas, j \in Jobs : Run(r, j) \/ Work(r, j) \/ RedisFails(r, j)

Spec == Init /\ [][Next]_vars

\* Time passes, intervals and timeouts fire, Redis answers, a process that was
\* told to stop is restarted.  A job's work may never end by itself.
Fairness ==
    /\ WF_vars(TimePasses)
    /\ \A r \in Replicas : WF_vars(Tick(r)) /\ WF_vars(Exit(r))
    /\ \A r \in Replicas, j \in Jobs : WF_vars(Run(r, j))

LiveSpec == Spec /\ Fairness

-----------------------------------------------------------------------------
(* Properties.                                                              *)

\* The work may be under way, by what its own run knows.
AtWork(r, j) == InPhase(r, j, {"work", "expired", "wind"})

(* "A Redis lease per run makes sure it runs once across replicas": work of  *)
(* one job is never under way in two runs, an aborted one's included until   *)
(* its grace is over; the lease outlasts the timeout, the grace and whatever *)
(* delays the calls around them.                                            *)
OncePerJob ==
    \A j \in Jobs : \A r, q \in Replicas : AtWork(r, j) /\ AtWork(q, j) => r = q

(* "At most MODULE_JOBS_CONCURRENCY runs in flight per process": a tick     *)
(* reads a job's state between its look at the slots and the launch.        *)
SlotsSuffice == \A r \in Replicas : Cardinality(Slots(r)) <= Concurrency

(* The jobs run as the documentation says: one run at a time, started when   *)
(* due by the run before it, each recorded once as a success or as one more  *)
(* failure than the run before it had.                                      *)
Running == {j \in Jobs : \E r \in Replicas : InPhase(r, j, {"work", "record", "expired"})}
Schedule == INSTANCE JobSchedule WITH running <- Running
ImplementsSchedule == Schedule!Spec

(* "A due run past the cap waits for a later tick", and so is run in the end: *)
(* whatever crashes and failing calls came before, a job that is due starts. *)
DueRunsStart ==
    \A j \in Jobs : Due(j, last[j]) ~> \E r \in Replicas : InPhase(r, j, {"work"})
=============================================================================
