------------------------- MODULE ScheduledRunsProofs -------------------------
(***************************************************************************)
(* Runs under a lease: proofs about ModuleJobs, which starts the modules'  *)
(* jobs, and about SyncRuns, the runs that the job of one module starts    *)
(* under leases of their own.                                              *)
(*                                                                         *)
(* ModuleJobs, for any replicas, jobs, intervals and timeouts, any number  *)
(* of runs at a time, of failures told apart and of faults.  The argument  *)
(* is about time: what a run's lease has left is never less than what the  *)
(* run may still take, Budget.  So the lease is there for as long as the   *)
(* run acts under it, no other run of the job has one, and what the run    *)
(* read of the job's state stays what Redis holds.                         *)
(*                                                                         *)
(* SyncRuns, for any passes, runs by hand and configs: there a run may     *)
(* outlive its lease and give away another's, so only runs to which        *)
(* neither happened are known to hold it.                                  *)
(***************************************************************************)
EXTENDS ModuleJobs, SyncRuns, FiniteSetTheorems, TLAPS

Held(x) == x # None /\ x.phase # "launched"

\* What the run's phase leaves before it, and its delays have not used up.
Ahead(phase) ==
    IF phase \in {"held", "read"} THEN Timeout + Grace + Slack
    ELSE IF phase \in {"work", "record", "expired"} THEN Grace + Slack
    ELSE Slack
Budget(x) == x.left + Ahead(x.phase) - x.late

Covered(x, r, l) == l # None /\ l.by = r /\ l.left >= Budget(x)

\* What the run saw, or is about to record, and the state in Redis.
Current(x, s) ==
    /\ x.phase \in {"read", "work"} => x.state = s
    /\ x.phase \in {"record", "expired"} =>
          /\ x.left = 0
          /\ x.state # None
          /\ x.state.age <= x.late
          /\ x.state.failures \in {0, OneMore(Failures(s))}

RunOK(x, r, l, s) == Held(x) => Covered(x, r, l) /\ Current(x, s)

RunsOK == \A r \in Replicas, j \in Jobs : RunOK(run[r][j], r, lease[j], last[j])

SlotsOK ==
    \A r \in Replicas :
       /\ Cardinality(Slots(r)) <= Concurrency
       /\ reading[r] => Cardinality(Slots(r)) < Concurrency

IInv == TypeOK /\ RunsOK /\ SlotsOK

-----------------------------------------------------------------------------
(* Lemmas about the operators.                                              *)

(* A failure counted is within the bound, and ageing keeps a state a state   *)
(* with the same failures, no younger (jobs.ts lines 155-158, 423).          *)
LEMMA StateFacts ==
    ASSUME NEW s \in States \cup {None}
    PROVE  /\ Older(s) \in States \cup {None}
           /\ Failures(s) \in 0..MaxFailures
           /\ Failures(Older(s)) = Failures(s)
           /\ s # None => Older(s) # None /\ Older(s).age <= s.age + 1
  BY BoundAssumption, NoneAssumption DEF Older, Failures, States

LEMMA EndedFacts ==
    /\ Ended(0) \in States /\ Ended(0) # None
    /\ \A n \in 0..MaxFailures :
          /\ OneMore(n) \in 0..MaxFailures
          /\ Ended(OneMore(n)) \in States /\ Ended(OneMore(n)) # None
  BY BoundAssumption, NoneAssumption DEF Ended, OneMore, States

LEMMA LaunchedFacts == Launched \in Runs /\ Launched # None
  BY LateAssumption, BoundAssumption, NoneAssumption DEF Launched, Runs, Phases

(* A lease is taken for a positive time.                                    *)
LEMMA LeaseFacts ==
    /\ LeaseTime \in Nat \ {0}
    /\ \A r \in Replicas : [by |-> r, left |-> LeaseTime] \in Leases
  BY BoundAssumption, LateAssumption DEF LeaseTime, Leases

(* Setting one run changes that run only.                                   *)
LEMMA RunUpdate ==
    ASSUME TypeOK, NEW r \in Replicas, NEW j \in Jobs, NEW x \in Runs \cup {None}, SetRun(r, j, x)
    PROVE  /\ run' \in [Replicas -> [Jobs -> Runs \cup {None}]]
           /\ run'[r][j] = x
           /\ \A q \in Replicas, i \in Jobs : q # r \/ i # j => run'[q][i] = run[q][i]
  BY DEF TypeOK, SetRun

(* The record GoesOn makes of a run is a run.                               *)
LEMMA NextPhase ==
    ASSUME TypeOK, NEW r \in Replicas, NEW j \in Jobs, run[r][j] # None,
           NEW p \in Phases, NEW s \in States \cup {None}, NEW n \in Nat, GoesOn(r, j, p, s, n)
    PROVE  \E x \in Runs :
              /\ x = [phase |-> p, state |-> s, left |-> n, late |-> run[r][j].late]
              /\ x # None
              /\ SetRun(r, j, x)
  <1> DEFINE x == [phase |-> p, state |-> s, left |-> n, late |-> run[r][j].late]
  <1>1. run[r][j] \in Runs
    BY DEF TypeOK
  <1>2. x \in Runs
    BY <1>1 DEF Runs
  <1>3. x # None
    BY <1>2, NoneAssumption
  <1> QED
    BY <1>2, <1>3 DEF GoesOn

-----------------------------------------------------------------------------
(* The type invariant.                                                      *)

THEOREM InitType == Init => TypeOK
  BY NoneAssumption, BoundAssumption DEF Init, TypeOK

(* A run that goes on is a run again.                                       *)
LEMMA GoesOnType ==
    ASSUME TypeOK, NEW r \in Replicas, NEW j \in Jobs, run[r][j] # None,
           NEW p \in Phases, NEW s \in States \cup {None}, NEW n \in Nat, GoesOn(r, j, p, s, n)
    PROVE  run' \in [Replicas -> [Jobs -> Runs \cup {None}]]
  <1>1. PICK x \in Runs : SetRun(r, j, x)
    BY NextPhase
  <1> QED
    BY <1>1, RunUpdate

LEMMA TickType ==
    ASSUME TypeOK, NEW r \in Replicas, Tick(r) \/ TickReadFails(r)
    PROVE  TypeOK'
  <1>1. CASE TickStart(r)
    BY <1>1, BoundAssumption DEF TickStart, TypeOK, redis, Jobs
  <1>2. CASE TickLook(r)
    <2>1. at[r] \in Jobs /\ Following(at[r]) \in 0..NumJobs /\ 0 \in 0..NumJobs
      BY <1>2, BoundAssumption DEF TickLook, TypeOK, Following, Jobs
    <2>2. at' \in [Replicas -> 0..NumJobs]
      BY <1>2, <2>1 DEF TickLook, TypeOK
    <2>3. reading' \in [Replicas -> BOOLEAN]
      BY <1>2 DEF TickLook, TypeOK
    <2> QED
      BY <1>2, <2>2, <2>3 DEF TickLook, TypeOK, redis
  <1>3. CASE TickRead(r)
    <2>1. at[r] \in Jobs /\ Following(at[r]) \in 0..NumJobs
      BY <1>3, BoundAssumption DEF TickRead, TypeOK, Following, Jobs
    <2>2. run' \in [Replicas -> [Jobs -> Runs \cup {None}]]
      BY <1>3, <2>1, LaunchedFacts DEF TickRead, TypeOK
    <2> QED
      BY <1>3, <2>1, <2>2 DEF TickRead, TypeOK, redis
  <1>4. CASE TickReadFails(r)
    <2>1. at[r] \in Jobs /\ Following(at[r]) \in 0..NumJobs
      BY <1>4, BoundAssumption DEF TickReadFails, TypeOK, Following, Jobs
    <2>2. faults' \in 0..MaxFaults
      BY <1>4, BoundAssumption DEF TickReadFails, TypeOK, Fault
    <2> QED
      BY <1>4, <2>1, <2>2 DEF TickReadFails, TypeOK, redis
  <1> QED
    BY <1>1, <1>2, <1>3, <1>4 DEF Tick

(* What a run does changes the run, and the job's last run or lease.         *)
LEMMA RunType ==
    ASSUME TypeOK, NEW r \in Replicas, NEW j \in Jobs,
           Run(r, j) \/ Work(r, j) \/ RedisFails(r, j)
    PROVE  TypeOK'
  <1> DEFINE RunTyped == run' \in [Replicas -> [Jobs -> Runs \cup {None}]]
  <1>1. run[r][j] \in Runs \cup {None} /\ last[j] \in States \cup {None}
    BY DEF TypeOK
  <1>2. run[r][j] # None => run[r][j].state \in States \cup {None} /\ run[r][j].phase \in Phases
    BY <1>1 DEF Runs
  <1>3. /\ {"held", "read", "work", "record", "expired", "wind", "done", "left"} \subseteq Phases
        /\ None \in States \cup {None}
    BY DEF Phases
  <1>4. Timeout \in Nat /\ Grace \in Nat /\ 0 \in Nat
    BY BoundAssumption
  <1>5. run[r][j] # None => Failed(r, j) \in States
    BY <1>2, StateFacts, EndedFacts DEF Failed
  <1>6. Fault => faults' \in 0..MaxFaults
    BY BoundAssumption DEF Fault, TypeOK
  <1>7. SetRun(r, j, None) => RunTyped
    BY RunUpdate
  <1>8. Leased(r, j) => lease' \in [Jobs -> Leases \cup {None}]
    BY LeaseFacts DEF Leased, TypeOK
  <1>9. run[r][j] # None /\ Recorded(r, j) => last' \in [Jobs -> States \cup {None}]
    BY <1>2 DEF Recorded, TypeOK
  <1>10. ASSUME run[r][j] # None, NEW p \in Phases, NEW s \in States \cup {None}, NEW n \in Nat,
                GoesOn(r, j, p, s, n)
         PROVE  RunTyped
    BY <1>10, GoesOnType
  <1> HIDE DEF RunTyped
  <1>a. CASE TakeLease(r, j)
    <2>1. lease' \in [Jobs -> Leases \cup {None}]
      BY <1>a, <1>8 DEF TakeLease, TypeOK
    <2>2. RunTyped
      BY <1>a, <1>3, <1>4, <1>7, <1>10 DEF TakeLease, InPhase
    <2> QED
      BY <1>a, <2>1, <2>2 DEF TakeLease, TypeOK, ticker, RunTyped
  <1>b. CASE ReadState(r, j)
    <2>1. RunTyped
      BY <1>b, <1>1, <1>3, <1>4, <1>10 DEF ReadState, InPhase
    <2> QED
      BY <1>b, <2>1 DEF ReadState, TypeOK, redis, ticker, RunTyped
  <1>c. CASE Begin(r, j)
    <2>1. RunTyped
      BY <1>c, <1>2, <1>3, <1>4, <1>10 DEF Begin, InPhase
    <2> QED
      BY <1>c, <2>1 DEF Begin, TypeOK, redis, ticker, RunTyped
  <1>d. CASE Expire(r, j)
    <2>1. RunTyped
      BY <1>d, <1>3, <1>4, <1>5, <1>10 DEF Expire, InPhase
    <2> QED
      BY <1>d, <2>1 DEF Expire, TypeOK, redis, ticker, RunTyped
  <1>e. CASE Record(r, j)
    <2>1. RunTyped
      BY <1>e, <1>3, <1>4, <1>10 DEF Record, InPhase
    <2>2. last' \in [Jobs -> States \cup {None}]
      BY <1>e, <1>9 DEF Record, InPhase
    <2> QED
      BY <1>e, <2>1, <2>2 DEF Record, TypeOK, ticker, RunTyped
  <1>f. CASE Settle(r, j)
    <2>1. RunTyped
      BY <1>f, <1>3, <1>4, <1>10 DEF Settle, InPhase
    <2> QED
      BY <1>f, <2>1 DEF Settle, TypeOK, redis, ticker, RunTyped
  <1>g. CASE Release(r, j)
    <2>1. lease' \in [Jobs -> Leases \cup {None}]
      BY <1>g DEF Release, TypeOK
    <2>2. RunTyped
      BY <1>g, <1>7 DEF Release
    <2> QED
      BY <1>g, <2>1, <2>2 DEF Release, TypeOK, ticker, RunTyped
  <1>h. CASE Succeed(r, j)
    <2>1. RunTyped
      BY <1>h, <1>3, <1>4, <1>10, EndedFacts DEF Succeed, InPhase
    <2> QED
      BY <1>h, <2>1 DEF Succeed, TypeOK, redis, ticker, RunTyped
  <1>i. CASE Fail(r, j)
    <2>1. RunTyped
      BY <1>i, <1>3, <1>4, <1>5, <1>10 DEF Fail, InPhase
    <2> QED
      BY <1>i, <2>1 DEF Fail, TypeOK, redis, ticker, RunTyped
  <1>j. CASE LeaseFails(r, j)
    <2>1. lease' \in [Jobs -> Leases \cup {None}]
      BY <1>j, <1>8 DEF LeaseFails, TypeOK
    <2> QED
      BY <1>j, <2>1, <1>6, <1>7 DEF LeaseFails, TypeOK, ticker, RunTyped
  <1>k. CASE ReadStateFails(r, j)
    <2>1. RunTyped
      BY <1>k, <1>3, <1>4, <1>10 DEF ReadStateFails, InPhase
    <2> QED
      BY <1>k, <2>1, <1>6 DEF ReadStateFails, TypeOK, redis, ticker, RunTyped
  <1>l. CASE RecordFails(r, j)
    <2>1. RunTyped
      BY <1>l, <1>3, <1>4, <1>10 DEF RecordFails, InPhase
    <2>2. last' \in [Jobs -> States \cup {None}]
      BY <1>l, <1>9 DEF RecordFails, InPhase, TypeOK
    <2> QED
      BY <1>l, <2>1, <2>2, <1>6 DEF RecordFails, TypeOK, ticker, RunTyped
  <1>m. CASE ReleaseFails(r, j)
    BY <1>m, <1>6, <1>7 DEF ReleaseFails, TypeOK, redis, ticker, RunTyped
  <1> QED
    BY <1>a, <1>b, <1>c, <1>d, <1>e, <1>f, <1>g, <1>h, <1>i, <1>j, <1>k, <1>l, <1>m
       DEF Run, Work, RedisFails

(* A run waits for no longer than its delays allow, and remains a run.       *)
LEMMA WaitedType ==
    ASSUME NEW x \in Runs, x.phase = "launched" \/ x.left > 0 \/ x.late < Late
    PROVE  Waited(x) \in Runs
  <1> DEFINE left == IF x.left > 0 THEN x.left - 1 ELSE 0
             late == IF x.left > 0 THEN x.late ELSE x.late + 1
  <1>1. x # None
    BY NoneAssumption
  <1>2. CASE x.phase = "launched"
    BY <1>2 DEF Waited
  <1>3. CASE x.phase # "launched"
    <2>1. x.left \in Nat /\ x.late \in 0..Late /\ x.state \in States \cup {None} /\ x.phase \in Phases
      BY DEF Runs
    <2>2. left \in Nat /\ late \in 0..Late
      BY <1>3, <2>1, BoundAssumption
    <2>3. Waited(x) = [phase |-> x.phase, state |-> Older(x.state), left |-> left, late |-> late]
      BY <1>1, <1>3, <2>1 DEF Waited, Runs
    <2>4. Older(x.state) \in States \cup {None}
      BY <2>1, StateFacts
    <2> QED
      BY <2>1, <2>2, <2>3, <2>4 DEF Runs
  <1> QED
    BY <1>2, <1>3

LEMMA TimeType ==
    ASSUME TypeOK, TimePasses
    PROVE  TypeOK'
  <1>2. ASSUME NEW r \in Replicas, NEW j \in Jobs
        PROVE  Waited(run[r][j]) \in Runs \cup {None}
    <2>1. run[r][j] \in Runs \cup {None}
      BY DEF TypeOK
    <2>2. run[r][j] # None /\ run[r][j].phase # "launched" =>
             run[r][j].left > 0 \/ run[r][j].late < Late
      BY <2>1 DEF TimePasses, MayPass, InPhase, Runs
    <2>3. CASE run[r][j] = None
      BY <2>3 DEF Waited
    <2> QED
      BY <2>1, <2>2, <2>3, WaitedType
  <1>3. run' \in [Replicas -> [Jobs -> Runs \cup {None}]]
    BY <1>2 DEF TimePasses
  <1>4. last' \in [Jobs -> States \cup {None}]
    BY StateFacts DEF TimePasses, TypeOK
  <1>5. lease' \in [Jobs -> Leases \cup {None}]
    <2>1. ASSUME NEW j \in Jobs, lease[j] # None, lease[j].left # 1
          PROVE  [lease[j] EXCEPT !.left = @ - 1] \in Leases
      <3>1. lease[j] \in Leases
        BY <2>1 DEF TypeOK
      <3>2. lease[j].left - 1 \in Nat \ {0} /\ lease[j].by \in Replicas
        BY <2>1, <3>1 DEF Leases
      <3>3. [lease[j] EXCEPT !.left = @ - 1] = [by |-> lease[j].by, left |-> lease[j].left - 1]
        BY <3>1 DEF Leases
      <3> QED
        BY <3>2, <3>3 DEF Leases
    <2> QED
      BY <2>1 DEF TimePasses
  <1> QED
    BY <1>3, <1>4, <1>5 DEF TimePasses, TypeOK

LEMMA ProcessType ==
    ASSUME TypeOK, NEW r \in Replicas, Stop(r) \/ Exit(r) \/ Crash(r)
    PROVE  TypeOK'
  <1>1. Fault => faults' \in 0..MaxFaults
    BY BoundAssumption DEF Fault, TypeOK
  <1>2. CASE Stop(r)
    BY <1>1, <1>2 DEF Stop, TypeOK, redis, ticker
  <1>3. CASE Exit(r) \/ Crash(r)
    <2>1. Restarted(r) /\ faults' \in 0..MaxFaults
      BY <1>1, <1>3 DEF Exit, Crash, TypeOK
    <2>2. run' \in [Replicas -> [Jobs -> Runs \cup {None}]]
      BY <2>1 DEF Restarted, TypeOK
    <2>3. at' \in [Replicas -> 0..NumJobs]
      BY <2>1, BoundAssumption DEF Restarted, TypeOK
    <2>4. ticked' \in [Replicas -> BOOLEAN] /\ reading' \in [Replicas -> BOOLEAN] /\ up' \in [Replicas -> BOOLEAN]
      BY <2>1 DEF Restarted, TypeOK
    <2> QED
      BY <2>1, <2>2, <2>3, <2>4 DEF Restarted, TypeOK, redis
  <1> QED
    BY <1>2, <1>3

THEOREM NextType == TypeOK /\ [Next]_vars => TypeOK'
  <1> SUFFICES ASSUME TypeOK, [Next]_vars
               PROVE  TypeOK'
    OBVIOUS
  <1>1. CASE TimePasses
    BY <1>1, TimeType
  <1>2. ASSUME NEW r \in Replicas, Tick(r) \/ TickReadFails(r) \/ Stop(r) \/ Exit(r) \/ Crash(r)
        PROVE  TypeOK'
    BY <1>2, TickType, ProcessType
  <1>3. ASSUME NEW r \in Replicas, NEW j \in Jobs, Run(r, j) \/ Work(r, j) \/ RedisFails(r, j)
        PROVE  TypeOK'
    BY <1>3, RunType
  <1>4. CASE UNCHANGED vars
    BY <1>4 DEF vars, redis, ticker, TypeOK
  <1> QED
    BY <1>1, <1>2, <1>3, <1>4 DEF Next

(* Every reachable state is well-typed: counters stay within their bounds,   *)
(* a tick at one of the jobs, a run no later than Late (jobs.ts 206-219).    *)
THEOREM WellTyped == Spec => []TypeOK
  BY InitType, NextType, PTL DEF Spec

-----------------------------------------------------------------------------
(* What a run's lease has left, and what the run knows.                     *)

THEOREM InitRuns == Init => RunsOK
  BY DEF Init, RunsOK, RunOK, Held

(* One run of a job has the lease.                                          *)
LEMMA Alone ==
    ASSUME RunsOK, NEW r \in Replicas, NEW q \in Replicas, NEW j \in Jobs,
           Held(run[r][j]), Held(run[q][j])
    PROVE  q = r
  BY DEF RunsOK, RunOK, Covered

(* A step of one run keeps RunsOK if it does for that run, provided the      *)
(* lease and the last run stay, or no other run of the job has the lease.   *)
LEMMA OneRunSteps ==
    ASSUME TypeOK, RunsOK, NEW r \in Replicas, NEW j \in Jobs, NEW x \in Runs \cup {None},
           SetRun(r, j, x),
           \/ lease'[j] = lease[j] /\ last'[j] = last[j]
           \/ \A q \in Replicas : q # r => ~Held(run[q][j]),
           \A i \in Jobs : i # j => lease'[i] = lease[i] /\ last'[i] = last[i],
           RunOK(x, r, lease'[j], last'[j])
    PROVE  RunsOK'
  <1> SUFFICES ASSUME NEW q \in Replicas, NEW i \in Jobs
               PROVE  RunOK(run'[q][i], q, lease'[i], last'[i])
    BY DEF RunsOK
  <1>1. CASE q = r /\ i = j
    BY <1>1, RunUpdate
  <1>2. CASE q # r \/ i # j
    <2>1. run'[q][i] = run[q][i]
      BY <1>2, RunUpdate
    <2>2. CASE i = j /\ ~Held(run[q][i])
      BY <2>1, <2>2 DEF RunOK
    <2>3. CASE i # j \/ (lease'[j] = lease[j] /\ last'[j] = last[j])
      BY <2>1, <2>3 DEF RunsOK
    <2> QED
      BY <1>2, <2>2, <2>3
  <1> QED
    BY <1>1, <1>2

(* A run that goes on to a phase with no more ahead of it keeps its lease.   *)
LEMMA StaysCovered ==
    ASSUME TypeOK, RunsOK, NEW r \in Replicas, NEW j \in Jobs, Held(run[r][j]),
           NEW p \in Phases, NEW s \in States \cup {None}, NEW n \in Nat,
           n + Ahead(p) <= run[r][j].left + Ahead(run[r][j].phase)
    PROVE  Covered([phase |-> p, state |-> s, left |-> n, late |-> run[r][j].late], r, lease[j])
  <1>1. run[r][j] \in Runs /\ Covered(run[r][j], r, lease[j])
    BY DEF TypeOK, RunsOK, RunOK, Held
  <1>2. lease[j] \in Leases
    BY <1>1 DEF TypeOK, Covered
  <1>3. /\ run[r][j].left \in Nat /\ run[r][j].late \in Nat /\ lease[j].left \in Nat
        /\ Ahead(p) \in Nat /\ Ahead(run[r][j].phase) \in Nat
    BY <1>1, <1>2, BoundAssumption DEF Runs, Leases, Ahead
  <1> QED
    BY <1>1, <1>3 DEF Covered, Budget

(* The step of a run from one phase to the next, under its lease.           *)
LEMMA PhaseStep ==
    ASSUME TypeOK, RunsOK, NEW r \in Replicas, NEW j \in Jobs, Held(run[r][j]),
           NEW p \in Phases, NEW s \in States \cup {None}, NEW n \in Nat,
           GoesOn(r, j, p, s, n),
           n + Ahead(p) <= run[r][j].left + Ahead(run[r][j].phase),
           lease' = lease,
           \A i \in Jobs : i # j => last'[i] = last[i],
           Current([phase |-> p, state |-> s, left |-> n, late |-> run[r][j].late], last'[j])
    PROVE  RunsOK'
  <1>1. run[r][j] # None
    BY DEF Held
  <1>2. PICK x \in Runs :
          /\ x = [phase |-> p, state |-> s, left |-> n, late |-> run[r][j].late]
          /\ SetRun(r, j, x)
    BY <1>1, NextPhase
  <1>3. Covered(x, r, lease[j])
    BY <1>2, StaysCovered
  <1>4. RunOK(x, r, lease'[j], last'[j])
    BY <1>2, <1>3 DEF RunOK
  <1>5. \A q \in Replicas : q # r => ~Held(run[q][j])
    BY Alone
  <1> QED
    BY <1>2, <1>4, <1>5, OneRunSteps

(* A run is over: whatever it did to the lease and the last run.             *)
LEMMA RunEnds ==
    ASSUME TypeOK, RunsOK, NEW r \in Replicas, NEW j \in Jobs, SetRun(r, j, None),
           \/ lease'[j] = lease[j] /\ last'[j] = last[j]
           \/ Held(run[r][j])
           \/ lease[j] = None,
           \A i \in Jobs : i # j => lease'[i] = lease[i] /\ last'[i] = last[i]
    PROVE  RunsOK'
  <1>1. \/ lease'[j] = lease[j] /\ last'[j] = last[j]
        \/ \A q \in Replicas : q # r => ~Held(run[q][j])
    BY Alone DEF RunsOK, RunOK, Covered
  <1>2. RunOK(None, r, lease'[j], last'[j])
    BY DEF RunOK, Held
  <1> QED
    BY <1>1, <1>2, OneRunSteps

LEMMA RunKeepsRuns ==
    ASSUME TypeOK, RunsOK, NEW r \in Replicas, NEW j \in Jobs,
           Run(r, j) \/ Work(r, j) \/ RedisFails(r, j)
    PROVE  RunsOK'
  <1>1. /\ {"held", "read", "work", "record", "expired", "wind", "done", "left"} \subseteq Phases
        /\ None \in States \cup {None} /\ 0 \in Nat /\ Timeout \in Nat /\ Grace \in Nat
    BY BoundAssumption DEF Phases
  <1>2. /\ last[j] \in States \cup {None}
        /\ run[r][j] \in Runs \cup {None}
        /\ run[r][j] # None =>
              /\ run[r][j].state \in States \cup {None} /\ run[r][j].phase \in Phases
              /\ run[r][j].left \in Nat /\ run[r][j].late \in Nat
    <2>1. run[r][j] \in Runs \cup {None} /\ last[j] \in States \cup {None}
      BY DEF TypeOK
    <2> QED
      BY <2>1, LateAssumption, BoundAssumption DEF Runs
  <1>3. Held(run[r][j]) => Current(run[r][j], last[j])
    BY DEF RunsOK, RunOK
  <1>4. /\ Ahead("held") = Timeout + Grace + Slack /\ Ahead("read") = Timeout + Grace + Slack
        /\ Ahead("work") = Grace + Slack /\ Ahead("record") = Grace + Slack
        /\ Ahead("expired") = Grace + Slack /\ Ahead("wind") = Slack
        /\ Ahead("done") = Slack /\ Ahead("left") = Slack
    BY DEF Ahead
  <1>5. \A i \in Jobs : i # j => (Leased(r, j) => lease'[i] = lease[i])
    BY DEF Leased, TypeOK
  <1>6. \A i \in Jobs : i # j => (Recorded(r, j) => last'[i] = last[i])
    BY DEF Recorded, TypeOK
  <1>a. CASE TakeLease(r, j)
    <2>1. CASE lease[j] = None /\ Leased(r, j) /\ GoesOn(r, j, "held", None, 0)
      <3>1. run[r][j] # None
        BY <1>a DEF TakeLease, InPhase
      <3>2. PICK x \in Runs :
              /\ x = [phase |-> "held", state |-> None, left |-> 0, late |-> run[r][j].late]
              /\ SetRun(r, j, x)
        BY <1>1, <2>1, <3>1, NextPhase
      <3>3. lease'[j] = [by |-> r, left |-> LeaseTime]
        BY <2>1 DEF Leased, TypeOK
      <3>4. lease'[j] # None
        BY <3>3, LeaseFacts, NoneAssumption
      <3>5. Covered(x, r, lease'[j])
        BY <1>2, <1>4, <3>1, <3>2, <3>3, <3>4, BoundAssumption DEF Covered, Budget, LeaseTime
      <3>6. RunOK(x, r, lease'[j], last'[j])
        BY <3>2, <3>5 DEF RunOK, Current
      <3>7. \A q \in Replicas : ~Held(run[q][j])
        BY <2>1 DEF RunsOK, RunOK, Covered
      <3> QED
        BY <1>5, <1>a, <2>1, <3>2, <3>6, <3>7, OneRunSteps DEF TakeLease
    <2>2. CASE SetRun(r, j, None) /\ UNCHANGED lease
      BY <1>a, <2>2, RunEnds DEF TakeLease
    <2> QED
      BY <1>a, <2>1, <2>2 DEF TakeLease
  <1>b. CASE ReadState(r, j)
    <2>1. Held(run[r][j]) /\ run[r][j].phase = "held" /\ run[r][j] # None
      BY <1>b DEF ReadState, InPhase, Held
    <2>2. 0 + Ahead("read") <= run[r][j].left + Ahead(run[r][j].phase)
      BY <1>2, <1>4, <2>1, BoundAssumption
    <2>3. Current([phase |-> "read", state |-> last[j], left |-> 0, late |-> run[r][j].late], last'[j])
      BY <1>b DEF ReadState, Current, redis
    <2> QED
      BY <1>1, <1>2, <1>b, <2>1, <2>2, <2>3, PhaseStep DEF ReadState, redis
  <1>c. CASE Begin(r, j)
    <2>1. Held(run[r][j]) /\ run[r][j].phase = "read" /\ run[r][j] # None
      BY <1>c DEF Begin, InPhase, Held
    <2>2. UNCHANGED <<last, lease>>
      BY <1>c DEF Begin, redis
    <2>3. CASE GoesOn(r, j, "work", run[r][j].state, Timeout)
      <3>1. Timeout + Ahead("work") <= run[r][j].left + Ahead(run[r][j].phase)
        BY <1>2, <1>4, <2>1, BoundAssumption
      <3>2. Current([phase |-> "work", state |-> run[r][j].state, left |-> Timeout,
                     late |-> run[r][j].late], last'[j])
        BY <1>3, <2>1, <2>2 DEF Current
      <3> QED
        BY <1>1, <1>2, <2>1, <2>2, <2>3, <3>1, <3>2, PhaseStep
    <2>4. CASE GoesOn(r, j, "left", None, 0)
      <3>1. 0 + Ahead("left") <= run[r][j].left + Ahead(run[r][j].phase)
        BY <1>2, <1>4, <2>1, BoundAssumption
      <3>2. Current([phase |-> "left", state |-> None, left |-> 0, late |-> run[r][j].late], last'[j])
        BY DEF Current
      <3> QED
        BY <1>1, <1>2, <2>1, <2>2, <2>4, <3>1, <3>2, PhaseStep
    <2> QED
      BY <1>c, <2>3, <2>4 DEF Begin
  <1>d. ASSUME Succeed(r, j) \/ Fail(r, j) \/ Expire(r, j)
        PROVE  RunsOK'
    <2>1. Held(run[r][j]) /\ run[r][j].phase = "work" /\ run[r][j] # None
      BY <1>d DEF Succeed, Fail, Expire, InPhase, Held
    <2>2. UNCHANGED <<last, lease>>
      BY <1>d DEF Succeed, Fail, Expire, redis
    <2>3. PICK p \in {"record", "expired"}, n \in {0, OneMore(Failures(last[j]))} :
             GoesOn(r, j, p, Ended(n), 0)
      BY <1>3, <1>d, <2>1 DEF Succeed, Fail, Expire, Failed, Current
    <2>4. n \in 0..MaxFailures /\ Ended(n) \in States /\ Ended(n) # None
      BY <1>2, <2>3, StateFacts, EndedFacts, BoundAssumption
    <2>5. 0 + Ahead(p) <= run[r][j].left + Ahead(run[r][j].phase)
      BY <1>2, <1>4, <2>1, <2>3, BoundAssumption
    <2>6. Current([phase |-> p, state |-> Ended(n), left |-> 0, late |-> run[r][j].late], last'[j])
      BY <1>2, <2>1, <2>2, <2>3, <2>4 DEF Current, Ended
    <2>7. p \in Phases
      BY <1>1, <2>3
    <2> QED
      BY <1>1, <2>1, <2>2, <2>3, <2>4, <2>5, <2>6, <2>7, PhaseStep
  <1>e. ASSUME Record(r, j) \/ RecordFails(r, j)
        PROVE  RunsOK'
    <2>1. Held(run[r][j]) /\ run[r][j].phase \in {"record", "expired"} /\ run[r][j] # None
      BY <1>e DEF Record, RecordFails, InPhase, Held
    <2>2. PICK p \in {"done", "wind", "left"}, n \in {0, Grace} :
             GoesOn(r, j, p, None, n)
      BY <1>e DEF Record, RecordFails, InPhase
    <2>3. lease' = lease /\ \A i \in Jobs : i # j => last'[i] = last[i]
      BY <1>6, <1>e DEF Record, RecordFails
    <2>4. n + Ahead(p) <= run[r][j].left + Ahead(run[r][j].phase)
      BY <1>2, <1>4, <2>1, <2>2, BoundAssumption
    <2>5. Current([phase |-> p, state |-> None, left |-> n, late |-> run[r][j].late], last'[j])
      BY <2>2 DEF Current
    <2>6. p \in Phases /\ n \in Nat
      BY <1>1, <2>2
    <2> QED
      BY <1>1, <2>1, <2>2, <2>3, <2>4, <2>5, <2>6, PhaseStep
  <1>f. ASSUME Settle(r, j) \/ ReadStateFails(r, j)
        PROVE  RunsOK'
    <2>1. Held(run[r][j]) /\ run[r][j].phase \in {"wind", "held"} /\ run[r][j] # None
      BY <1>f DEF Settle, ReadStateFails, InPhase, Held
    <2>2. PICK p \in {"done", "left"} : GoesOn(r, j, p, None, 0)
      BY <1>f DEF Settle, ReadStateFails
    <2>3. UNCHANGED <<last, lease>>
      BY <1>f DEF Settle, ReadStateFails, redis
    <2>4. 0 + Ahead(p) <= run[r][j].left + Ahead(run[r][j].phase)
      BY <1>2, <1>4, <2>1, <2>2, BoundAssumption
    <2>5. Current([phase |-> p, state |-> None, left |-> 0, late |-> run[r][j].late], last'[j])
      BY <2>2 DEF Current
    <2> QED
      BY <1>1, <2>1, <2>2, <2>3, <2>4, <2>5, PhaseStep
  <1>g. CASE Release(r, j) \/ ReleaseFails(r, j)
    <2>1. Held(run[r][j])
      BY <1>g DEF Release, ReleaseFails, InPhase, Held
    <2>2. SetRun(r, j, None) /\ UNCHANGED last /\ \A i \in Jobs : i # j => lease'[i] = lease[i]
      BY <1>g DEF Release, ReleaseFails, redis, TypeOK
    <2> QED
      BY <2>1, <2>2, RunEnds
  <1>h. CASE LeaseFails(r, j)
    BY <1>5, <1>h, RunEnds DEF LeaseFails
  <1> QED
    BY <1>a, <1>b, <1>c, <1>d, <1>e, <1>f, <1>g, <1>h DEF Run, Work, RedisFails

(* A tick only launches runs, and a process that ends takes its runs away;   *)
(* neither touches Redis.                                                   *)
LEMMA TickKeepsRuns ==
    ASSUME TypeOK, RunsOK, NEW r \in Replicas, Tick(r) \/ TickReadFails(r)
    PROVE  RunsOK'
  <1>1. CASE TickRead(r) /\ run' # run
    <2>1. at[r] \in Jobs /\ run' = [run EXCEPT ![r][at[r]] = Launched]
      BY <1>1, BoundAssumption DEF TickRead, TypeOK, Jobs
    <2>2. RunOK(Launched, r, lease[at[r]], last[at[r]])
      BY DEF RunOK, Held, Launched
    <2>3. SetRun(r, at[r], Launched) /\ UNCHANGED <<last, lease>>
      BY <1>1, <2>1 DEF SetRun, TickRead, redis
    <2> QED
      BY <2>1, <2>2, <2>3, LaunchedFacts, OneRunSteps
  <1>2. CASE UNCHANGED <<run, last, lease>>
    BY <1>2 DEF RunsOK
  <1> QED
    BY <1>1, <1>2 DEF Tick, TickStart, TickLook, TickRead, TickReadFails, redis

LEMMA ProcessKeepsRuns ==
    ASSUME TypeOK, RunsOK, NEW r \in Replicas, Stop(r) \/ Exit(r) \/ Crash(r)
    PROVE  RunsOK'
  <1>1. CASE Stop(r)
    BY <1>1 DEF Stop, redis, RunsOK
  <1>2. CASE Restarted(r)
    <2> SUFFICES ASSUME NEW q \in Replicas, NEW j \in Jobs
                 PROVE  RunOK(run'[q][j], q, lease'[j], last'[j])
      BY DEF RunsOK
    <2>1. UNCHANGED <<last, lease>>
      BY <1>2 DEF Restarted, redis
    <2>2. run'[q][j] = None \/ run'[q][j] = run[q][j]
      BY <1>2 DEF Restarted, TypeOK
    <2>3. RunOK(None, q, lease[j], last[j]) /\ RunOK(run[q][j], q, lease[j], last[j])
      BY DEF RunOK, Held, RunsOK
    <2> QED
      BY <2>1, <2>2, <2>3
  <1> QED
    BY <1>1, <1>2 DEF Exit, Crash

(* Time takes from a lease what it takes from the run's budget, which stays  *)
(* positive as long as the delays stay within Late; what a run has read      *)
(* ages as the state in Redis does.                                         *)
LEMMA TimeKeepsRuns ==
    ASSUME TypeOK, RunsOK, TimePasses
    PROVE  RunsOK'
  <1> SUFFICES ASSUME NEW r \in Replicas, NEW j \in Jobs, Held(run'[r][j])
               PROVE  Covered(run'[r][j], r, lease'[j]) /\ Current(run'[r][j], last'[j])
    BY DEF RunsOK, RunOK
  <1> DEFINE x == run[r][j]
             left == IF x.left > 0 THEN x.left - 1 ELSE 0
             late == IF x.left > 0 THEN x.late ELSE x.late + 1
  <1>1. run'[r][j] = Waited(x) /\ last'[j] = Older(last[j])
    BY DEF TimePasses
  <1>2. Held(x) /\ x \in Runs
    BY <1>1 DEF Waited, Held, TypeOK
  <1>3. /\ x.state \in States \cup {None} /\ x.left \in Nat /\ x.late \in 0..Late
        /\ x.phase \in Phases \ {"launched"} /\ last[j] \in States \cup {None}
    BY <1>2 DEF Runs, Held, TypeOK
  <1>4. Waited(x) = [phase |-> x.phase, state |-> Older(x.state), left |-> left, late |-> late]
    BY <1>2, <1>3 DEF Waited, Runs, Held
  <1>5. Covered(x, r, lease[j]) /\ Current(x, last[j])
    BY <1>2 DEF RunsOK, RunOK
  <1>6. x.left > 0 \/ x.late < Late
    BY <1>2, <1>3 DEF TimePasses, MayPass, InPhase, Held
  <1>7. Covered(run'[r][j], r, lease'[j])
    <2>1. lease[j] \in Leases /\ lease[j].left \in Nat \ {0}
      BY <1>5 DEF Covered, TypeOK, Leases
    <2>2. Ahead(x.phase) \in Nat /\ Ahead(x.phase) >= Slack
      BY BoundAssumption DEF Ahead
    <2>3. lease[j].left >= x.left + Ahead(x.phase) - x.late
      BY <1>5 DEF Covered, Budget
    <2>4. lease[j].left # 1 /\ lease[j].left - 1 >= left + Ahead(x.phase) - late
      BY <1>3, <1>6, <2>1, <2>2, <2>3, LateAssumption, BoundAssumption
    <2>5. lease'[j] = [lease[j] EXCEPT !.left = @ - 1]
      BY <1>5, <2>4 DEF TimePasses, Covered
    <2>6. lease'[j] = [by |-> r, left |-> lease[j].left - 1]
      BY <1>5, <2>1, <2>5 DEF Leases, Covered
    <2>7. lease'[j] \in Leases
      BY <2>1, <2>4, <2>6 DEF Leases
    <2>8. lease'[j] # None
      BY <2>7, NoneAssumption
    <2> QED
      BY <1>1, <1>4, <2>4, <2>6, <2>8 DEF Covered, Budget
  <1>8. Current(run'[r][j], last'[j])
    <2>1. CASE x.phase \in {"read", "work"}
      BY <1>1, <1>4, <1>5, <2>1 DEF Current
    <2>2. CASE x.phase \in {"record", "expired"}
      <3>1. x.state # None /\ x.state \in States /\ x.state.age <= x.late
        BY <1>3, <1>5, <2>2 DEF Current
      <3>2. x.state.failures \in {0, OneMore(Failures(last'[j]))}
        BY <1>1, <1>3, <1>5, <2>2, StateFacts DEF Current
      <3>3. Older(x.state).failures = x.state.failures /\ Older(x.state) # None
        BY <3>1, StateFacts DEF Failures
      <3>4. Older(x.state).age <= late
        <4>1. x.left = 0
          BY <1>5, <2>2 DEF Current
        <4>2. Older(x.state) \in States /\ Older(x.state).age <= x.state.age + 1
          BY <3>1, <3>3, StateFacts
        <4>3. Older(x.state).age \in Int /\ x.state.age \in Int /\ x.late \in Int
          BY <1>3, <3>1, <4>2, BoundAssumption DEF States
        <4>4. late = x.late + 1
          BY <4>1
        <4> HIDE DEF late
        <4> QED
          BY <3>1, <4>2, <4>3, <4>4
      <3>5. left = 0
        BY <1>5, <2>2 DEF Current
      <3> QED
        BY <1>1, <1>4, <2>2, <3>2, <3>3, <3>4, <3>5 DEF Current
    <2>3. CASE x.phase \notin {"read", "work", "record", "expired"}
      BY <1>1, <1>4, <2>3 DEF Current
    <2> QED
      BY <2>1, <2>2, <2>3
  <1> QED
    BY <1>7, <1>8

-----------------------------------------------------------------------------
(* The slots.                                                               *)

LEMMA SlotsFinite ==
    ASSUME NEW r \in Replicas
    PROVE  /\ IsFiniteSet(Slots(r)) /\ Cardinality(Slots(r)) \in Nat
           /\ IsFiniteSet(Slots(r)') /\ Cardinality(Slots(r)') \in Nat
  <1>1. IsFiniteSet(Jobs)
    BY BoundAssumption, FS_Interval DEF Jobs
  <1>2. Slots(r) \in SUBSET Jobs /\ Slots(r)' \in SUBSET Jobs
    BY DEF Slots
  <1> QED
    BY <1>1, <1>2, FS_Subset, FS_CardinalityType

(* A step that takes no slot, and starts no read, keeps SlotsOK.             *)
LEMMA FewerSlots ==
    ASSUME SlotsOK, \A q \in Replicas : Slots(q)' \subseteq Slots(q),
           \A q \in Replicas : reading'[q] => reading[q]
    PROVE  SlotsOK'
  <1> SUFFICES ASSUME NEW q \in Replicas
               PROVE  /\ Cardinality(Slots(q)') <= Concurrency
                      /\ reading'[q] => Cardinality(Slots(q)') < Concurrency
    BY DEF SlotsOK
  <1>1. Cardinality(Slots(q)') <= Cardinality(Slots(q))
    BY SlotsFinite, FS_Subset
  <1> QED
    BY <1>1, SlotsFinite, BoundAssumption DEF SlotsOK

(* A run takes its slot when it is launched, and at no other step.           *)
LEMMA RunSlots ==
    ASSUME TypeOK, NEW r \in Replicas, NEW j \in Jobs, NEW x \in Runs \cup {None}, SetRun(r, j, x),
           InPhase(r, j, SlotPhases) \/ x = None \/ x.phase \notin SlotPhases
    PROVE  \A q \in Replicas : Slots(q)' \subseteq Slots(q)
  <1> SUFFICES ASSUME NEW q \in Replicas, NEW i \in Jobs, run'[q][i] # None, run'[q][i].phase \in SlotPhases
               PROVE  InPhase(q, i, SlotPhases)
    BY DEF Slots, InPhase
  <1> QED
    BY RunUpdate DEF InPhase

LEMMA RunKeepsSlots ==
    ASSUME TypeOK, SlotsOK, NEW r \in Replicas, NEW j \in Jobs,
           Run(r, j) \/ Work(r, j) \/ RedisFails(r, j)
    PROVE  SlotsOK'
  <1>1. UNCHANGED reading
    BY DEF Run, Work, RedisFails, TakeLease, ReadState, Begin, Expire, Record, Settle, Release,
           Succeed, Fail, LeaseFails, ReadStateFails, RecordFails, ReleaseFails, ticker
  <1>2. SetRun(r, j, None) => \A q \in Replicas : Slots(q)' \subseteq Slots(q)
    BY RunSlots
  <1>3. ASSUME run[r][j] # None, NEW p \in Phases, NEW s \in States \cup {None}, NEW n \in Nat,
               GoesOn(r, j, p, s, n), InPhase(r, j, SlotPhases) \/ p \notin SlotPhases
        PROVE  \A q \in Replicas : Slots(q)' \subseteq Slots(q)
    <2>1. PICK x \in Runs : x.phase = p /\ SetRun(r, j, x)
      BY <1>3, NextPhase
    <2> QED
      BY <1>3, <2>1, RunSlots
  <1>4. /\ {"held", "read", "work", "record", "expired", "wind", "done", "left"} \subseteq Phases
        /\ None \in States \cup {None} /\ 0 \in Nat /\ Timeout \in Nat /\ Grace \in Nat
    BY BoundAssumption DEF Phases
  <1>5. InPhase(r, j, {"launched", "held", "read", "work", "record", "expired"}) => InPhase(r, j, SlotPhases)
    BY DEF InPhase, SlotPhases
  <1>6. /\ last[j] \in States \cup {None}
        /\ run[r][j] # None => run[r][j].state \in States \cup {None} /\ Failed(r, j) \in States
    <2>1. run[r][j] # None => run[r][j].state \in States \cup {None}
      BY DEF TypeOK, Runs
    <2> QED
      BY <2>1, StateFacts, EndedFacts DEF Failed, TypeOK
  <1>7. \A q \in Replicas : Slots(q)' \subseteq Slots(q)
    <2>1. CASE TakeLease(r, j)
      BY <1>2, <1>3, <1>4, <1>5, <2>1 DEF TakeLease, InPhase
    <2>2. CASE ReadState(r, j)
      BY <1>3, <1>4, <1>5, <1>6, <2>2 DEF ReadState, InPhase
    <2>3. CASE Begin(r, j)
      BY <1>3, <1>4, <1>5, <1>6, <2>3 DEF Begin, InPhase
    <2>4. CASE Expire(r, j)
      BY <1>3, <1>4, <1>5, <1>6, <2>4 DEF Expire, InPhase
    <2>5. CASE Record(r, j)
      BY <1>3, <1>4, <1>5, <2>5 DEF Record, InPhase
    <2>6. CASE Settle(r, j)
      BY <1>3, <1>4, <2>6 DEF Settle, InPhase, SlotPhases
    <2>7. CASE Succeed(r, j)
      BY <1>3, <1>4, <1>5, <2>7, EndedFacts DEF Succeed, InPhase
    <2>8. CASE Fail(r, j)
      BY <1>3, <1>4, <1>5, <1>6, <2>8 DEF Fail, InPhase
    <2>9. CASE ReadStateFails(r, j)
      BY <1>3, <1>4, <1>5, <2>9 DEF ReadStateFails, InPhase
    <2>10. CASE RecordFails(r, j)
      BY <1>3, <1>4, <1>5, <2>10 DEF RecordFails, InPhase
    <2>11. CASE Release(r, j) \/ LeaseFails(r, j) \/ ReleaseFails(r, j)
      BY <1>2, <2>11 DEF Release, LeaseFails, ReleaseFails
    <2> QED
      BY <2>1, <2>2, <2>3, <2>4, <2>5, <2>6, <2>7, <2>8, <2>9, <2>10, <2>11 DEF Run, Work, RedisFails
  <1> QED
    BY <1>1, <1>7, FewerSlots

(* A tick reads a job's state when a slot is free, and nothing else takes   *)
(* that slot before it launches the job.                                    *)
LEMMA TickKeepsSlots ==
    ASSUME TypeOK, SlotsOK, NEW r \in Replicas, Tick(r) \/ TickReadFails(r)
    PROVE  SlotsOK'
  <1>1. CASE UNCHANGED run /\ \A q \in Replicas : reading'[q] => reading[q]
    BY <1>1, FewerSlots DEF Slots, InPhase
  <1>2. CASE TickLook(r)
    <2>1. CASE Cardinality(Slots(r)) < Concurrency
      <3>1. \A q \in Replicas : q # r => reading'[q] = reading[q]
        BY <1>2 DEF TickLook, TypeOK
      <3>2. \A q \in Replicas : Slots(q)' = Slots(q)
        BY <1>2 DEF TickLook, Slots, InPhase
      <3>3. \A q \in Replicas : Cardinality(Slots(q)') = Cardinality(Slots(q))
        BY <3>2
      <3> QED
        BY <2>1, <3>1, <3>3 DEF SlotsOK
    <2>2. CASE UNCHANGED <<run, reading>>
      BY <1>1, <2>2
    <2> QED
      BY <1>2, <2>1, <2>2 DEF TickLook
  <1>3. CASE TickRead(r)
    <2>1. /\ reading[r] /\ ~reading'[r] /\ at[r] \in Jobs
          /\ \A q \in Replicas : q # r => reading'[q] = reading[q]
      BY <1>3, BoundAssumption DEF TickRead, TypeOK, Jobs
    <2>2. ASSUME NEW q \in Replicas, q # r
          PROVE  Slots(q)' = Slots(q)
      BY <1>3, <2>1, <2>2 DEF TickRead, TypeOK, Slots, InPhase
    <2>3. Slots(r)' \subseteq Slots(r) \cup {at[r]}
      BY <1>3, <2>1 DEF TickRead, TypeOK, Slots, InPhase
    <2>4. Cardinality(Slots(r)') <= Cardinality(Slots(r)) + 1
      <3>1. /\ IsFiniteSet(Slots(r) \cup {at[r]})
            /\ Cardinality(Slots(r) \cup {at[r]}) <= Cardinality(Slots(r)) + 1
        <4> DEFINE slots == Slots(r)
        <4>1. IsFiniteSet(slots) /\ Cardinality(slots) \in Nat
          BY SlotsFinite
        <4> HIDE DEF slots
        <4>2. /\ IsFiniteSet(slots \cup {at[r]})
              /\ Cardinality(slots \cup {at[r]}) <= Cardinality(slots) + 1
          BY <4>1, FS_AddElement
        <4> QED
          BY <4>2 DEF slots
      <3>a. Slots(r)' \in SUBSET (Slots(r) \cup {at[r]})
        BY <2>3
      <3>2. Cardinality(Slots(r)') <= Cardinality(Slots(r) \cup {at[r]})
        BY <3>1, <3>a, FS_Subset
      <3>3. Cardinality(Slots(r) \cup {at[r]}) \in Nat
        BY <3>1, FS_CardinalityType
      <3> QED
        BY <3>1, <3>2, <3>3, SlotsFinite
    <2>5. Cardinality(Slots(r)') <= Concurrency
      BY <2>1, <2>4, SlotsFinite, BoundAssumption DEF SlotsOK
    <2> SUFFICES ASSUME NEW q \in Replicas
                 PROVE  /\ Cardinality(Slots(q)') <= Concurrency
                        /\ reading'[q] => Cardinality(Slots(q)') < Concurrency
      BY DEF SlotsOK
    <2>6. CASE q = r
      BY <2>1, <2>5, <2>6
    <2>7. CASE q # r
      BY <2>1, <2>2, <2>7 DEF SlotsOK
    <2> QED
      BY <2>6, <2>7
  <1>4. CASE TickReadFails(r)
    BY <1>1, <1>4 DEF TickReadFails, TypeOK
  <1>5. CASE TickStart(r)
    BY <1>1, <1>5 DEF TickStart
  <1> QED
    BY <1>2, <1>3, <1>4, <1>5 DEF Tick

LEMMA ProcessKeepsSlots ==
    ASSUME TypeOK, SlotsOK, NEW r \in Replicas, Stop(r) \/ Exit(r) \/ Crash(r)
    PROVE  SlotsOK'
  <1>1. \A q \in Replicas : reading'[q] => reading[q]
    BY DEF Stop, Exit, Crash, Restarted, ticker, TypeOK
  <1>2. \A q \in Replicas, i \in Jobs : run'[q][i] = None \/ run'[q][i] = run[q][i]
    BY DEF Stop, Exit, Crash, Restarted, TypeOK
  <1>3. \A q \in Replicas : Slots(q)' \subseteq Slots(q)
    BY <1>2 DEF Slots, InPhase
  <1> QED
    BY <1>1, <1>3, FewerSlots

LEMMA TimeKeepsSlots ==
    ASSUME TypeOK, SlotsOK, TimePasses
    PROVE  SlotsOK'
  <1>1. ASSUME NEW q \in Replicas, NEW i \in Jobs
        PROVE  /\ run'[q][i] = None <=> run[q][i] = None
               /\ run[q][i] # None => run'[q][i].phase = run[q][i].phase
    <2>1. run'[q][i] = Waited(run[q][i]) /\ run[q][i] \in Runs \cup {None}
      BY DEF TimePasses, TypeOK
    <2>2. CASE run[q][i] = None \/ run[q][i].phase = "launched"
      BY <2>1, <2>2 DEF Waited
    <2>3. CASE run[q][i] # None /\ run[q][i].phase # "launched"
      <3>1. run'[q][i].phase = run[q][i].phase
        BY <2>1, <2>3 DEF Waited, Runs
      <3>2. run[q][i].left > 0 \/ run[q][i].late < Late
        BY <2>1, <2>3 DEF TimePasses, MayPass, InPhase, Runs
      <3>3. run'[q][i] # None
        BY <2>1, <2>3, <3>2, WaitedType, NoneAssumption
      <3> QED
        BY <2>3, <3>1, <3>3
    <2> QED
      BY <2>2, <2>3
  <1>2. \A q \in Replicas : Slots(q)' \subseteq Slots(q)
    BY <1>1 DEF Slots, InPhase
  <1> QED
    BY <1>2, FewerSlots DEF TimePasses

LEMMA InitSlots == Init => SlotsOK
  <1> SUFFICES ASSUME Init, NEW r \in Replicas
               PROVE  Cardinality(Slots(r)) <= Concurrency /\ ~reading[r]
    BY DEF SlotsOK, Init
  <1>1. Slots(r) = {}
    BY DEF Init, Slots, InPhase
  <1> QED
    BY <1>1, FS_EmptySet, BoundAssumption DEF Init

-----------------------------------------------------------------------------
(* The invariant, and what follows from it.                                 *)

THEOREM InitInvariant == Init => IInv
  BY InitType, InitRuns, InitSlots DEF IInv

THEOREM NextInvariant == IInv /\ [Next]_vars => IInv'
  <1> SUFFICES ASSUME TypeOK, RunsOK, SlotsOK, [Next]_vars
               PROVE  IInv'
    BY DEF IInv
  <1>1. TypeOK'
    BY NextType
  <1>2. CASE TimePasses
    BY <1>1, <1>2, TimeKeepsRuns, TimeKeepsSlots DEF IInv
  <1>3. ASSUME NEW r \in Replicas, Tick(r) \/ TickReadFails(r)
        PROVE  IInv'
    BY <1>1, <1>3, TickKeepsRuns, TickKeepsSlots DEF IInv
  <1>4. ASSUME NEW r \in Replicas, Stop(r) \/ Exit(r) \/ Crash(r)
        PROVE  IInv'
    BY <1>1, <1>4, ProcessKeepsRuns, ProcessKeepsSlots DEF IInv
  <1>5. ASSUME NEW r \in Replicas, NEW j \in Jobs, Run(r, j) \/ Work(r, j) \/ RedisFails(r, j)
        PROVE  IInv'
    BY <1>1, <1>5, RunKeepsRuns, RunKeepsSlots DEF IInv
  <1>6. CASE UNCHANGED vars
    <2>1. RunsOK'
      BY <1>6 DEF vars, redis, RunsOK
    <2>2. SlotsOK'
      BY <1>6, FewerSlots DEF vars, ticker, Slots, InPhase
    <2> QED
      BY <1>1, <2>1, <2>2 DEF IInv
  <1> QED
    BY <1>2, <1>3, <1>4, <1>5, <1>6 DEF Next

THEOREM Invariant == Spec => []IInv
  BY InitInvariant, NextInvariant, PTL DEF Spec

(* A job's work is never under way in two runs at once, whatever crashes,    *)
(* slow calls and failing calls of Redis there are: the lease outlasts the   *)
(* timeout and the grace of the run that took it (jobs.ts line 379).         *)
THEOREM RunsOnce == Spec => []OncePerJob
  <1>1. IInv => OncePerJob
    BY Alone DEF IInv, OncePerJob, AtWork, InPhase, Held
  <1> QED
    BY <1>1, Invariant, PTL

(* A process never has more runs in flight than MODULE_JOBS_CONCURRENCY,     *)
(* though a tick looks at the slots before it awaits the state it launches   *)
(* by (jobs.ts lines 245 and 285-286).                                      *)
THEOREM SlotsAreEnough == Spec => []SlotsSuffice
  <1>1. IInv => SlotsSuffice
    BY DEF IInv, SlotsOK, SlotsSuffice
  <1> QED
    BY <1>1, Invariant, PTL

-----------------------------------------------------------------------------
(* The scheduler implements JobSchedule: its steps are steps of a schedule,  *)
(* or change nothing a schedule shows.                                      *)

OnPhases == {"work", "record", "expired"}

(* The jobs run after a step that sets one run, which holds the lease.       *)
LEMMA RunningAfter ==
    ASSUME TypeOK, RunsOK, NEW r \in Replicas, NEW j \in Jobs, NEW x \in Runs \cup {None},
           SetRun(r, j, x), Held(run[r][j])
    PROVE  Running' = IF x # None /\ x.phase \in OnPhases THEN Running \cup {j} ELSE Running \ {j}
  <1>1. \A i \in Jobs : i # j => (i \in Running' <=> i \in Running)
    BY RunUpdate DEF Running, InPhase
  <1>2. \A q \in Replicas : q # r => ~Held(run'[q][j])
    BY Alone, RunUpdate
  <1>3. j \in Running' <=> x # None /\ x.phase \in OnPhases
    BY <1>2, RunUpdate DEF Running, InPhase, Held, OnPhases
  <1>4. Running \subseteq Jobs /\ Running' \subseteq Jobs
    BY DEF Running
  <1> QED
    BY <1>1, <1>3, <1>4

(* Runs that stop without a trace are lost.                                 *)
LEMMA LosesRuns ==
    ASSUME UNCHANGED last, Running' \subseteq Running
    PROVE  Schedule!Next
  <1>1. Schedule!Lose(Running \ Running')
    BY DEF Schedule!Lose
  <1>2. Running \ Running' \in SUBSET Jobs
    BY DEF Running
  <1> QED
    BY <1>1, <1>2 DEF Schedule!Next

(* What a run records is a success, or one failure more.                    *)
LEMMA RecordEnds ==
    ASSUME TypeOK, RunsOK, NEW r \in Replicas, NEW j \in Jobs,
           InPhase(r, j, {"record", "expired"}), Recorded(r, j), Running' = Running \ {j}
    PROVE  Schedule!Next
  <1>1. run[r][j] \in Runs /\ Held(run[r][j]) /\ Current(run[r][j], last[j])
    BY DEF InPhase, Held, TypeOK, RunsOK, RunOK
  <1> DEFINE s == run[r][j].state
  <1>2. /\ s # None /\ s \in States /\ s.age <= run[r][j].late
        /\ s.failures \in {0, OneMore(Failures(last[j]))}
        /\ run[r][j].late \in 0..Late
    BY <1>1 DEF Current, InPhase, Runs
  <1>3. s.age \in 0..Late /\ s = [age |-> s.age, failures |-> s.failures]
    BY <1>2, BoundAssumption DEF States
  <1>4. s.failures \in {0, Schedule!More(Schedule!Count(last[j]))}
    BY <1>2 DEF OneMore, Failures, Schedule!More, Schedule!Count
  <1>5. j \in Running
    BY DEF Running, InPhase
  <1>6. Schedule!End(j)
    BY <1>3, <1>4, <1>5 DEF Schedule!End, Recorded
  <1> QED
    BY <1>6 DEF Schedule!Next

(* A run begins when its job is due by what the second look read, and that   *)
(* is still the state in Redis.                                             *)
LEMMA BeginStarts ==
    ASSUME TypeOK, RunsOK, NEW r \in Replicas, NEW j \in Jobs,
           InPhase(r, j, {"read"}), Due(j, run[r][j].state), UNCHANGED last,
           Running' = Running \cup {j}
    PROVE  Schedule!Next
  <1>1. Held(run[r][j]) /\ run[r][j].state = last[j]
    BY DEF InPhase, Held, RunsOK, RunOK, Current
  <1>2. j \notin Running
    BY <1>1, Alone DEF Running, InPhase, Held
  <1>3. Schedule!Start(j)
    BY <1>1, <1>2 DEF Due, Schedule!Start
  <1> QED
    BY <1>3 DEF Schedule!Next

LEMMA RunImplements ==
    ASSUME TypeOK, RunsOK, NEW r \in Replicas, NEW j \in Jobs,
           Run(r, j) \/ Work(r, j) \/ RedisFails(r, j)
    PROVE  Schedule!Next \/ UNCHANGED <<last, Running>>
  <1>1. /\ {"held", "read", "work", "record", "expired", "wind", "done", "left"} \subseteq Phases
        /\ None \in States \cup {None} /\ 0 \in Nat /\ Timeout \in Nat /\ Grace \in Nat
    BY BoundAssumption DEF Phases
  <1>2. /\ last[j] \in States \cup {None}
        /\ run[r][j] # None => run[r][j].state \in States \cup {None} /\ Failed(r, j) \in States
    <2>1. run[r][j] # None => run[r][j].state \in States \cup {None}
      BY DEF TypeOK, Runs
    <2> QED
      BY <2>1, StateFacts, EndedFacts DEF Failed, TypeOK
  <1>3. ASSUME Held(run[r][j]), NEW p \in Phases, NEW s \in States \cup {None}, NEW n \in Nat,
               GoesOn(r, j, p, s, n)
        PROVE  Running' = IF p \in OnPhases THEN Running \cup {j} ELSE Running \ {j}
    <2>1. PICK x \in Runs : x # None /\ x.phase = p /\ SetRun(r, j, x)
      BY <1>3, NextPhase DEF Held
    <2> QED
      BY <1>3, <2>1, RunningAfter
  <1>4. Held(run[r][j]) => (j \in Running <=> InPhase(r, j, OnPhases))
    BY Alone DEF Running, InPhase, OnPhases, Held
  <1>a. CASE TakeLease(r, j) \/ LeaseFails(r, j)
    <2>1. UNCHANGED last /\ ~InPhase(r, j, OnPhases)
      BY <1>a DEF TakeLease, LeaseFails, InPhase, OnPhases
    <2>2. \A q \in Replicas, i \in Jobs : run'[q][i] = run[q][i] \/ (q = r /\ i = j)
      BY <1>a DEF TakeLease, LeaseFails, GoesOn, SetRun, TypeOK
    <2>3. run'[r][j] = None \/ run'[r][j].phase = "held"
      BY <1>a DEF TakeLease, LeaseFails, GoesOn, SetRun, TypeOK
    <2>4. \A q \in Replicas, i \in Jobs :
             (run'[q][i] # None /\ run'[q][i].phase \in OnPhases) <=> InPhase(q, i, OnPhases)
      BY <2>1, <2>2, <2>3 DEF InPhase, OnPhases
    <2>5. Running' = Running
      BY <2>4 DEF Running, InPhase, OnPhases
    <2> QED
      BY <2>1, <2>5
  <1>b. CASE ReadState(r, j) \/ ReadStateFails(r, j) \/ Settle(r, j)
    <2>1. Held(run[r][j]) /\ ~InPhase(r, j, OnPhases) /\ UNCHANGED last
      BY <1>b DEF ReadState, ReadStateFails, Settle, InPhase, Held, OnPhases, redis
    <2>2. PICK p \in {"read", "left", "done"}, s \in States \cup {None} : GoesOn(r, j, p, s, 0)
      BY <1>1, <1>2, <1>b DEF ReadState, ReadStateFails, Settle
    <2>3. Running' = Running \ {j}
      BY <1>1, <1>3, <2>1, <2>2 DEF OnPhases
    <2> QED
      BY <1>4, <2>1, <2>3
  <1>c. CASE Begin(r, j)
    <2>1. InPhase(r, j, {"read"}) /\ Held(run[r][j]) /\ ~InPhase(r, j, OnPhases) /\ UNCHANGED last
      BY <1>c DEF Begin, InPhase, Held, OnPhases, redis
    <2>2. CASE Due(j, run[r][j].state) /\ GoesOn(r, j, "work", run[r][j].state, Timeout)
      <3>1. Running' = Running \cup {j}
        BY <1>1, <1>2, <1>3, <2>1, <2>2 DEF OnPhases, Held
      <3> QED
        BY <2>1, <2>2, <3>1, BeginStarts
    <2>3. CASE GoesOn(r, j, "left", None, 0)
      <3>1. Running' = Running \ {j}
        BY <1>1, <1>3, <2>1, <2>3 DEF OnPhases
      <3> QED
        BY <1>4, <2>1, <3>1
    <2> QED
      BY <1>c, <2>2, <2>3 DEF Begin
  <1>d. CASE Succeed(r, j) \/ Fail(r, j) \/ Expire(r, j)
    <2>1. Held(run[r][j]) /\ InPhase(r, j, OnPhases) /\ UNCHANGED last
      BY <1>d DEF Succeed, Fail, Expire, InPhase, Held, OnPhases, redis
    <2>2. PICK p \in {"record", "expired"}, s \in States : GoesOn(r, j, p, s, 0)
      BY <1>2, <1>d, <2>1, EndedFacts DEF Succeed, Fail, Expire, Held
    <2>3. Running' = Running \cup {j}
      BY <1>1, <1>3, <2>1, <2>2 DEF OnPhases
    <2> QED
      BY <1>4, <2>1, <2>3
  <1>e. CASE Record(r, j) \/ RecordFails(r, j)
    <2>1. InPhase(r, j, {"record", "expired"}) /\ Held(run[r][j])
      BY <1>e DEF Record, RecordFails, InPhase, Held
    <2>2. PICK p \in {"done", "wind", "left"}, n \in {0, Grace} : GoesOn(r, j, p, None, n)
      BY <1>e DEF Record, RecordFails
    <2>3. Running' = Running \ {j}
      BY <1>1, <1>3, <2>1, <2>2 DEF OnPhases
    <2>4. CASE Recorded(r, j)
      BY <2>1, <2>3, <2>4, RecordEnds
    <2>5. CASE UNCHANGED last
      BY <2>3, <2>5, LosesRuns
    <2> QED
      BY <1>e, <2>4, <2>5 DEF Record, RecordFails
  <1>f. CASE Release(r, j) \/ ReleaseFails(r, j)
    <2>1. Held(run[r][j]) /\ ~InPhase(r, j, OnPhases) /\ UNCHANGED last /\ SetRun(r, j, None)
      BY <1>f DEF Release, ReleaseFails, InPhase, Held, OnPhases, redis
    <2>2. Running' = Running \ {j}
      BY <2>1, RunningAfter
    <2> QED
      BY <1>4, <2>1, <2>2
  <1> QED
    BY <1>a, <1>b, <1>c, <1>d, <1>e, <1>f DEF Run, Work, RedisFails

(* Neither a tick nor the process starts or records a run.                   *)
LEMMA ReplicaImplements ==
    ASSUME TypeOK, NEW r \in Replicas,
           Tick(r) \/ TickReadFails(r) \/ Stop(r) \/ Exit(r) \/ Crash(r)
    PROVE  Schedule!Next
  <1>1. UNCHANGED last
    BY DEF Tick, TickStart, TickLook, TickRead, TickReadFails, Stop, Exit, Crash, Restarted, redis
  <1>2. ASSUME NEW q \in Replicas, NEW i \in Jobs, run'[q][i] # None, run'[q][i].phase # "launched"
        PROVE  run'[q][i] = run[q][i]
    <2>1. CASE Tick(r) \/ TickReadFails(r)
      BY <1>2, <2>1 DEF Tick, TickStart, TickLook, TickRead, TickReadFails, TypeOK, Launched
    <2>2. CASE Stop(r) \/ Exit(r) \/ Crash(r)
      BY <1>2, <2>2 DEF Stop, Exit, Crash, Restarted, TypeOK
    <2> QED
      BY <2>1, <2>2
  <1>3. Running' \subseteq Running
    BY <1>2 DEF Running, InPhase
  <1> QED
    BY <1>1, <1>3, LosesRuns

LEMMA TimeImplements ==
    ASSUME TypeOK, TimePasses
    PROVE  Schedule!Next
  <1>1. ASSUME NEW q \in Replicas, NEW i \in Jobs
        PROVE  (run'[q][i] # None /\ run'[q][i].phase \in OnPhases) <=> InPhase(q, i, OnPhases)
    <2>1. run'[q][i] = Waited(run[q][i]) /\ run[q][i] \in Runs \cup {None}
      BY DEF TimePasses, TypeOK
    <2>2. CASE run[q][i] = None \/ run[q][i].phase = "launched"
      BY <2>1, <2>2 DEF Waited, InPhase, OnPhases
    <2>3. CASE run[q][i] # None /\ run[q][i].phase # "launched"
      <3>1. run'[q][i].phase = run[q][i].phase
        BY <2>1, <2>3 DEF Waited, Runs
      <3>2. run[q][i].left > 0 \/ run[q][i].late < Late
        BY <2>1, <2>3 DEF TimePasses, MayPass, InPhase, Runs
      <3>3. run'[q][i] # None
        BY <2>1, <2>3, <3>2, WaitedType, NoneAssumption
      <3> QED
        BY <2>3, <3>1, <3>3 DEF InPhase
    <2> QED
      BY <2>2, <2>3
  <1>2. UNCHANGED Running
    BY <1>1 DEF Running, InPhase, OnPhases
  <1>3. last' = [j \in Jobs |-> Schedule!Aged(last[j])]
    BY DEF TimePasses, Older, Schedule!Aged
  <1>4. Schedule!TimePasses
    BY <1>2, <1>3 DEF Schedule!TimePasses
  <1> QED
    BY <1>4 DEF Schedule!Next

(* The jobs run as docs/MODULES.md says: one run of a job at a time, started *)
(* when due by the run before it, and each recorded at most once, as a       *)
(* success or as one failure more than the run before it had.               *)
THEOREM Implements == Spec => ImplementsSchedule
  <1>1. Init => Schedule!Init
    BY DEF Init, Schedule!Init, Running, InPhase
  <1>2. IInv /\ [Next]_vars => [Schedule!Next]_(Schedule!vars)
    <2> SUFFICES ASSUME TypeOK, RunsOK, [Next]_vars
                 PROVE  Schedule!Next \/ UNCHANGED <<last, Running>>
      BY DEF IInv, Schedule!vars
    <2>1. CASE UNCHANGED vars
      BY <2>1 DEF vars, redis, Running, InPhase
    <2>2. CASE TimePasses
      BY <2>2, TimeImplements
    <2>3. ASSUME NEW r \in Replicas,
                 Tick(r) \/ TickReadFails(r) \/ Stop(r) \/ Exit(r) \/ Crash(r)
          PROVE  Schedule!Next
      BY <2>3, ReplicaImplements
    <2>4. ASSUME NEW r \in Replicas, NEW j \in Jobs, Run(r, j) \/ Work(r, j) \/ RedisFails(r, j)
          PROVE  Schedule!Next \/ UNCHANGED <<last, Running>>
      BY <2>4, RunImplements
    <2> QED
      BY <2>1, <2>2, <2>3, <2>4 DEF Next
  <1> QED
    BY <1>1, <1>2, Invariant, PTL DEF Spec, ImplementsSchedule, Schedule!Spec
-----------------------------------------------------------------------------
(* SyncRuns.                                                               *)

(* A run whose lease nobody could give away has it.                          *)
Leaseholding ==
    \A r \in Workers : InFlight(r) /\ r \notin outlived \cup robbed =>
        row # Nil /\ row.lease = r

(* What a run began with, and the row as its claim returned it.              *)
CountsSet == [hash : Configs \cup {Nil}, failures : 0 .. PauseAfter, paused : BOOLEAN]
Equipped ==
    \A r \in Workers :
        /\ pc[r] \in {"claim", "count", "run"} => mine[r] \in Configs
        /\ InFlight(r) => /\ claimed[r] \in CountsSet
                          /\ claimed[r].paused => claimed[r].failures = PauseAfter

(* The row's counter is no higher than the failures there were in a row, of  *)
(* the config it is about.                                                   *)
Counted ==
    /\ streak.n \in 0 .. PauseAfter
    /\ row # Nil /\ ~overtaken /\ row.failures > 0 =>
          streak.of = row.hash /\ streak.n >= row.failures

SyncInv ==
    /\ SyncTypeOK /\ claimed \in [Workers -> CountsSet \cup {Nil}]
    /\ Leaseholding /\ Equipped /\ Counted

SyncCalls == {"idle", "load", "forget", "claim", "count", "run"}

USE SyncAssumption DEF runs, history, InFlight

LEMMA SyncInitInv == SyncInit => SyncInv
<1> SUFFICES ASSUME SyncInit PROVE SyncInv
  OBVIOUS
<1> QED BY DEF SyncInit, SyncInv, SyncTypeOK, Leaseholding, Equipped, Counted, NoCount

(* A row is a record, never Nil.                                             *)
LEMMA RowFacts ==
    ASSUME NEW w \in SourceRows
    PROVE  /\ w # Nil /\ w.hash \in Configs \cup {Nil} /\ w.failures \in 0 .. PauseAfter
           /\ w.paused \in BOOLEAN /\ w.due \in BOOLEAN
           /\ w.lease \in Workers \cup {Nil, "orphan", "over"}
           /\ Counts(w) \in CountsSet
BY DEF SourceRows, Counts, CountsSet

(* A run that gives its lease back, or stores its outcome, ends: whose lease *)
(* it emptied is robbed.                                                     *)
LEMMA SyncEndsInv ==
    ASSUME SyncInv, NEW r \in Workers, InFlight(r), Idle(r), Returns(r),
           row' \in SourceRows \cup {Nil},
           row' # Nil => row'.lease = Nil /\ (row'.paused => row'.failures = PauseAfter),
           row' = Nil <=> row = Nil,
           UNCHANGED config, used' \in 0 .. RunsPerHour, syncFaults' \in 0 .. MaxSyncFaults,
           Counted'
    PROVE  SyncInv'
<1>1. /\ pc' \in [Workers -> SyncCalls] /\ mine' \in [Workers -> Configs \cup {Nil}]
      /\ claimed' \in [Workers -> CountsSet \cup {Nil}]
      /\ pc'[r] = "idle" /\ outlived' = outlived \ {r}
      /\ \A s \in Workers \ {r} :
            pc'[s] = pc[s] /\ mine'[s] = mine[s] /\ claimed'[s] = claimed[s]
  BY DEF SyncInv, SyncTypeOK, Idle, SyncCalls
<1>2. robbed' \subseteq (robbed \cup {s \in Workers : row # Nil /\ row.lease = s}) \ {r}
  <2>1. CASE r \in outlived \cup robbed
    BY <2>1 DEF Returns
  <2>2. CASE r \notin outlived \cup robbed
    BY <2>2 DEF Returns
  <2> QED BY <2>1, <2>2
<1>3. SyncTypeOK'
  <2>1. \A s \in Workers : row # Nil /\ row.lease = s => InFlight(s)
    BY DEF SyncInv, SyncTypeOK
  <2>2. outlived' \cup robbed' \subseteq {s \in Workers : InFlight(s)'}
    BY <1>1, <1>2, <2>1 DEF SyncInv, SyncTypeOK
  <2>3. row' # Nil => row'.lease \notin Workers
    OBVIOUS
  <2> QED BY <1>1, <2>2, <2>3 DEF SyncInv, SyncTypeOK, SyncCalls
<1>4. Leaseholding'
  <2> SUFFICES ASSUME NEW s \in Workers, InFlight(s)', s \notin outlived' \cup robbed'
               PROVE  FALSE
    BY DEF Leaseholding
  <2>1. s # r /\ InFlight(s)
    BY <1>1
  <2>2. CASE r \in outlived \cup robbed
    <3>1. s \notin outlived \cup robbed /\ ~(row # Nil /\ row.lease = s)
      BY <1>1, <2>1, <2>2 DEF Returns
    <3> QED BY <2>1, <3>1 DEF SyncInv, Leaseholding
  <2>3. CASE r \notin outlived \cup robbed
    <3>1. row # Nil /\ row.lease = r
      BY <2>3 DEF SyncInv, Leaseholding
    <3>2. s \notin outlived \cup robbed
      BY <1>1, <2>1, <2>3 DEF Returns
    <3> QED BY <2>1, <3>1, <3>2 DEF SyncInv, Leaseholding
  <2> QED BY <2>2, <2>3
<1>5. Equipped'
  BY <1>1 DEF SyncInv, Equipped
<1> QED BY <1>1, <1>3, <1>4, <1>5 DEF SyncInv

LEMMA ReleaseInv ==
    ASSUME SyncInv, NEW r \in Workers, InFlight(r), GiveBack(r),
           UNCHANGED <<config, streak, overtaken>>,
           used' \in 0 .. RunsPerHour, syncFaults' \in 0 .. MaxSyncFaults
    PROVE  SyncInv'
<1>1. CASE row = Nil
  <2>1. row' = Nil
    BY <1>1 DEF GiveBack
  <2>2. Counted'
    BY <1>1, <2>1 DEF SyncInv, Counted
  <2> QED BY <1>1, <2>1, <2>2, SyncEndsInv DEF GiveBack
<1>2. CASE row # Nil
  <2>1. row \in SourceRows /\ row' = [row EXCEPT !.lease = Nil]
    BY <1>2 DEF GiveBack, SyncInv, SyncTypeOK
  <2>2. /\ row' \in SourceRows /\ row'.lease = Nil /\ row'.hash = row.hash
        /\ row'.failures = row.failures /\ row'.paused = row.paused
    BY <2>1 DEF SourceRows
  <2>3. Counted'
    BY <1>2, <2>2, RowFacts DEF SyncInv, Counted
  <2>4. row'.paused => row'.failures = PauseAfter
    BY <1>2, <2>2 DEF SyncInv, SyncTypeOK
  <2>5. row' # Nil
    BY <2>2
  <2> QED BY <1>2, <2>2, <2>3, <2>4, <2>5, SyncEndsInv DEF GiveBack
<1> QED BY <1>1, <1>2

(* The outcome of a run whose row is as it claimed it counts what happened.  *)
LEMMA FinishRunInv ==
    ASSUME SyncInv, NEW r \in Workers, NEW ok \in BOOLEAN, Finish(r, ok)
    PROVE  SyncInv'
<1> DEFINE before == IF SameConfig(r) THEN claimed[r].failures ELSE 0
           wasPaused == SameConfig(r) /\ claimed[r].paused
<1>1. /\ pc[r] = "run" /\ mine[r] \in Configs /\ claimed[r] \in CountsSet
      /\ claimed[r].paused => claimed[r].failures = PauseAfter
  BY DEF Finish, SyncInv, Equipped
<1>2. /\ before \in 0 .. PauseAfter /\ wasPaused \in BOOLEAN
      /\ wasPaused => before = PauseAfter
  BY <1>1 DEF CountsSet, SameConfig
<1>3. Up(before) \in 0 .. PauseAfter /\ (before + 1 >= PauseAfter => Up(before) = PauseAfter)
      /\ Up(before) > 0
  BY <1>2 DEF Up
<1>4. CASE row = Nil
  <2>1. row' = Nil /\ UNCHANGED <<streak, overtaken>>
    BY <1>4 DEF Finish
  <2>2. Counted'
    BY <2>1 DEF SyncInv, Counted
  <2> QED BY <1>1, <1>4, <2>1, <2>2, SyncEndsInv DEF Finish, SyncInv, SyncTypeOK
<1>5. CASE row # Nil
  <2>1. /\ row' = [hash |-> mine[r],
                   failures |-> IF ok THEN 0 ELSE Up(before),
                   paused |-> ~ok /\ (wasPaused \/ before + 1 >= PauseAfter),
                   due |-> FALSE,
                   lease |-> Nil]
        /\ streak' = [of |-> mine[r],
                      n |-> IF ok THEN 0
                            ELSE IF streak.of = mine[r] THEN Up(streak.n) ELSE 1]
        /\ overtaken' = (~ok /\ (overtaken \/ Counts(row) # claimed[r]))
    BY <1>5 DEF Finish, Stored
  <2>2. row' \in SourceRows /\ row' # Nil
    <3> DEFINE n == IF ok THEN 0 ELSE Up(before)
               b == ~ok /\ (wasPaused \/ before + 1 >= PauseAfter)
    <3>1. n \in 0 .. PauseAfter
      BY <1>3
    <3>2. b \in BOOLEAN
      OBVIOUS
    <3>3. row' = [hash |-> mine[r], failures |-> n, paused |-> b, due |-> FALSE, lease |-> Nil]
      BY <2>1
    <3> HIDE DEF n, b
    <3>4. [hash |-> mine[r], failures |-> n, paused |-> b, due |-> FALSE, lease |-> Nil]
             \in SourceRows
      BY ONLY <1>1, <3>1, <3>2 DEF SourceRows
    <3> QED BY <3>3, <3>4
  <2>3. row'.lease = Nil /\ (row'.paused => row'.failures = PauseAfter)
    <3>1. row'.lease = Nil /\ row'.failures = IF ok THEN 0 ELSE Up(before)
      BY <2>1
    <3>2. row'.paused = (~ok /\ (wasPaused \/ before + 1 >= PauseAfter))
      BY <2>1
    <3>3. row'.paused => ~ok /\ (wasPaused \/ before + 1 >= PauseAfter)
      BY ONLY <3>2
    <3>4. wasPaused => before + 1 >= PauseAfter
      BY <1>2
    <3> HIDE DEF before, wasPaused
    <3>5. row'.paused => ~ok /\ before + 1 >= PauseAfter
      BY ONLY <3>3, <3>4, Zenon
    <3> QED BY <1>3, <3>1, <3>5
  <2>4. Counted'
    <3>1. streak'.n \in 0 .. PauseAfter
      BY <2>1 DEF SyncInv, Counted, Up
    <3>2. ASSUME ~overtaken', row'.failures > 0
          PROVE  streak'.of = row'.hash /\ streak'.n >= row'.failures
      <4>1. ~ok /\ ~overtaken /\ Counts(row) = claimed[r]
        <5>1. overtaken' = (~ok /\ (overtaken \/ Counts(row) # claimed[r]))
          BY <2>1
        <5>2. ok \/ (~overtaken /\ Counts(row) = claimed[r])
          BY <3>2, <5>1, Zenon
        <5>3. ~ok
          BY <2>1, <3>2
        <5> QED BY <5>2, <5>3
      <4>2. streak'.of = row'.hash /\ row'.failures = Up(before)
        BY <2>1, <4>1
      <4>3. CASE before = 0
        <5>1. streak'.n >= 1
          BY <2>1, <4>1 DEF SyncInv, Counted, Up
        <5>2. Up(before) = 1
          BY <4>3 DEF Up
        <5> QED BY <4>2, <5>1, <5>2
      <4>4. CASE before # 0
        <5>1. SameConfig(r) /\ before = claimed[r].failures
          BY <4>4
        <5>2. row.hash = mine[r] /\ row.failures = before
          BY <4>1, <5>1 DEF SameConfig, Counts
        <5>3. streak.of = mine[r] /\ streak.n >= before /\ streak.n \in 0 .. PauseAfter
          BY <1>2, <1>5, <4>1, <4>4, <5>2 DEF SyncInv, Counted
        <5>4. streak'.n = Up(streak.n)
          BY <2>1, <4>1, <5>3
        <5> HIDE DEF before
        <5> QED BY <1>2, <4>2, <5>3, <5>4 DEF Up
      <4> QED BY <4>3, <4>4
    <3> QED BY <3>1, <3>2 DEF Counted
  <2> QED BY <1>1, <1>5, <2>2, <2>3, <2>4, SyncEndsInv DEF Finish, SyncInv, SyncTypeOK
<1> QED BY <1>4, <1>5

(* A call that leaves the row, the counts and who is in flight as they are.  *)
LEMMA MovesInv ==
    ASSUME SyncInv, UNCHANGED <<row, used, outlived, robbed, streak, overtaken, syncFaults>>,
           config' \in Configs \cup {Nil},
           pc' \in [Workers -> SyncCalls], mine' \in [Workers -> Configs \cup {Nil}],
           claimed' \in [Workers -> CountsSet \cup {Nil}],
           \A s \in Workers :
              /\ InFlight(s)' <=> InFlight(s)
              /\ InFlight(s) => claimed'[s] = claimed[s]
              /\ pc'[s] \in {"claim", "count", "run"} => mine'[s] \in Configs
    PROVE  SyncInv'
<1>1. SyncTypeOK'
  BY DEF SyncInv, SyncTypeOK, SyncCalls
<1>2. Leaseholding' /\ Equipped' /\ Counted'
  BY DEF SyncInv, Leaseholding, Equipped, Counted
<1> QED BY <1>1, <1>2 DEF SyncInv

(* A change of the row that leaves its lease, in a call of no run.           *)
LEMMA SourceRowInv ==
    ASSUME SyncInv, row \in SourceRows, row' \in SourceRows, row'.lease = row.lease,
           row'.paused => row'.failures = PauseAfter, Counted',
           used' \in 0 .. RunsPerHour,
           UNCHANGED <<config, runs, robbed, syncFaults>>
    PROVE  SyncInv'
<1>1. SyncTypeOK'
  BY DEF SyncInv, SyncTypeOK
<1>2. Leaseholding'
  BY RowFacts DEF SyncInv, Leaseholding
<1>3. Equipped'
  BY DEF SyncInv, Equipped
<1> QED BY <1>1, <1>2, <1>3 DEF SyncInv

(* A lease becomes nobody's: its run has died, or overstayed, or had it once.*)
LEMMA LapseInv ==
    ASSUME SyncInv, row \in SourceRows, NEW l \in {"orphan", "over"},
           row' = [row EXCEPT !.lease = l]
    PROVE  /\ row' \in SourceRows /\ row'.lease = l /\ row' # Nil
           /\ row'.hash = row.hash /\ row'.failures = row.failures
           /\ row'.paused = row.paused
           /\ row'.paused => row'.failures = PauseAfter
<1>1. /\ row' \in SourceRows /\ row'.lease = l
      /\ row'.hash = row.hash /\ row'.failures = row.failures
      /\ row'.paused = row.paused
  BY DEF SourceRows
<1> QED BY <1>1, RowFacts DEF SyncInv, SyncTypeOK

LEMMA BeginsInv ==
    ASSUME SyncInv, NEW r \in Workers, BeginPass(r) \/ RunNow(r)
    PROVE  SyncInv'
<1>1. PICK l \in {"load", "claim"} : Begins(r, l) /\ (l = "claim" => config # Nil)
  BY DEF BeginPass, RunNow
<1>2. /\ pc[r] = "idle" /\ pc' = [pc EXCEPT ![r] = l]
      /\ mine' = [mine EXCEPT ![r] = config]
      /\ UNCHANGED <<config, row, used, claimed, outlived, history, syncFaults>>
  BY <1>1 DEF Begins
<1>3. pc' \in [Workers -> SyncCalls] /\ mine' \in [Workers -> Configs \cup {Nil}]
  BY <1>2 DEF SyncInv, SyncTypeOK, SyncCalls
<1>4. \A s \in Workers : /\ InFlight(s)' <=> InFlight(s)
                         /\ pc'[s] \in {"claim", "count", "run"} => mine'[s] \in Configs
  <2> TAKE s \in Workers
  <2>1. CASE s = r
    BY <1>1, <1>2, <2>1 DEF SyncInv, SyncTypeOK
  <2>2. CASE s # r
    BY <1>2, <2>2 DEF SyncInv, SyncTypeOK, Equipped
  <2> QED BY <2>1, <2>2
<1> QED BY <1>2, <1>3, <1>4, MovesInv DEF SyncInv, SyncTypeOK

(* A pass that goes on, or has nothing to do.                                *)
LEMMA IdleMoves ==
    ASSUME SyncInv, NEW r \in Workers, ~InFlight(r), Idle(r)
    PROVE  /\ pc' \in [Workers -> SyncCalls] /\ mine' \in [Workers -> Configs \cup {Nil}]
           /\ claimed' \in [Workers -> CountsSet \cup {Nil}] /\ UNCHANGED outlived
           /\ ~InFlight(r)'
           /\ \A s \in Workers :
                 /\ InFlight(s)' <=> InFlight(s)
                 /\ InFlight(s) => claimed'[s] = claimed[s]
                 /\ pc'[s] \in {"claim", "count", "run"} => mine'[s] \in Configs
<1>1. /\ pc' = [pc EXCEPT ![r] = "idle"] /\ mine' = [mine EXCEPT ![r] = Nil]
      /\ claimed' = [claimed EXCEPT ![r] = Nil] /\ outlived' = outlived \ {r}
  BY DEF Idle
<1>2. r \notin outlived
  BY DEF SyncInv, SyncTypeOK
<1>3. /\ pc' \in [Workers -> SyncCalls] /\ mine' \in [Workers -> Configs \cup {Nil}]
      /\ claimed' \in [Workers -> CountsSet \cup {Nil}]
  BY <1>1 DEF SyncInv, SyncTypeOK, SyncCalls
<1>4. /\ pc'[r] = "idle"
      /\ \A s \in Workers \ {r} :
            pc'[s] = pc[s] /\ mine'[s] = mine[s] /\ claimed'[s] = claimed[s]
  BY <1>1 DEF SyncInv, SyncTypeOK
<1> QED BY <1>1, <1>2, <1>3, <1>4 DEF SyncInv, Equipped

LEMMA LoadInv ==
    ASSUME SyncInv, NEW r \in Workers, LoadStates(r)
    PROVE  SyncInv'
<1>1. pc[r] = "load" /\ UNCHANGED <<config, row, used, history, syncFaults>>
  BY DEF LoadStates
<1>2. CASE Idle(r)
  BY <1>1, <1>2, IdleMoves, MovesInv DEF SyncInv, SyncTypeOK
<1>3. ASSUME NEW l \in {"claim", "forget"}, Goes(r, l), l = "claim" => mine[r] # Nil
      PROVE  SyncInv'
  <2>1. pc' = [pc EXCEPT ![r] = l] /\ UNCHANGED <<mine, claimed, outlived>>
    BY <1>3 DEF Goes
  <2>2. pc' \in [Workers -> SyncCalls]
    BY <2>1 DEF SyncInv, SyncTypeOK, SyncCalls
  <2>3. \A s \in Workers : /\ InFlight(s)' <=> InFlight(s)
                           /\ pc'[s] \in {"claim", "count", "run"} => mine'[s] \in Configs
    <3> TAKE s \in Workers
    <3>1. CASE s = r
      BY <1>1, <1>3, <2>1, <3>1 DEF SyncInv, SyncTypeOK
    <3>2. CASE s # r
      BY <2>1, <3>2 DEF SyncInv, SyncTypeOK, Equipped
    <3> QED BY <3>1, <3>2
  <2> QED BY <1>1, <2>1, <2>2, <2>3, MovesInv DEF SyncInv, SyncTypeOK
<1> QED BY <1>2, <1>3 DEF LoadStates

LEMMA ForgetInv ==
    ASSUME SyncInv, NEW r \in Workers, ForgetSource(r)
    PROVE  SyncInv'
<1>1. /\ pc[r] = "forget" /\ row' = Nil /\ streak' = NoCount /\ Idle(r)
      /\ robbed' = robbed \cup {s \in Workers : row # Nil /\ row.lease = s}
      /\ UNCHANGED <<config, used, syncFaults>>
  BY DEF ForgetSource
<1>2. /\ pc' \in [Workers -> SyncCalls] /\ mine' \in [Workers -> Configs \cup {Nil}]
      /\ claimed' \in [Workers -> CountsSet \cup {Nil}] /\ UNCHANGED outlived
      /\ \A s \in Workers :
            /\ InFlight(s)' <=> InFlight(s)
            /\ InFlight(s) => claimed'[s] = claimed[s]
            /\ pc'[s] \in {"claim", "count", "run"} => mine'[s] \in Configs
  BY <1>1, IdleMoves
<1>3. \A s \in Workers : row # Nil /\ row.lease = s => InFlight(s)
  BY DEF SyncInv, SyncTypeOK
<1>4. SyncTypeOK'
  BY <1>1, <1>2, <1>3 DEF SyncInv, SyncTypeOK, SyncCalls
<1>5. Leaseholding'
  BY <1>1, <1>2 DEF SyncInv, Leaseholding
<1>6. Equipped' /\ Counted'
  BY <1>1, <1>2 DEF SyncInv, Equipped, Counted, NoCount
<1> QED BY <1>2, <1>4, <1>5, <1>6 DEF SyncInv

(* A claim takes the lease from nobody who may still be at it.               *)
LEMMA ClaimInv ==
    ASSUME SyncInv, NEW r \in Workers, Claim(r)
    PROVE  SyncInv'
<1>1. pc[r] = "claim" /\ mine[r] \in Configs /\ UNCHANGED <<config, used, history, syncFaults>>
  BY DEF Claim, SyncInv, Equipped
<1>2. CASE Idle(r) /\ UNCHANGED row
  BY <1>1, <1>2, IdleMoves, MovesInv DEF SyncInv, SyncTypeOK
<1>3. CASE /\ row # Nil => Claimable(row)
           /\ row' = IF row = Nil THEN NewRow(r) ELSE [row EXCEPT !.lease = r]
           /\ claimed' = [claimed EXCEPT ![r] = Counts(row')]
           /\ pc' = [pc EXCEPT ![r] = "count"]
           /\ UNCHANGED <<mine, outlived>>
  <2>1. /\ row' \in SourceRows /\ row'.lease = r
        /\ row = Nil => row'.failures = 0 /\ ~row'.paused
        /\ row # Nil => /\ row \in SourceRows /\ row'.hash = row.hash
                        /\ row'.failures = row.failures /\ row'.paused = row.paused
    <3>1. CASE row = Nil
      BY <1>1, <1>3, <3>1 DEF NewRow, SourceRows
    <3>2. CASE row # Nil
      <4>1. row \in SourceRows /\ row' = [row EXCEPT !.lease = r]
        BY <1>3, <3>2 DEF SyncInv, SyncTypeOK
      <4> QED BY <3>2, <4>1 DEF SourceRows
    <3> QED BY <3>1, <3>2
  <2>2. row'.paused => row'.failures = PauseAfter
    BY <2>1 DEF SyncInv, SyncTypeOK
  <2>3. row' # Nil /\ Counts(row') \in CountsSet
    BY <2>1, RowFacts
  <2>4. pc' \in [Workers -> SyncCalls] /\ claimed' \in [Workers -> CountsSet \cup {Nil}]
    BY <1>3, <2>3 DEF SyncInv, SyncTypeOK, SyncCalls
  <2>5. /\ pc'[r] = "count" /\ claimed'[r] = Counts(row')
        /\ \A s \in Workers \ {r} : pc'[s] = pc[s] /\ claimed'[s] = claimed[s]
    BY <1>3 DEF SyncInv, SyncTypeOK
  <2>6. r \notin outlived \cup robbed
    BY <1>1 DEF SyncInv, SyncTypeOK
  <2>7. SyncTypeOK'
    <3>1. outlived' \cup robbed' \subseteq {s \in Workers : InFlight(s)'}
      BY <1>1, <1>3, <2>5 DEF SyncInv, SyncTypeOK
    <3>2. row'.lease \in Workers => InFlight(row.lease)' /\ row'.lease \notin outlived'
      <4>1. row'.lease = r /\ pc'[r] = "count" /\ outlived' = outlived
        BY <1>3, <2>1, <2>5
      <4> QED BY <2>6, <4>1
    <3> QED BY <1>1, <1>3, <2>1, <2>2, <2>4, <3>1, <3>2 DEF SyncInv, SyncTypeOK, SyncCalls
  <2>8. Leaseholding'
    <3> SUFFICES ASSUME NEW s \in Workers, InFlight(s)', s \notin outlived' \cup robbed'
                 PROVE  s = r
      BY <2>1, <2>3 DEF Leaseholding
    <3>1. ASSUME s # r PROVE FALSE
      <4>1. InFlight(s) /\ s \notin outlived \cup robbed
        BY <1>1, <1>3, <2>5, <3>1
      <4>2. row # Nil /\ row.lease = s
        BY <4>1 DEF SyncInv, Leaseholding
      <4>3. row.lease \in {Nil, "over"}
        BY <1>3, <4>2 DEF Claimable, InUse
      <4> QED BY <4>2, <4>3
    <3> QED BY <3>1
  <2>9. Equipped'
    BY <1>1, <1>3, <2>2, <2>3, <2>5 DEF SyncInv, Equipped, Counts
  <2>10. Counted'
    BY <1>1, <2>1 DEF SyncInv, Counted
  <2> QED BY <2>4, <2>7, <2>8, <2>9, <2>10 DEF SyncInv
<1> QED BY <1>2, <1>3 DEF Claim

LEMMA CountRunInv ==
    ASSUME SyncInv, NEW r \in Workers, Count(r)
    PROVE  SyncInv'
<1>1. pc[r] = "count" /\ UNCHANGED <<config, streak, overtaken>>
  BY DEF Count
<1>2. used \in 0 .. RunsPerHour /\ syncFaults \in 0 .. MaxSyncFaults
  BY DEF SyncInv, SyncTypeOK
<1>3. CASE /\ used < RunsPerHour /\ used' = used + 1
           /\ Goes(r, "run")
           /\ UNCHANGED <<row, robbed, syncFaults>>
  <2>1. pc' = [pc EXCEPT ![r] = "run"] /\ UNCHANGED <<mine, claimed, outlived>>
    BY <1>3 DEF Goes
  <2>2. pc' \in [Workers -> SyncCalls] /\ used' \in 0 .. RunsPerHour
    BY <1>2, <1>3, <2>1 DEF SyncInv, SyncTypeOK, SyncCalls
  <2>3. \A s \in Workers :
           /\ InFlight(s)' <=> InFlight(s)
           /\ pc'[s] \in {"claim", "count", "run"} <=> pc[s] \in {"claim", "count", "run"}
    <3> TAKE s \in Workers
    <3>1. CASE s = r
      BY <1>1, <2>1, <3>1 DEF SyncInv, SyncTypeOK
    <3>2. CASE s # r
      BY <2>1, <3>2 DEF SyncInv, SyncTypeOK
    <3> QED BY <3>1, <3>2
  <2>4. SyncTypeOK'
    BY <1>1, <1>3, <2>1, <2>2, <2>3 DEF SyncInv, SyncTypeOK, SyncCalls
  <2>5. Leaseholding' /\ Equipped' /\ Counted'
    BY <1>1, <1>3, <2>1, <2>3 DEF SyncInv, Leaseholding, Equipped, Counted
  <2> QED BY <2>1, <2>4, <2>5 DEF SyncInv
<1>4. CASE GiveBack(r) /\ used' = used /\ syncFaults' \in {syncFaults, syncFaults + 1}
           /\ (syncFaults' = syncFaults \/ syncFaults < MaxSyncFaults)
  <2>1. used' \in 0 .. RunsPerHour /\ syncFaults' \in 0 .. MaxSyncFaults
    BY <1>2, <1>4
  <2> QED BY <1>1, <1>4, <2>1, ReleaseInv
<1> QED BY <1>3, <1>4 DEF Count

LEMMA RunDiesInv ==
    ASSUME SyncInv, NEW r \in Workers, Dies(r)
    PROVE  SyncInv'
<1>1. /\ pc[r] # "idle" /\ Idle(r) /\ robbed' = robbed \ {r}
      /\ syncFaults' \in 0 .. MaxSyncFaults
      /\ UNCHANGED <<config, used, streak, overtaken>>
  BY DEF Dies, SyncInv, SyncTypeOK
<1>2. /\ pc' \in [Workers -> SyncCalls] /\ mine' \in [Workers -> Configs \cup {Nil}]
      /\ claimed' \in [Workers -> CountsSet \cup {Nil}]
      /\ pc'[r] = "idle" /\ outlived' = outlived \ {r}
      /\ \A s \in Workers \ {r} :
            pc'[s] = pc[s] /\ mine'[s] = mine[s] /\ claimed'[s] = claimed[s]
  BY <1>1 DEF SyncInv, SyncTypeOK, Idle, SyncCalls
<1>3. /\ row' \in SourceRows \cup {Nil} /\ (row' = Nil <=> row = Nil)
      /\ row' # Nil =>
           /\ row'.lease = IF row.lease = r THEN "orphan" ELSE row.lease
           /\ row'.hash = row.hash /\ row'.failures = row.failures
           /\ (row'.paused => row'.failures = PauseAfter)
  <2>1. CASE row # Nil /\ row.lease = r
    <3>1. row \in SourceRows /\ row' = [row EXCEPT !.lease = "orphan"]
      BY <2>1 DEF Dies, SyncInv, SyncTypeOK
    <3> QED BY <2>1, <3>1, LapseInv
  <2>2. CASE ~(row # Nil /\ row.lease = r)
    BY <2>2 DEF Dies, SyncInv, SyncTypeOK
  <2> QED BY <2>1, <2>2
<1>4. SyncTypeOK'
  <2>1. outlived' \cup robbed' \subseteq {s \in Workers : InFlight(s)'}
    BY <1>1, <1>2 DEF SyncInv, SyncTypeOK
  <2>2. row' # Nil /\ row'.lease \in Workers => InFlight(row.lease)' /\ row'.lease \notin outlived'
    <3> SUFFICES ASSUME row' # Nil, row'.lease \in Workers
                 PROVE  InFlight(row.lease)' /\ row'.lease \notin outlived'
      OBVIOUS
    <3>1. row # Nil /\ row'.lease = row.lease /\ row.lease # r
      BY <1>3
    <3>2. row.lease \in Workers \ {r} /\ InFlight(row.lease) /\ row.lease \notin outlived
      BY <3>1 DEF SyncInv, SyncTypeOK
    <3> QED BY <1>2, <3>1, <3>2
  <2> QED BY <1>1, <1>2, <1>3, <2>1, <2>2 DEF SyncInv, SyncTypeOK, SyncCalls
<1>5. Leaseholding'
  BY <1>1, <1>2, <1>3 DEF SyncInv, Leaseholding
<1>6. Equipped' /\ Counted'
  BY <1>1, <1>2, <1>3 DEF SyncInv, Equipped, Counted
<1> QED BY <1>2, <1>4, <1>5, <1>6 DEF SyncInv

LEMMA OutlivesInv ==
    ASSUME SyncInv, NEW r \in Workers, Outlives(r)
    PROVE  SyncInv'
<1>1. /\ InFlight(r) /\ outlived' = outlived \cup {r}
      /\ UNCHANGED <<config, used, pc, mine, claimed, history, syncFaults>>
  BY DEF Outlives
<1>2. /\ row' \in SourceRows \cup {Nil} /\ (row' = Nil <=> row = Nil)
      /\ row' # Nil =>
           /\ row'.lease = IF row.lease = r THEN "over" ELSE row.lease
           /\ row'.hash = row.hash /\ row'.failures = row.failures
           /\ (row'.paused => row'.failures = PauseAfter)
  <2>1. CASE row # Nil /\ row.lease = r
    <3>1. row \in SourceRows /\ row' = [row EXCEPT !.lease = "over"]
      BY <2>1 DEF Outlives, SyncInv, SyncTypeOK
    <3> QED BY <2>1, <3>1, LapseInv
  <2>2. CASE ~(row # Nil /\ row.lease = r)
    BY <2>2 DEF Outlives, SyncInv, SyncTypeOK
  <2> QED BY <2>1, <2>2
<1>3. SyncTypeOK'
  BY <1>1, <1>2 DEF SyncInv, SyncTypeOK
<1>4. Leaseholding' /\ Equipped' /\ Counted'
  BY <1>1, <1>2 DEF SyncInv, Leaseholding, Equipped, Counted
<1> QED BY <1>1, <1>3, <1>4 DEF SyncInv

LEMMA OrphanInv ==
    ASSUME SyncInv, OrphanEnds
    PROVE  SyncInv'
<1>1. /\ row \in SourceRows /\ row.lease = "orphan" /\ row' = [row EXCEPT !.lease = "over"]
      /\ UNCHANGED <<config, used, runs, history, syncFaults>>
  BY DEF OrphanEnds, SyncInv, SyncTypeOK
<1>2. /\ row' \in SourceRows /\ row'.lease = "over" /\ row' # Nil
      /\ row'.hash = row.hash /\ row'.failures = row.failures
      /\ (row'.paused => row'.failures = PauseAfter)
  BY <1>1, LapseInv
<1>3. SyncTypeOK'
  BY <1>1, <1>2 DEF SyncInv, SyncTypeOK
<1>4. Leaseholding' /\ Equipped' /\ Counted'
  BY <1>1, <1>2, RowFacts DEF SyncInv, Leaseholding, Equipped, Counted
<1> QED BY <1>1, <1>3, <1>4 DEF SyncInv

LEMMA SyncTimeInv ==
    ASSUME SyncInv, DelayEnds \/ HourEnds \/ \E c \in Configs \cup {Nil} : Configure(c)
    PROVE  SyncInv'
<1>1. CASE DelayEnds
  <2>1. row \in SourceRows /\ row' = [row EXCEPT !.due = TRUE]
    BY <1>1 DEF DelayEnds, SyncInv, SyncTypeOK
  <2>2. /\ row' \in SourceRows /\ row'.lease = row.lease /\ row'.hash = row.hash
        /\ row'.failures = row.failures /\ row'.paused = row.paused
    BY <2>1 DEF SourceRows
  <2>3. Counted' /\ (row'.paused => row'.failures = PauseAfter)
    BY <1>1, <2>1, <2>2, RowFacts DEF DelayEnds, SyncInv, SyncTypeOK, Counted
  <2> QED BY <1>1, <2>1, <2>2, <2>3, SourceRowInv DEF DelayEnds, SyncInv, SyncTypeOK
<1>2. CASE HourEnds
  <2>1. SyncTypeOK'
    BY <1>2 DEF HourEnds, SyncInv, SyncTypeOK
  <2> QED BY <1>2, <2>1 DEF HourEnds, SyncInv, Leaseholding, Equipped, Counted
<1>3. ASSUME NEW c \in Configs \cup {Nil}, Configure(c) PROVE SyncInv'
  <2>1. SyncTypeOK'
    BY <1>3 DEF Configure, SyncInv, SyncTypeOK
  <2> QED BY <1>3, <2>1 DEF Configure, SyncInv, Leaseholding, Equipped, Counted
<1> QED BY <1>1, <1>2, <1>3

LEMMA ResumeInv ==
    ASSUME SyncInv, Resume
    PROVE  SyncInv'
<1>1. /\ row \in SourceRows
      /\ row' = [row EXCEPT !.paused = FALSE, !.failures = 0, !.hash = Nil]
      /\ streak' = NoCount
      /\ UNCHANGED <<config, used, runs, robbed, syncFaults>>
  BY DEF Resume, SyncInv, SyncTypeOK
<1>2. /\ row' \in SourceRows /\ row'.lease = row.lease
      /\ row'.failures = 0 /\ ~row'.paused
  <2>1. row' = [hash |-> Nil, failures |-> 0, paused |-> FALSE,
                due |-> row.due, lease |-> row.lease]
    BY <1>1 DEF SourceRows
  <2>2. row.due \in BOOLEAN /\ row.lease \in Workers \cup {Nil, "orphan", "over"}
    BY <1>1, RowFacts
  <2> QED BY <2>1, <2>2 DEF SourceRows
<1>3. Counted'
  BY <1>1, <1>2 DEF Counted, NoCount
<1> QED BY <1>1, <1>2, <1>3, SourceRowInv DEF SyncInv, SyncTypeOK

LEMMA SyncStepInv == SyncInv /\ [SyncNext]_syncVars => SyncInv'
<1> SUFFICES ASSUME SyncInv, [SyncNext]_syncVars PROVE SyncInv'
  OBVIOUS
<1>1. CASE UNCHANGED syncVars
  <2>1. SyncTypeOK'
    BY <1>1 DEF syncVars, SyncInv, SyncTypeOK
  <2> QED BY <1>1, <2>1 DEF syncVars, SyncInv, Leaseholding, Equipped, Counted
<1>2. ASSUME NEW r \in Workers,
             BeginPass(r) \/ RunNow(r) \/ Step(r) \/ Dies(r) \/ Outlives(r)
      PROVE  SyncInv'
  BY <1>2, BeginsInv, LoadInv, ForgetInv, ClaimInv, CountRunInv, FinishRunInv, RunDiesInv,
     OutlivesInv DEF Step
<1> QED BY <1>1, <1>2, OrphanInv, SyncTimeInv, ResumeInv DEF SyncNext

-----------------------------------------------------------------------------
(* Rows, runs and budgets keep their types; a lease in a row is of a run     *)
(* that is at it, and a paused row has failed as often as it takes.          *)
THEOREM SyncWellTyped == SyncSpec => []SyncTypeOK
<1>1. SyncInv => SyncTypeOK
  BY DEF SyncInv
<1> QED BY <1>1, SyncInitInv, SyncStepInv, PTL DEF SyncSpec

(* However many passes and runs by hand there are, two runs are at one       *)
(* source only when one has overstayed its lease or had it given away.       *)
THEOREM SourcesRunOnce == SyncSpec => []OneRunAtATime
<1>1. SyncInv => OneRunAtATime
  BY DEF SyncInv, Leaseholding, OneRunAtATime
<1> QED BY <1>1, SyncInitInv, SyncStepInv, PTL DEF SyncSpec

(* A source is paused only after as many failures in a row of the config it  *)
(* has been paused for, unless an overlapping outcome was computed from an   *)
(* older row.                                                                *)
THEOREM PausesAreEarned == SyncSpec => []PauseIsEarned
<1>1. ASSUME SyncInv PROVE PauseIsEarned
  <2> SUFFICES ASSUME row # Nil, row.paused, ~overtaken
               PROVE  streak.of = row.hash /\ streak.n >= PauseAfter
    BY DEF PauseIsEarned
  <2>1. row.failures = PauseAfter
    BY <1>1 DEF SyncInv, SyncTypeOK
  <2> QED BY <1>1, <2>1 DEF SyncInv, Counted
<1>2. SyncInv => PauseIsEarned
  BY <1>1
<1> QED BY <1>2, SyncInitInv, SyncStepInv, PTL DEF SyncSpec
=============================================================================
