---------------------------- MODULE JobSchedule ----------------------------
(***************************************************************************)
(* What docs/MODULES.md ("How core runs them") promises of the scheduled    *)
(* jobs, whatever replicas, leases, timeouts and crashes there are: a job   *)
(* runs once at a time, starts only when it is due by its last run, and     *)
(* every run that ends counts once, as a success or as one failure more.    *)
(***************************************************************************)
EXTENDS Integers

CONSTANTS
    Jobs,          \* server jobs, and the apps of app jobs
    None,
    Wait,          \* the delay of a job after so many failures in a row
    MaxFailures,   \* failures in a row past which it no longer grows
    MaxAge,        \* the longest delay
    Late           \* how late a run's end may be recorded

VARIABLES
    last,          \* a job's last run and how long ago it ended, None before it
    running        \* the jobs a run of which is on

vars == <<last, running>>

Aged(l)  == IF l = None \/ l.age = MaxAge THEN l ELSE [l EXCEPT !.age = @ + 1]
Count(l) == IF l = None THEN 0 ELSE l.failures
More(n)  == IF n = MaxFailures THEN n ELSE n + 1

Init == last = [j \in Jobs |-> None] /\ running = {}

Start(j) ==
    /\ j \notin running
    /\ last[j] # None => last[j].age >= Wait[j][last[j].failures]
    /\ running' = running \cup {j}
    /\ UNCHANGED last

End(j) ==
    /\ j \in running
    /\ running' = running \ {j}
    /\ \E age \in 0..Late, n \in {0, More(Count(last[j]))} :
          last' = [last EXCEPT ![j] = [age |-> age, failures |-> n]]

\* Their process stopped, or an end could not be recorded.
Lose(jobs) ==
    /\ jobs \subseteq running
    /\ running' = running \ jobs
    /\ UNCHANGED last

TimePasses ==
    /\ last' = [j \in Jobs |-> Aged(last[j])]
    /\ UNCHANGED running

Next ==
    \/ TimePasses
    \/ \E j \in Jobs : Start(j) \/ End(j)
    \/ \E jobs \in SUBSET Jobs : Lose(jobs)

Spec == Init /\ [][Next]_vars
=============================================================================
