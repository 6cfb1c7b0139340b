----------------------------- MODULE JobRunner ------------------------------
(***************************************************************************)
(* The processes that drain the job queue: the claim, execute and finish   *)
(* cycle of leader_loop (server/src/worker.rs) over the statements of      *)
(* JobQueue, next to the planner's enqueue, the hourly prune and the       *)
(* operator's `jobs --retry-failed`.                                       *)
(*                                                                         *)
(* Which process may run the cycle is the subject of module Ingester; here *)
(* any process may, because the queue has to be safe on its own: the lease *)
(* and the attempt number, not the leadership, decide who settles a job.   *)
(*                                                                         *)
(* A process outside Suspendable keeps the time limits of its own runtime: *)
(* it times its job out at JobTimeout and settles within Slack of that.  A *)
(* process in Suspendable may sleep through both (a paused machine, a      *)
(* stalled connection) and act late.                                       *)
(***************************************************************************)
EXTENDS JobQueue

CONSTANTS
    Workers,      \* processes that run the worker
    Suspendable,  \* those that may stall for any time
    JobTimeout,   \* limit on the execution of one job
    Slack,        \* time the statements before and after it may take
    PlanWindow,   \* time for which the planner produces the same key
    AllowRetry,   \* whether the operator uses --retry-failed
    NoKey,        \* no job
    Nobody        \* no process

ASSUME RunnerAssumption ==
    /\ Suspendable \subseteq Workers
    /\ JobTimeout \in Nat \ {0}
    /\ Slack \in Nat
    /\ JobTimeout + Slack < Lease
    /\ PlanWindow \in Nat
    /\ PlanWindow <= Retention
    /\ AllowRetry \in BOOLEAN
    /\ NoKey \notin Keys
    /\ Nobody \notin Workers

VARIABLES
    window,   \* key -> time the planner will still produce it, Ahead before it begins
    phase,    \* process -> where it is in leader_loop
    work,     \* process -> the claimed Job it holds in memory
    creditor  \* history: key -> the process whose claim or verdict stands last

runnerVars == <<window, phase, work, creditor>>
vars == <<jobs, window, phase, work, creditor>>

Ahead == PlanWindow + 1
Deadline == JobTimeout + Slack

Phase == {"down", "idle", "swept", "working", "settling"}
Job == [key: Keys \cup {NoKey}, attempt: Nat, elapsed: Nat, ok: BOOLEAN]
NoJob == [key |-> NoKey, attempt |-> 0, elapsed |-> 0, ok |-> FALSE]

Busy(w) == phase[w] \in {"working", "settling"}
Timely == Workers \ Suspendable

TypeOK ==
    /\ jobs \in [Keys -> Row]
    /\ window \in [Keys -> 0..Ahead]
    /\ phase \in [Workers -> Phase]
    /\ work \in [Workers -> Job]
    /\ \A w \in Workers : Busy(w) => work[w].key \in Keys /\ work[w].attempt >= 1
    /\ creditor \in [Keys -> Workers \cup {Nobody}]

Init ==
    /\ QueueInit
    /\ window = [k \in Keys |-> Ahead]
    /\ phase = [w \in Workers |-> "down"]
    /\ work = [w \in Workers |-> NoJob]
    /\ creditor = [k \in Keys |-> Nobody]

-----------------------------------------------------------------------------
(* The planner, the operator and the hourly prune *)

Enqueue(k) ==
    /\ window[k] > 0
    /\ Insert(k)
    /\ window' = [window EXCEPT ![k] = AtMost(PlanWindow, @)]
    /\ UNCHANGED <<phase, work, creditor>>

RetryFailed ==
    /\ AllowRetry
    /\ RetryRows
    /\ UNCHANGED runnerVars

Prune ==
    /\ PruneRows
    /\ creditor' = [k \in Keys |-> IF Prunable(jobs[k]) THEN Nobody ELSE creditor[k]]
    /\ UNCHANGED <<window, phase, work>>

-----------------------------------------------------------------------------
(* One process *)

Start(w) ==
    /\ phase[w] = "down"
    /\ phase' = [phase EXCEPT ![w] = "idle"]
    /\ UNCHANGED <<jobs, window, work, creditor>>

\* The first statement of claim.
Sweep(w) ==
    /\ phase[w] = "idle"
    /\ ReclaimExpired
    /\ creditor' = [k \in Keys |-> IF Expired(jobs[k]) THEN Nobody ELSE creditor[k]]
    /\ phase' = [phase EXCEPT ![w] = "swept"]
    /\ UNCHANGED <<window, work>>

\* The second statement of claim, when it returns a row.
Take(w) ==
    /\ phase[w] = "swept"
    /\ \E k \in NextReady :
         /\ ClaimRow(k)
         /\ work' = [work EXCEPT ![w] = [NoJob EXCEPT !.key = k,
                                                      !.attempt = jobs[k].attempts + 1]]
         /\ creditor' = [creditor EXCEPT ![k] = w]
    /\ phase' = [phase EXCEPT ![w] = "working"]
    /\ UNCHANGED window

\* The second statement of claim, when nothing is ready: two seconds' sleep.
TakeNothing(w) ==
    /\ phase[w] = "swept"
    /\ NextReady = {}
    /\ phase' = [phase EXCEPT ![w] = "idle"]
    /\ UNCHANGED <<jobs, window, work, creditor>>

\* noaa.execute returns.  A future that is ready when it is polled wins over
\* the timer, so a process that wakes up late may still report success.
Complete(w) ==
    /\ phase[w] = "working"
    /\ \E ok \in BOOLEAN : work' = [work EXCEPT ![w].ok = ok]
    /\ phase' = [phase EXCEPT ![w] = "settling"]
    /\ UNCHANGED <<jobs, window, creditor>>

Timeout(w) ==
    /\ phase[w] = "working"
    /\ work[w].elapsed >= JobTimeout
    /\ phase' = [phase EXCEPT ![w] = "settling"]
    /\ UNCHANGED <<jobs, window, work, creditor>>

Held(w) == LeaseHeld(work[w].key, work[w].attempt)

Finish(w) ==
    /\ phase[w] = "settling"
    /\ Held(w)
    /\ FinishRow(work[w].key, work[w].attempt, work[w].ok)
    /\ creditor' = [creditor EXCEPT ![work[w].key] = w]
    /\ phase' = [phase EXCEPT ![w] = "idle"]
    /\ work' = [work EXCEPT ![w] = NoJob]
    /\ UNCHANGED window

\* "Job lease lost before completion": the error ends the worker, and the
\* worker's end ends the process.
FinishRefused(w) ==
    /\ phase[w] = "settling"
    /\ ~Held(w)
    /\ phase' = [phase EXCEPT ![w] = "down"]
    /\ work' = [work EXCEPT ![w] = NoJob]
    /\ UNCHANGED <<jobs, window, creditor>>

\* The process is killed or stopped, or a statement of the cycle fails.
Crash(w) ==
    /\ phase[w] # "down"
    /\ phase' = [phase EXCEPT ![w] = "down"]
    /\ work' = [work EXCEPT ![w] = NoJob]
    /\ UNCHANGED <<jobs, window, creditor>>

-----------------------------------------------------------------------------
(* Time *)

MayWait(w) ==
    /\ phase[w] = "working" => work[w].elapsed < JobTimeout
    /\ phase[w] = "settling" => work[w].elapsed < Deadline

Older(job) == [job EXCEPT !.elapsed = AtMost(Deadline, @ + 1)]

Tick ==
    /\ \A w \in Timely : MayWait(w)
    /\ Elapse
    /\ window' = [k \in Keys |-> IF window[k] = Ahead THEN Ahead ELSE AtLeast(0, window[k] - 1)]
    /\ work' = [w \in Workers |-> IF Busy(w) THEN Older(work[w]) ELSE work[w]]
    /\ UNCHANGED <<phase, creditor>>

-----------------------------------------------------------------------------
Cycle(w) ==
    \/ Start(w) \/ Sweep(w) \/ Take(w) \/ TakeNothing(w)
    \/ Complete(w) \/ Timeout(w) \/ Finish(w) \/ FinishRefused(w)

Next ==
    \/ \E k \in Keys : Enqueue(k)
    \/ RetryFailed
    \/ Prune
    \/ \E w \in Workers : Cycle(w) \/ Crash(w)
    \/ Tick

Spec == Init /\ [][Next]_vars

(* The clock runs, the supervisor restarts a process that has ended, and a  *)
(* running process is scheduled.  Sweep and Take are strongly fair: a       *)
(* process killed again and again still completes a claim now and then.     *)
Fairness ==
    /\ WF_vars(Tick)
    /\ \A w \in Workers :
         /\ WF_vars(Start(w))
         /\ SF_vars(Sweep(w))
         /\ SF_vars(Take(w) \/ TakeNothing(w))
         /\ WF_vars(Complete(w) \/ Timeout(w))
         /\ WF_vars(Finish(w) \/ FinishRefused(w))

LiveSpec == Spec /\ Fairness

-----------------------------------------------------------------------------
(* Properties *)

\* No two processes execute or settle the same job at once, as long as every
\* process keeps its own time limits: the lease of claim outlives the
\* four-minute limit of leader_loop and the statements around it.
OneExecutor ==
    \A v, w \in Timely :
        Busy(v) /\ Busy(w) /\ v # w => work[v].key # work[w].key

\* A process that keeps its time limits never meets "Job lease lost before
\* completion": neither the sweep of another process, nor the prune, nor the
\* operator's retry takes the row from under its claim.
LeaseOutlivesWork == \A w \in Timely : Busy(w) => Held(w)

\* The attempt number fences: however late a process settles, finish accepts
\* its verdict only if no later claim was made on that job.
VerdictIsFenced ==
    \A w \in Workers : Busy(w) /\ Held(w) => creditor[work[w].key] = w

\* The attempts are spent exactly at the limit, by whichever of finish and the
\* sweep meets it: a row waiting for a claim has one left, and a row is given
\* up only when none is left.
AttemptBudget ==
    \A k \in Keys :
        /\ jobs[k].status = "pending" => jobs[k].attempts < MaxAttempts
        /\ jobs[k].status = "running" => jobs[k].attempts \in 1..MaxAttempts
        /\ jobs[k].status = "failed" => jobs[k].attempts = MaxAttempts

\* Every job reaches an end, though processes crash at any point and as often
\* as they like: a job that kills its process each time is given up as well.
JobsSettle ==
    \A k \in Keys :
        jobs[k].status \in {"pending", "running"}
            ~> jobs[k].status \in {"succeeded", "failed", "absent"}

-----------------------------------------------------------------------------
(* The queue and its processes implement the ledger of tasks *)

LedgerState(k) ==
    CASE jobs[k].status = "absent" -> IF window[k] = Ahead THEN "new" ELSE "gone"
      [] jobs[k].status = "pending" -> "queued"
      [] jobs[k].status = "running" -> "active"
      [] jobs[k].status = "succeeded" -> "done"
      [] jobs[k].status = "failed" -> "dead"

Ledger == INSTANCE TaskLedger WITH
    Tasks <- Keys, Holders <- Workers, MaxTries <- MaxAttempts,
    state <- [k \in Keys |-> LedgerState(k)],
    holder <- creditor,
    tries <- [k \in Keys |-> jobs[k].attempts]

\* Each key is downloaded once: it is posted once, its verdict is final and is
\* that of the process it was handed to, and neither the planner's repeated
\* ON CONFLICT DO NOTHING inserts nor the prune bring a finished key back.
ImplementsLedger == Ledger!Spec

=============================================================================
