-------------------------- MODULE JobRunner_proofs --------------------------
(***************************************************************************)
(* Theorems about JobRunner, for every set of keys and processes and every *)
(* value of the time limits that RunnerAssumption admits.                  *)
(***************************************************************************)
EXTENDS JobRunner, TLAPS

-----------------------------------------------------------------------------
(* The statements of the queue keep a row a row *)

LEMMA NewRowIsRow == NoRow \in Row /\ NewRow \in Row
BY DEF NoRow, NewRow, Row, Status

LEMMA StatusNames ==
  /\ \A n \in Nat : StatusAfterFailure(n) \in Status
  /\ "absent" \in Status /\ "pending" \in Status /\ "running" \in Status
  /\ "succeeded" \in Status /\ "failed" \in Status
BY DEF StatusAfterFailure, Status

LEMMA RowUpdate ==
  ASSUME NEW row \in Row, NEW s \in Status, NEW n \in Nat, NEW d \in Int, NEW l \in Int
  PROVE  /\ [row EXCEPT !.status = s, !.lease = l] \in Row
         /\ [row EXCEPT !.status = s, !.wait = d, !.lease = l] \in Row
         /\ [row EXCEPT !.status = s, !.attempts = n, !.wait = d] \in Row
         /\ [row EXCEPT !.status = s, !.attempts = n, !.lease = l] \in Row
BY DEF Row

LEMMA ReclaimedIsRow == ASSUME NEW row \in Row PROVE Reclaimed(row) \in Row
<1>1. row.attempts \in Nat /\ 0 \in Int
  BY DEF Row
<1> QED
  BY <1>1, StatusNames, RowUpdate, Zenon DEF Reclaimed

LEMMA ClaimedIsRow == ASSUME NEW row \in Row PROVE Claimed(row) \in Row
<1>1. row.attempts + 1 \in Nat /\ Lease \in Int
  BY QueueAssumption DEF Row
<1> QED
  BY <1>1, StatusNames, RowUpdate, Zenon DEF Claimed

LEMMA BackoffIsNat == ASSUME NEW n \in Nat, n >= 1 PROVE Backoff(n) \in Nat
<1> DEFINE m == AtMost(7, n)
<1>1. m \in 1..7
  BY DEF AtMost
<1>2. PowerOfTwo[m] \in Nat
  BY <1>1 DEF PowerOfTwo
<1>3. BackoffUnit * PowerOfTwo[m] \in Nat
  BY <1>2, QueueAssumption
<1> QED
  BY <1>3, QueueAssumption DEF Backoff, AtMost

LEMMA SucceededIsRow == ASSUME NEW row \in Row PROVE Succeeded(row) \in Row
<1>1. 0 \in Int
  OBVIOUS
<1> QED
  BY <1>1, StatusNames, RowUpdate, Zenon DEF Succeeded

LEMMA FailedIsRow ==
  ASSUME NEW row \in Row, NEW n \in Nat, n >= 1
  PROVE  Failed(row, n) \in Row
<1> DEFINE next == StatusAfterFailure(n)
           wait == IF next = "pending" THEN Backoff(n) ELSE 0
<1>1. next \in Status
  BY StatusNames
<1>2. wait \in Int /\ 0 \in Int
  <2>1. Backoff(n) \in Int
    BY BackoffIsNat
  <2> HIDE DEF next
  <2> QED
    BY <2>1
<1>3. Failed(row, n) = [row EXCEPT !.status = next, !.wait = wait, !.lease = 0]
  BY DEF Failed
<1> HIDE DEF next, wait
<1>4. [row EXCEPT !.status = next, !.wait = wait, !.lease = 0] \in Row
  BY <1>1, <1>2, RowUpdate, Zenon
<1> QED
  BY <1>3, <1>4, Zenon

LEMMA RetriedIsRow == ASSUME NEW row \in Row PROVE Retried(row) \in Row
<1>1. 0 \in Nat /\ 0 \in Int
  OBVIOUS
<1> QED
  BY <1>1, StatusNames, RowUpdate, Zenon DEF Retried

LEMMA ElapsedIsRow == ASSUME NEW row \in Row PROVE Elapsed(row) \in Row
<1> DEFINE wait == IF row.status \in {"pending", "running"}
                     THEN AtLeast(-MaxOverdue, row.wait - 1) ELSE row.wait
           lease == IF row.status = "running" THEN AtLeast(-1, row.lease - 1) ELSE row.lease
           age == IF row.status = "absent" THEN row.age ELSE AtMost(Retention + 1, row.age + 1)
<1>1. wait \in Int /\ lease \in Int /\ age \in Nat
  BY QueueAssumption DEF Row, AtLeast, AtMost
<1>2. Elapsed(row) = [row EXCEPT !.wait = wait, !.lease = lease, !.age = age]
  BY DEF Elapsed
<1> HIDE DEF wait, lease, age
<1> QED
  BY <1>1, <1>2 DEF Row

-----------------------------------------------------------------------------
(* Types *)

LEMMA InitTypeOK == Init => TypeOK
BY NewRowIsRow, RunnerAssumption
   DEF Init, QueueInit, TypeOK, NoJob, Job, Phase, Ahead, Busy

LEMMA StepTypeOK == TypeOK /\ [Next]_vars => TypeOK'
<1> SUFFICES ASSUME TypeOK, [Next]_vars PROVE TypeOK'
  OBVIOUS
<1> USE DEF TypeOK, Busy
<1>1. ASSUME NEW k \in Keys, Enqueue(k) PROVE TypeOK'
  BY <1>1, NewRowIsRow, RunnerAssumption DEF Enqueue, Insert, AtMost, Ahead
<1>2. CASE RetryFailed
  BY <1>2, RetriedIsRow DEF RetryFailed, RetryRows, runnerVars
<1>3. CASE Prune
  BY <1>3, NewRowIsRow DEF Prune, PruneRows
<1>4. ASSUME NEW w \in Workers, Start(w) PROVE TypeOK'
  BY <1>4 DEF Start, Phase
<1>5. ASSUME NEW w \in Workers, Sweep(w) PROVE TypeOK'
  BY <1>5, ReclaimedIsRow DEF Sweep, ReclaimExpired, Phase
<1>6. ASSUME NEW w \in Workers, Take(w) PROVE TypeOK'
  <2>1. PICK k \in Keys :
          /\ jobs' = [jobs EXCEPT ![k] = Claimed(@)]
          /\ work' = [work EXCEPT ![w] = [NoJob EXCEPT !.key = k,
                                                       !.attempt = jobs[k].attempts + 1]]
          /\ creditor' = [creditor EXCEPT ![k] = w]
    BY <1>6 DEF Take, ClaimRow, NextReady
  <2>2. jobs[k] \in Row /\ jobs[k].attempts \in Nat
    BY DEF Row
  <2>3. jobs' \in [Keys -> Row]
    BY <2>1, <2>2, ClaimedIsRow
  <2>4. work'[w] = [key |-> k, attempt |-> jobs[k].attempts + 1, elapsed |-> 0, ok |-> FALSE]
    BY <2>1 DEF NoJob
  <2>5. work'[w] \in Job /\ work'[w].key \in Keys /\ work'[w].attempt >= 1
    BY <2>4, <2>2 DEF Job
  <2>6. /\ window' \in [Keys -> 0..Ahead]
        /\ phase' = [phase EXCEPT ![w] = "working"]
    BY <1>6 DEF Take
  <2> QED
    BY <2>1, <2>3, <2>5, <2>6 DEF Phase
<1>7. ASSUME NEW w \in Workers, TakeNothing(w) PROVE TypeOK'
  BY <1>7 DEF TakeNothing, Phase
<1>8. ASSUME NEW w \in Workers, Complete(w) PROVE TypeOK'
  BY <1>8 DEF Complete, Phase, Job
<1>9. ASSUME NEW w \in Workers, Timeout(w) PROVE TypeOK'
  BY <1>9 DEF Timeout, Phase
<1>10. ASSUME NEW w \in Workers, Finish(w) PROVE TypeOK'
  <2> DEFINE k == work[w].key
             n == work[w].attempt
  <2>1. k \in Keys /\ n \in Nat /\ n >= 1
    BY <1>10 DEF Finish, Job
  <2>2. /\ Succeeded(jobs[k]) \in Row
        /\ Failed(jobs[k], n) \in Row
    BY <2>1, SucceededIsRow, FailedIsRow
  <2>3. jobs' \in [Keys -> Row]
    BY <1>10, <2>1, <2>2 DEF Finish, FinishRow
  <2>4. NoJob \in Job
    BY DEF NoJob, Job
  <2> QED
    BY <1>10, <2>1, <2>3, <2>4 DEF Finish, Phase
<1>11. ASSUME NEW w \in Workers, FinishRefused(w) PROVE TypeOK'
  BY <1>11 DEF FinishRefused, Phase, NoJob, Job
<1>12. ASSUME NEW w \in Workers, Crash(w) PROVE TypeOK'
  BY <1>12 DEF Crash, Phase, NoJob, Job
<1>13. CASE Tick
  <2>1. jobs' \in [Keys -> Row]
    BY <1>13, ElapsedIsRow DEF Tick, Elapse
  <2>2. window' \in [Keys -> 0..Ahead]
    BY <1>13, RunnerAssumption DEF Tick, AtLeast, Ahead
  <2>3. \A w \in Workers : Older(work[w]) \in Job /\ Older(work[w]).key = work[w].key
                             /\ Older(work[w]).attempt = work[w].attempt
    BY RunnerAssumption DEF Older, Job, AtMost, Deadline
  <2>4. work' \in [Workers -> Job]
    BY <1>13, <2>3 DEF Tick
  <2>5. \A w \in Workers : work'[w].key = work[w].key /\ work'[w].attempt = work[w].attempt
    BY <1>13, <2>3 DEF Tick
  <2>6. UNCHANGED <<phase, creditor>>
    BY <1>13 DEF Tick
  <2> QED
    BY <2>1, <2>2, <2>4, <2>5, <2>6
<1>14. CASE UNCHANGED vars
  BY <1>14 DEF vars
<1> QED
  BY <1>1, <1>2, <1>3, <1>4, <1>5, <1>6, <1>7, <1>8, <1>9, <1>10, <1>11, <1>12, <1>13, <1>14
     DEF Next, Cycle

\* Every variable stays within its type in every behaviour; in particular a
\* busy process holds a real job under an attempt number of at least one.
THEOREM TypeCorrect == Spec => []TypeOK
BY InitTypeOK, StepTypeOK, PTL DEF Spec


-----------------------------------------------------------------------------
(* Processes that keep their time limits                                   *)
(*                                                                         *)
(* LeaseOutlivesWork is not inductive by itself: a sweep could take the    *)
(* row from under a claim unless its lease is known to run still.          *)
(* LeaseClock ties the lease of the row to the age of the claim.           *)

LeaseClock ==
    \A w \in Timely :
        Busy(w) => /\ jobs[work[w].key].lease = Lease - work[w].elapsed
                   /\ work[w].elapsed <= Deadline
                   /\ phase[w] = "working" => work[w].elapsed <= JobTimeout

TimelyInv == LeaseOutlivesWork /\ LeaseClock /\ OneExecutor

LEMMA TimelyInit == Init => TimelyInv
BY DEF Init, TimelyInv, LeaseOutlivesWork, LeaseClock, OneExecutor, Busy, Timely

\* The lease of a timely claim runs, so no statement but its own finish
\* chooses its row.
LEMMA HeldRowIsSafe ==
  ASSUME TypeOK, TimelyInv, NEW w \in Timely, Busy(w)
  PROVE  /\ w \in Workers
         /\ work[w].key \in Keys
         /\ work[w].attempt \in Nat
         /\ work[w].elapsed \in Nat
         /\ jobs[work[w].key].status = "running"
         /\ jobs[work[w].key].attempts = work[w].attempt
         /\ jobs[work[w].key].lease > 0
         /\ ~Expired(jobs[work[w].key])
         /\ ~Prunable(jobs[work[w].key])
<1>1. w \in Workers
  BY DEF Timely
<1>2. /\ work[w].key \in Keys
      /\ work[w].attempt \in Nat
      /\ work[w].elapsed \in Nat
  BY <1>1 DEF TypeOK, Job
<1>3. Held(w) /\ jobs[work[w].key].lease = Lease - work[w].elapsed /\ work[w].elapsed <= Deadline
  BY DEF TimelyInv, LeaseOutlivesWork, LeaseClock
<1>4. jobs[work[w].key].lease > 0
  BY <1>2, <1>3, QueueAssumption, RunnerAssumption DEF Deadline
<1>5. ~(jobs[work[w].key].lease < 0)
  BY <1>2, <1>3, <1>4, QueueAssumption
<1> QED
  BY <1>1, <1>2, <1>3, <1>4, <1>5 DEF Held, LeaseHeld, Expired, Prunable

\* A step that leaves the rows of timely claims alone, and gives no timely
\* process a claim, preserves the invariant.
LEMMA Undisturbed ==
  ASSUME TypeOK, TimelyInv,
         \A w \in Timely : Busy(w)' =>
            /\ Busy(w)
            /\ work'[w].key = work[w].key
            /\ work'[w].attempt = work[w].attempt
            /\ work'[w].elapsed = work[w].elapsed
            /\ phase'[w] = "working" => phase[w] = "working"
            /\ jobs'[work[w].key] = jobs[work[w].key]
  PROVE  TimelyInv'
<1>1. LeaseOutlivesWork' /\ LeaseClock'
  BY DEF TimelyInv, LeaseOutlivesWork, LeaseClock, Held, LeaseHeld
<1>2. OneExecutor'
  BY DEF TimelyInv, OneExecutor
<1> QED
  BY <1>1, <1>2 DEF TimelyInv

\* Only a process that stalls can settle a row that another one holds.
LEMMA OneSettler ==
  ASSUME TypeOK, TimelyInv, Suspendable = {} \/ VerdictIsFenced,
         NEW w \in Workers, Busy(w), Held(w),
         NEW v \in Timely, Busy(v), v # w
  PROVE  work[v].key # work[w].key
<1>1. CASE Suspendable = {}
  BY <1>1 DEF TimelyInv, OneExecutor, Timely
<1>2. CASE VerdictIsFenced
  <2>1. creditor[work[w].key] = w
    BY <1>2 DEF VerdictIsFenced
  <2>2. v \in Workers /\ Held(v)
    BY DEF TimelyInv, LeaseOutlivesWork, Timely
  <2>3. creditor[work[v].key] = v
    BY <1>2, <2>2 DEF VerdictIsFenced
  <2> QED
    BY <2>1, <2>3
<1> QED
  BY <1>1, <1>2

LEMMA TimelyStep ==
  ASSUME TypeOK, TimelyInv, Suspendable = {} \/ VerdictIsFenced, [Next]_vars
  PROVE  TimelyInv'
<1>0. \A w \in Timely : Busy(w) =>
        /\ w \in Workers
        /\ work[w].key \in Keys
        /\ jobs[work[w].key].status = "running"
        /\ ~Expired(jobs[work[w].key])
        /\ ~Prunable(jobs[work[w].key])
  BY HeldRowIsSafe
<1>1. ASSUME NEW k \in Keys, Enqueue(k) PROVE TimelyInv'
  <2>1. \A l \in Keys : jobs[l].status = "running" => jobs'[l] = jobs[l]
    BY <1>1 DEF Enqueue, Insert, Insertable, TypeOK
  <2>2. UNCHANGED <<phase, work>>
    BY <1>1 DEF Enqueue
  <2> QED
    BY <1>0, <2>1, <2>2, Undisturbed DEF Busy
<1>2. CASE RetryFailed
  <2>1. \A l \in Keys : jobs[l].status = "running" => jobs'[l] = jobs[l]
    BY <1>2 DEF RetryFailed, RetryRows
  <2>2. UNCHANGED <<phase, work>>
    BY <1>2 DEF RetryFailed, runnerVars
  <2> QED
    BY <1>0, <2>1, <2>2, Undisturbed DEF Busy
<1>3. CASE Prune
  <2>1. \A l \in Keys : ~Prunable(jobs[l]) => jobs'[l] = jobs[l]
    BY <1>3 DEF Prune, PruneRows
  <2>2. UNCHANGED <<phase, work>>
    BY <1>3 DEF Prune
  <2> QED
    BY <1>0, <2>1, <2>2, Undisturbed DEF Busy
<1>4. ASSUME NEW w \in Workers, Start(w) PROVE TimelyInv'
  <2>1. /\ UNCHANGED <<jobs, work>>
        /\ phase' = [phase EXCEPT ![w] = "idle"]
    BY <1>4 DEF Start
  <2> QED
    BY <1>0, <2>1, Undisturbed DEF Busy, TypeOK
<1>5. ASSUME NEW w \in Workers, Sweep(w) PROVE TimelyInv'
  <2>1. \A l \in Keys : ~Expired(jobs[l]) => jobs'[l] = jobs[l]
    BY <1>5 DEF Sweep, ReclaimExpired
  <2>2. /\ UNCHANGED work
        /\ phase' = [phase EXCEPT ![w] = "swept"]
    BY <1>5 DEF Sweep
  <2> QED
    BY <1>0, <2>1, <2>2, Undisturbed DEF Busy, TypeOK
<1>6. ASSUME NEW w \in Workers, Take(w) PROVE TimelyInv'
  <2>1. PICK k \in Keys :
          /\ jobs[k].status = "pending"
          /\ jobs' = [jobs EXCEPT ![k] = Claimed(@)]
          /\ work' = [work EXCEPT ![w] = [NoJob EXCEPT !.key = k,
                                                       !.attempt = jobs[k].attempts + 1]]
    BY <1>6 DEF Take, ClaimRow, NextReady, Ready
  <2>2. phase' = [phase EXCEPT ![w] = "working"]
    BY <1>6 DEF Take
  <2>3. /\ jobs'[k].status = "running"
        /\ jobs'[k].attempts = jobs[k].attempts + 1
        /\ jobs'[k].lease = Lease
    BY <2>1 DEF Claimed, TypeOK, Row
  <2>4. /\ work'[w].key = k
        /\ work'[w].attempt = jobs[k].attempts + 1
        /\ work'[w].elapsed = 0
    BY <2>1 DEF NoJob, TypeOK
  <2>5. \A v \in Timely : v # w /\ Busy(v)' =>
          /\ Busy(v)
          /\ work'[v] = work[v]
          /\ phase'[v] = phase[v]
          /\ work[v].key # k
          /\ jobs'[work[v].key] = jobs[work[v].key]
    BY <1>0, <2>1, <2>2 DEF Busy, TypeOK
  <2>6. LeaseOutlivesWork'
    BY <2>3, <2>4, <2>5 DEF TimelyInv, LeaseOutlivesWork, Held, LeaseHeld
  <2>7. LeaseClock'
    <3>1. SUFFICES ASSUME NEW v \in Timely, Busy(v)'
                   PROVE  /\ jobs'[work'[v].key].lease = Lease - work'[v].elapsed
                          /\ work'[v].elapsed <= Deadline
                          /\ phase'[v] = "working" => work'[v].elapsed <= JobTimeout
      BY DEF LeaseClock
    <3>2. CASE v = w
      BY <3>2, <2>3, <2>4, QueueAssumption, RunnerAssumption DEF Deadline
    <3>3. CASE v # w
      BY <3>1, <3>3, <2>5 DEF TimelyInv, LeaseClock
    <3> QED
      BY <3>2, <3>3
  <2>8. OneExecutor'
    BY <2>4, <2>5 DEF TimelyInv, OneExecutor
  <2> QED
    BY <2>6, <2>7, <2>8 DEF TimelyInv
<1>7. ASSUME NEW w \in Workers, TakeNothing(w) PROVE TimelyInv'
  <2>1. /\ UNCHANGED <<jobs, work>>
        /\ phase' = [phase EXCEPT ![w] = "idle"]
    BY <1>7 DEF TakeNothing
  <2> QED
    BY <1>0, <2>1, Undisturbed DEF Busy, TypeOK
<1>8. ASSUME NEW w \in Workers, Complete(w) PROVE TimelyInv'
  <2>1. /\ UNCHANGED jobs
        /\ phase[w] = "working"
        /\ phase' = [phase EXCEPT ![w] = "settling"]
        /\ \E ok \in BOOLEAN : work' = [work EXCEPT ![w].ok = ok]
    BY <1>8 DEF Complete
  <2>2. \A v \in Workers : /\ work'[v].key = work[v].key
                           /\ work'[v].attempt = work[v].attempt
                           /\ work'[v].elapsed = work[v].elapsed
    BY <2>1 DEF TypeOK, Job
  <2> QED
    BY <1>0, <2>1, <2>2, Undisturbed DEF Busy, TypeOK, Timely
<1>9. ASSUME NEW w \in Workers, Timeout(w) PROVE TimelyInv'
  <2>1. /\ UNCHANGED <<jobs, work>>
        /\ phase[w] = "working"
        /\ phase' = [phase EXCEPT ![w] = "settling"]
    BY <1>9 DEF Timeout
  <2> QED
    BY <1>0, <2>1, Undisturbed DEF Busy, TypeOK, Timely
<1>10. ASSUME NEW w \in Workers, Finish(w) PROVE TimelyInv'
  <2>1. /\ Busy(w)
        /\ Held(w)
        /\ \A l \in Keys : l # work[w].key => jobs'[l] = jobs[l]
        /\ phase' = [phase EXCEPT ![w] = "idle"]
        /\ work' = [work EXCEPT ![w] = NoJob]
    BY <1>10 DEF Finish, FinishRow, TypeOK, Busy
  <2>2. \A v \in Timely : Busy(v) /\ v # w => work[v].key # work[w].key
    BY <2>1, OneSettler
  <2> QED
    BY <1>0, <2>1, <2>2, Undisturbed DEF Busy, TypeOK
<1>11. ASSUME NEW w \in Workers, FinishRefused(w) PROVE TimelyInv'
  <2>1. /\ UNCHANGED jobs
        /\ phase' = [phase EXCEPT ![w] = "down"]
        /\ work' = [work EXCEPT ![w] = NoJob]
    BY <1>11 DEF FinishRefused
  <2> QED
    BY <1>0, <2>1, Undisturbed DEF Busy, TypeOK
<1>12. ASSUME NEW w \in Workers, Crash(w) PROVE TimelyInv'
  <2>1. /\ UNCHANGED jobs
        /\ phase' = [phase EXCEPT ![w] = "down"]
        /\ work' = [work EXCEPT ![w] = NoJob]
    BY <1>12 DEF Crash
  <2> QED
    BY <1>0, <2>1, Undisturbed DEF Busy, TypeOK
<1>13. CASE Tick
  <2>1. SUFFICES ASSUME NEW w \in Timely, Busy(w)
                 PROVE  /\ work'[w].key = work[w].key
                        /\ jobs'[work[w].key].status = "running"
                        /\ jobs'[work[w].key].attempts = work'[w].attempt
                        /\ jobs'[work[w].key].lease = Lease - work'[w].elapsed
                        /\ work'[w].elapsed <= Deadline
                        /\ phase[w] = "working" => work'[w].elapsed <= JobTimeout
    <3>1. UNCHANGED phase
      BY <1>13 DEF Tick
    <3> QED
      BY <2>1, <3>1 DEF TimelyInv, LeaseOutlivesWork, LeaseClock, OneExecutor, Held, LeaseHeld, Busy
  <2> DEFINE k == work[w].key
             e == work[w].elapsed
  <2>2. /\ w \in Workers /\ k \in Keys /\ e \in Nat
        /\ jobs[k].status = "running"
        /\ jobs[k].attempts = work[w].attempt
        /\ jobs[k].lease > 0
    BY <2>1, HeldRowIsSafe
  <2>3. jobs[k].lease = Lease - e
    BY <2>1 DEF TimelyInv, LeaseClock
  <2>4. /\ phase[w] = "working" => e < JobTimeout
        /\ e < Deadline
    BY <1>13, <2>1, <2>2, RunnerAssumption DEF Tick, MayWait, Busy, Deadline
  <2>5. /\ work'[w].key = k
        /\ work'[w].attempt = work[w].attempt
        /\ work'[w].elapsed = e + 1
    <3>1. work'[w] = Older(work[w])
      BY <1>13, <2>1, <2>2 DEF Tick
    <3>2. work[w] \in Job
      BY <2>2 DEF TypeOK
    <3>3. AtMost(Deadline, e + 1) = e + 1
      BY <2>2, <2>4, RunnerAssumption DEF AtMost, Deadline
    <3> QED
      BY <3>1, <3>2, <3>3 DEF Older, Job
  <2>6. /\ jobs'[k].status = "running"
        /\ jobs'[k].attempts = jobs[k].attempts
        /\ jobs'[k].lease = jobs[k].lease - 1
    <3>1. jobs'[k] = Elapsed(jobs[k]) /\ jobs[k] \in Row
      BY <1>13, <2>2 DEF Tick, Elapse, TypeOK
    <3>2. AtLeast(-1, jobs[k].lease - 1) = jobs[k].lease - 1
      BY <2>2, <2>3, QueueAssumption DEF AtLeast
    <3> QED
      BY <2>2, <3>1, <3>2 DEF Elapsed, Row
  <2> QED
    BY <2>2, <2>3, <2>4, <2>5, <2>6, QueueAssumption, RunnerAssumption DEF Deadline
<1>14. CASE UNCHANGED vars
  BY <1>14, <1>0, Undisturbed DEF vars, Busy
<1> QED
  BY <1>1, <1>2, <1>3, <1>4, <1>5, <1>6, <1>7, <1>8, <1>9, <1>10, <1>11, <1>12, <1>13, <1>14
     DEF Next, Cycle

-----------------------------------------------------------------------------
(* Processes that stall, without the operator's retry                      *)
(*                                                                         *)
(* The attempt number fences because it only grows during the life of a    *)
(* row, and because the row is pruned only after the planner has stopped   *)
(* producing its key, so that no second row of that key starts again at    *)
(* zero.                                                                   *)

RowsNeverReturn ==
    \A k \in Keys :
        IF jobs[k].status = "absent"
          THEN window[k] \in {0, Ahead}
          ELSE window[k] = AtLeast(0, PlanWindow - jobs[k].age)

AttemptsOnlyGrow ==
    \A w \in Workers :
        Busy(w) => /\ window[work[w].key] # Ahead
                   /\ jobs[work[w].key].status # "absent" =>
                        work[w].attempt <= jobs[work[w].key].attempts

FenceInv == RowsNeverReturn /\ AttemptsOnlyGrow /\ VerdictIsFenced

LEMMA FenceInit == Init => FenceInv
BY DEF Init, QueueInit, NoRow, FenceInv, RowsNeverReturn, AttemptsOnlyGrow,
       VerdictIsFenced, Busy

LEMMA RowsNeverReturnStep ==
  ASSUME TypeOK, RowsNeverReturn, [Next]_vars
  PROVE  RowsNeverReturn'
<1> USE DEF RowsNeverReturn
<1>1. ASSUME NEW k \in Keys, Enqueue(k) PROVE RowsNeverReturn'
  <2>1. /\ window[k] \in 0..Ahead
        /\ window[k] > 0
        /\ window' = [window EXCEPT ![k] = AtMost(PlanWindow, @)]
        /\ jobs' = IF jobs[k].status = "absent" THEN [jobs EXCEPT ![k] = NewRow] ELSE jobs
    BY <1>1 DEF Enqueue, Insert, Insertable, TypeOK
  <2>2. \A l \in Keys : l # k => jobs'[l] = jobs[l] /\ window'[l] = window[l]
    BY <2>1 DEF TypeOK
  <2>3. CASE jobs[k].status = "absent"
    <3>1. jobs'[k] = NewRow /\ NewRow.status = "pending" /\ NewRow.age = 0
      BY <2>1, <2>3 DEF TypeOK, NewRow, NoRow
    <3>2. window[k] = Ahead
      BY <2>1, <2>3
    <3>3. window'[k] = PlanWindow
      BY <2>1, <3>2, RunnerAssumption DEF TypeOK, AtMost, Ahead
    <3>4. AtLeast(0, PlanWindow - 0) = PlanWindow
      BY RunnerAssumption DEF AtLeast
    <3> QED
      BY <2>2, <3>1, <3>3, <3>4
  <2>4. CASE jobs[k].status # "absent"
    <3>1. jobs[k].age \in Nat
      BY DEF TypeOK, Row
    <3>2. window[k] <= PlanWindow
      BY <2>1, <2>4, <3>1, RunnerAssumption DEF AtLeast
    <3>3. window'[k] = window[k]
      BY <2>1, <3>2, RunnerAssumption DEF TypeOK, AtMost
    <3> QED
      BY <2>1, <2>2, <2>4, <3>3
  <2> QED
    BY <2>3, <2>4
<1>2. CASE RetryFailed
  <2>1. \A k \in Keys : /\ jobs'[k].status = "absent" <=> jobs[k].status = "absent"
                        /\ jobs'[k].age = jobs[k].age
    BY <1>2 DEF RetryFailed, RetryRows, Retried, TypeOK, Row
  <2> QED
    BY <1>2, <2>1 DEF RetryFailed, runnerVars
<1>3. CASE Prune
  <2> SUFFICES ASSUME NEW k \in Keys
               PROVE  IF jobs'[k].status = "absent"
                        THEN window'[k] \in {0, Ahead}
                        ELSE window'[k] = AtLeast(0, PlanWindow - jobs'[k].age)
    OBVIOUS
  <2>1. window' = window /\ jobs'[k] = IF Prunable(jobs[k]) THEN NoRow ELSE jobs[k]
    BY <1>3 DEF Prune, PruneRows
  <2>2. CASE Prunable(jobs[k])
    <3>1. jobs[k].status # "absent" /\ jobs[k].age > Retention /\ jobs[k].age \in Nat
      BY <2>2 DEF Prunable, TypeOK, Row
    <3>2. PlanWindow - jobs[k].age < 0
      BY <3>1, QueueAssumption, RunnerAssumption
    <3>3. AtLeast(0, PlanWindow - jobs[k].age) = 0
      BY <3>2 DEF AtLeast
    <3> QED
      BY <2>1, <2>2, <3>1, <3>3 DEF NoRow
  <2>3. CASE ~Prunable(jobs[k])
    BY <2>1, <2>3
  <2> QED
    BY <2>2, <2>3
<1>4. ASSUME NEW w \in Workers, Start(w) PROVE RowsNeverReturn'
  BY <1>4 DEF Start
<1>5. ASSUME NEW w \in Workers, Sweep(w) PROVE RowsNeverReturn'
  <2>1. \A k \in Keys : /\ jobs'[k].status = "absent" <=> jobs[k].status = "absent"
                        /\ jobs'[k].age = jobs[k].age
    BY <1>5 DEF Sweep, ReclaimExpired, Reclaimed, Expired, StatusAfterFailure, TypeOK, Row
  <2> QED
    BY <1>5, <2>1 DEF Sweep
<1>6. ASSUME NEW w \in Workers, Take(w) PROVE RowsNeverReturn'
  <2>1. \A k \in Keys : /\ jobs'[k].status = "absent" <=> jobs[k].status = "absent"
                        /\ jobs'[k].age = jobs[k].age
    BY <1>6 DEF Take, ClaimRow, NextReady, Ready, Claimed, TypeOK, Row
  <2> QED
    BY <1>6, <2>1 DEF Take
<1>7. ASSUME NEW w \in Workers, TakeNothing(w) PROVE RowsNeverReturn'
  BY <1>7 DEF TakeNothing
<1>8. ASSUME NEW w \in Workers, Complete(w) PROVE RowsNeverReturn'
  BY <1>8 DEF Complete
<1>9. ASSUME NEW w \in Workers, Timeout(w) PROVE RowsNeverReturn'
  BY <1>9 DEF Timeout
<1>10. ASSUME NEW w \in Workers, Finish(w) PROVE RowsNeverReturn'
  <2>1. \A k \in Keys : /\ jobs'[k].status = "absent" <=> jobs[k].status = "absent"
                        /\ jobs'[k].age = jobs[k].age
    BY <1>10 DEF Finish, FinishRow, Held, LeaseHeld, Succeeded, Failed, StatusAfterFailure,
                 TypeOK, Row
  <2> QED
    BY <1>10, <2>1 DEF Finish
<1>11. ASSUME NEW w \in Workers, FinishRefused(w) PROVE RowsNeverReturn'
  BY <1>11 DEF FinishRefused
<1>12. ASSUME NEW w \in Workers, Crash(w) PROVE RowsNeverReturn'
  BY <1>12 DEF Crash
<1>13. CASE Tick
  <2> SUFFICES ASSUME NEW k \in Keys
               PROVE  IF jobs'[k].status = "absent"
                        THEN window'[k] \in {0, Ahead}
                        ELSE window'[k] = AtLeast(0, PlanWindow - jobs'[k].age)
    OBVIOUS
  <2>1. /\ jobs'[k] = Elapsed(jobs[k])
        /\ window'[k] = IF window[k] = Ahead THEN Ahead ELSE AtLeast(0, window[k] - 1)
    BY <1>13 DEF Tick, Elapse
  <2>2. /\ jobs[k] \in Row
        /\ jobs[k].age \in Nat
    BY DEF TypeOK, Row
  <2>3. /\ jobs'[k].status = jobs[k].status
        /\ jobs'[k].age = IF jobs[k].status = "absent" THEN jobs[k].age
                                                       ELSE AtMost(Retention + 1, jobs[k].age + 1)
    BY <2>1, <2>2 DEF Elapsed, Row
  <2>4. CASE jobs[k].status = "absent"
    BY <2>1, <2>3, <2>4 DEF AtLeast
  <2>5. CASE jobs[k].status # "absent"
    <3>1. window[k] = AtLeast(0, PlanWindow - jobs[k].age)
      BY <2>5
    <3>2. window[k] # Ahead
      BY <2>2, <3>1, RunnerAssumption DEF AtLeast, Ahead
    <3>3. window'[k] = AtLeast(0, window[k] - 1)
      BY <2>1, <3>2
    <3>4. jobs'[k].age = AtMost(Retention + 1, jobs[k].age + 1)
      BY <2>3, <2>5
    <3>5. AtLeast(0, AtLeast(0, PlanWindow - jobs[k].age) - 1)
            = AtLeast(0, PlanWindow - AtMost(Retention + 1, jobs[k].age + 1))
      BY <2>2, QueueAssumption, RunnerAssumption DEF AtLeast, AtMost
    <3> QED
      BY <2>3, <2>5, <3>1, <3>3, <3>4, <3>5
  <2> QED
    BY <2>4, <2>5
<1>14. CASE UNCHANGED vars
  BY <1>14 DEF vars
<1> QED
  BY <1>1, <1>2, <1>3, <1>4, <1>5, <1>6, <1>7, <1>8, <1>9, <1>10, <1>11, <1>12, <1>13, <1>14
     DEF Next, Cycle

\* What a step may do to the row a process holds, or thinks it holds, without
\* breaking the fence: the row stays or goes but does not come back, its
\* attempts do not fall, and while the same claim stands its creditor does.
LEMMA FencePreserved ==
  ASSUME TypeOK, AttemptsOnlyGrow, VerdictIsFenced,
         NEW v \in Workers, Busy(v), Busy(v)',
         NEW k \in Keys, work[v].key = k,
         work'[v].key = k, work'[v].attempt = work[v].attempt,
         window'[k] = window[k] \/ window'[k] # Ahead,
         jobs'[k] \in Row,
         jobs'[k].status # "absent" =>
            jobs[k].status # "absent" /\ jobs'[k].attempts >= jobs[k].attempts,
         jobs'[k].status = "running" /\ jobs'[k].attempts = jobs[k].attempts =>
            jobs[k].status = "running" /\ creditor'[k] = creditor[k]
  PROVE  /\ window'[work'[v].key] # Ahead
         /\ jobs'[work'[v].key].status # "absent" =>
              work'[v].attempt <= jobs'[work'[v].key].attempts
         /\ Held(v)' => creditor'[work'[v].key] = v
<1>1. /\ work[v].attempt \in Nat
      /\ jobs[k].attempts \in Nat
      /\ jobs'[k].attempts \in Nat
  BY DEF TypeOK, Job, Row
<1>2. window'[k] # Ahead
  BY DEF AttemptsOnlyGrow
<1>3. jobs'[k].status # "absent" =>
        work[v].attempt <= jobs[k].attempts /\ jobs[k].attempts <= jobs'[k].attempts
  BY <1>1 DEF AttemptsOnlyGrow
<1>4. ASSUME Held(v)' PROVE creditor'[k] = v
  <2>1. jobs'[k].status = "running" /\ jobs'[k].attempts = work[v].attempt
    BY <1>4 DEF Held, LeaseHeld
  <2>2. jobs'[k].attempts = jobs[k].attempts
    BY <1>1, <1>3, <2>1
  <2>3. Held(v) /\ creditor'[k] = creditor[k]
    BY <2>1, <2>2 DEF Held, LeaseHeld
  <2> QED
    BY <2>3 DEF VerdictIsFenced
<1> QED
  BY <1>1, <1>2, <1>3, <1>4

LEMMA FenceStep ==
  ASSUME TypeOK, TypeOK', FenceInv, AllowRetry = FALSE, [Next]_vars
  PROVE  FenceInv'
<1>1. RowsNeverReturn /\ AttemptsOnlyGrow /\ VerdictIsFenced
  BY DEF FenceInv
<1>2. RowsNeverReturn'
  BY <1>1, RowsNeverReturnStep
<1> DEFINE Fenced(v) ==
             /\ window[work[v].key] # Ahead
             /\ jobs[work[v].key].status # "absent" =>
                  work[v].attempt <= jobs[work[v].key].attempts
             /\ Held(v) => creditor[work[v].key] = v
<1>3. SUFFICES ASSUME NEW v \in Workers, Busy(v)' PROVE Fenced(v)'
  BY <1>2, <1>3 DEF FenceInv, AttemptsOnlyGrow, VerdictIsFenced
\* Only Take gives a process a claim; every other step is one that
\* FencePreserved allows.
<1> DEFINE k == work[v].key
           Same == Busy(v) /\ work'[v].key = k /\ work'[v].attempt = work[v].attempt
           Allowed ==
             /\ window'[k] = window[k] \/ window'[k] # Ahead
             /\ jobs'[k].status # "absent" =>
                  jobs[k].status # "absent" /\ jobs'[k].attempts >= jobs[k].attempts
             /\ jobs'[k].status = "running" /\ jobs'[k].attempts = jobs[k].attempts =>
                  jobs[k].status = "running" /\ creditor'[k] = creditor[k]
<1>4. ASSUME Same, Allowed PROVE Fenced(v)'
  <2>1. k \in Keys /\ jobs'[k] \in Row
    BY <1>4 DEF TypeOK
  <2> QED
    BY <1>1, <1>3, <1>4, <2>1, FencePreserved
<1>5. Busy(v) => k \in Keys /\ jobs[k] \in Row /\ jobs[k].attempts \in Nat
  BY DEF TypeOK, Row
<1>6. ASSUME NEW l \in Keys, Enqueue(l) PROVE Fenced(v)'
  <2>1. /\ UNCHANGED <<phase, work, creditor>>
        /\ window[l] > 0
        /\ window' = [window EXCEPT ![l] = AtMost(PlanWindow, @)]
        /\ jobs' = IF jobs[l].status = "absent" THEN [jobs EXCEPT ![l] = NewRow] ELSE jobs
    BY <1>6 DEF Enqueue, Insert, Insertable
  <2>2. Same
    BY <1>3, <2>1 DEF Busy
  <2>3. window[k] # Ahead
    BY <1>1, <2>2 DEF AttemptsOnlyGrow
  <2>4. jobs'[k] = jobs[k]
    BY <1>1, <1>5, <2>1, <2>2, <2>3 DEF RowsNeverReturn, TypeOK
  <2>5. window'[k] # Ahead
    BY <1>5, <2>1, <2>2, <2>3, RunnerAssumption DEF TypeOK, AtMost, Ahead
  <2> QED
    BY <1>4, <1>5, <2>1, <2>2, <2>4, <2>5
<1>7. CASE RetryFailed
  BY <1>7 DEF RetryFailed
<1>8. CASE Prune
  <2>1. /\ UNCHANGED <<window, phase, work>>
        /\ jobs' = [l \in Keys |-> IF Prunable(jobs[l]) THEN NoRow ELSE jobs[l]]
        /\ creditor' = [l \in Keys |-> IF Prunable(jobs[l]) THEN Nobody ELSE creditor[l]]
    BY <1>8 DEF Prune, PruneRows
  <2>2. Same
    BY <1>3, <2>1 DEF Busy
  <2>3. Allowed
    BY <1>5, <2>1, <2>2 DEF NoRow
  <2> QED
    BY <1>4, <2>2, <2>3
<1>9. ASSUME NEW w \in Workers, Start(w) PROVE Fenced(v)'
  <2>1. UNCHANGED <<jobs, window, work, creditor>> /\ phase' = [phase EXCEPT ![w] = "idle"]
    BY <1>9 DEF Start
  <2>2. Same
    BY <1>3, <2>1 DEF Busy, TypeOK
  <2> QED
    BY <1>4, <1>5, <2>1, <2>2
<1>10. ASSUME NEW w \in Workers, Sweep(w) PROVE Fenced(v)'
  <2>1. /\ UNCHANGED <<window, work>>
        /\ phase' = [phase EXCEPT ![w] = "swept"]
        /\ jobs' = [l \in Keys |-> IF Expired(jobs[l]) THEN Reclaimed(jobs[l]) ELSE jobs[l]]
        /\ creditor' = [l \in Keys |-> IF Expired(jobs[l]) THEN Nobody ELSE creditor[l]]
    BY <1>10 DEF Sweep, ReclaimExpired
  <2>2. Same
    BY <1>3, <2>1 DEF Busy, TypeOK
  <2>3. CASE Expired(jobs[k])
    <3>1. /\ jobs'[k].status # "running"
          /\ jobs'[k].attempts = jobs[k].attempts
          /\ jobs[k].status # "absent"
      BY <1>5, <2>1, <2>2, <2>3 DEF Reclaimed, StatusAfterFailure, Expired, Row
    <3> QED
      BY <1>4, <1>5, <2>1, <2>2, <3>1
  <2>4. CASE ~Expired(jobs[k])
    BY <1>4, <1>5, <2>1, <2>2, <2>4
  <2> QED
    BY <2>3, <2>4
<1>11. ASSUME NEW w \in Workers, Take(w) PROVE Fenced(v)'
  <2>1. PICK l \in Keys :
          /\ jobs[l].status = "pending"
          /\ jobs' = [jobs EXCEPT ![l] = Claimed(@)]
          /\ work' = [work EXCEPT ![w] = [NoJob EXCEPT !.key = l,
                                                       !.attempt = jobs[l].attempts + 1]]
          /\ creditor' = [creditor EXCEPT ![l] = w]
          /\ phase' = [phase EXCEPT ![w] = "working"]
          /\ UNCHANGED window
    BY <1>11 DEF Take, ClaimRow, NextReady, Ready
  <2>2. /\ jobs'[l].status = "running"
        /\ jobs'[l].attempts = jobs[l].attempts + 1
        /\ jobs[l].attempts \in Nat
    BY <2>1 DEF Claimed, TypeOK, Row
  <2>3. CASE v = w
    <3>1. work'[v].key = l /\ work'[v].attempt = jobs[l].attempts + 1 /\ creditor'[l] = v
      BY <2>1, <2>3 DEF NoJob, TypeOK
    <3>2. window'[l] # Ahead
      <4>1. jobs[l].age \in Nat
        BY DEF TypeOK, Row
      <4>2. window[l] = AtLeast(0, PlanWindow - jobs[l].age)
        BY <1>1, <2>1 DEF RowsNeverReturn
      <4> QED
        BY <2>1, <4>1, <4>2, RunnerAssumption DEF AtLeast, Ahead
    <3> QED
      BY <2>2, <3>1, <3>2 DEF Held
  <2>4. CASE v # w
    <3>1. Same
      BY <1>3, <2>1, <2>4 DEF Busy, TypeOK
    <3>2. CASE k = l
      BY <1>4, <2>1, <2>2, <3>1, <3>2
    <3>3. CASE k # l
      BY <1>4, <1>5, <2>1, <3>1, <3>3 DEF TypeOK
    <3> QED
      BY <3>2, <3>3
  <2> QED
    BY <2>3, <2>4
<1>12. ASSUME NEW w \in Workers, TakeNothing(w) PROVE Fenced(v)'
  <2>1. UNCHANGED <<jobs, window, work, creditor>> /\ phase' = [phase EXCEPT ![w] = "idle"]
    BY <1>12 DEF TakeNothing
  <2>2. Same
    BY <1>3, <2>1 DEF Busy, TypeOK
  <2> QED
    BY <1>4, <1>5, <2>1, <2>2
<1>13. ASSUME NEW w \in Workers, Complete(w) PROVE Fenced(v)'
  <2>1. /\ UNCHANGED <<jobs, window, creditor>>
        /\ phase[w] = "working"
        /\ phase' = [phase EXCEPT ![w] = "settling"]
        /\ \E ok \in BOOLEAN : work' = [work EXCEPT ![w].ok = ok]
    BY <1>13 DEF Complete
  <2>2. Same
    BY <1>3, <2>1 DEF Busy, TypeOK, Job
  <2> QED
    BY <1>4, <1>5, <2>1, <2>2
<1>14. ASSUME NEW w \in Workers, Timeout(w) PROVE Fenced(v)'
  <2>1. /\ UNCHANGED <<jobs, window, work, creditor>>
        /\ phase[w] = "working"
        /\ phase' = [phase EXCEPT ![w] = "settling"]
    BY <1>14 DEF Timeout
  <2>2. Same
    BY <1>3, <2>1 DEF Busy, TypeOK
  <2> QED
    BY <1>4, <1>5, <2>1, <2>2
<1>15. ASSUME NEW w \in Workers, Finish(w) PROVE Fenced(v)'
  <2> DEFINE l == work[w].key
  <2>1. /\ UNCHANGED window
        /\ l \in Keys
        /\ jobs[l].status = "running"
        /\ \E ok \in BOOLEAN :
             jobs' = [jobs EXCEPT ![l] = IF ok THEN Succeeded(@) ELSE Failed(@, work[w].attempt)]
        /\ creditor' = [creditor EXCEPT ![l] = w]
        /\ phase' = [phase EXCEPT ![w] = "idle"]
        /\ work' = [work EXCEPT ![w] = NoJob]
    BY <1>15 DEF Finish, FinishRow, Held, LeaseHeld, TypeOK, Busy, Job
  <2>2. Same
    BY <1>3, <2>1 DEF Busy, TypeOK
  <2>3. CASE k = l
    <3>1. jobs'[k].status # "running" /\ jobs'[k].attempts = jobs[k].attempts
      BY <1>5, <2>1, <2>2, <2>3 DEF Succeeded, Failed, StatusAfterFailure, TypeOK, Row
    <3> QED
      BY <1>4, <1>5, <2>1, <2>2, <2>3, <3>1
  <2>4. CASE k # l
    BY <1>4, <1>5, <2>1, <2>2, <2>4 DEF TypeOK
  <2> QED
    BY <2>3, <2>4
<1>16. ASSUME NEW w \in Workers, FinishRefused(w) PROVE Fenced(v)'
  <2>1. /\ UNCHANGED <<jobs, window, creditor>>
        /\ phase' = [phase EXCEPT ![w] = "down"]
        /\ work' = [work EXCEPT ![w] = NoJob]
    BY <1>16 DEF FinishRefused
  <2>2. Same
    BY <1>3, <2>1 DEF Busy, TypeOK
  <2> QED
    BY <1>4, <1>5, <2>1, <2>2
<1>17. ASSUME NEW w \in Workers, Crash(w) PROVE Fenced(v)'
  <2>1. /\ UNCHANGED <<jobs, window, creditor>>
        /\ phase' = [phase EXCEPT ![w] = "down"]
        /\ work' = [work EXCEPT ![w] = NoJob]
    BY <1>17 DEF Crash
  <2>2. Same
    BY <1>3, <2>1 DEF Busy, TypeOK
  <2> QED
    BY <1>4, <1>5, <2>1, <2>2
<1>18. CASE Tick
  <2>1. /\ UNCHANGED <<phase, creditor>>
        /\ jobs' = [l \in Keys |-> Elapsed(jobs[l])]
        /\ window' = [l \in Keys |-> IF window[l] = Ahead THEN Ahead
                                                          ELSE AtLeast(0, window[l] - 1)]
        /\ work' = [w \in Workers |-> IF Busy(w) THEN Older(work[w]) ELSE work[w]]
    BY <1>18 DEF Tick, Elapse
  <2>2. Same
    BY <1>3, <2>1 DEF Busy, Older, TypeOK, Job
  <2>3. /\ jobs'[k].status = jobs[k].status
        /\ jobs'[k].attempts = jobs[k].attempts
    BY <1>5, <2>1, <2>2 DEF Elapsed, Row
  <2>4. window'[k] = window[k] \/ window'[k] # Ahead
    BY <1>5, <2>1, <2>2, RunnerAssumption DEF TypeOK, AtLeast, Ahead
  <2> QED
    BY <1>4, <1>5, <2>1, <2>2, <2>3, <2>4
<1>19. CASE UNCHANGED vars
  <2>1. UNCHANGED <<jobs, window, phase, work, creditor>>
    BY <1>19 DEF vars
  <2>2. Same
    BY <1>3, <2>1 DEF Busy
  <2> QED
    BY <1>4, <1>5, <2>1, <2>2
<1> QED
  BY <1>6, <1>7, <1>8, <1>9, <1>10, <1>11, <1>12, <1>13, <1>14, <1>15, <1>16, <1>17, <1>18, <1>19
     DEF Next, Cycle

\* Without the operator's retry, finish accepts a verdict only from the process
\* that made the last claim on the job, however long any process stalls: the
\* WHERE clause of finish fences by the attempt number.
THEOREM FencedVerdicts == ASSUME AllowRetry = FALSE PROVE Spec => []VerdictIsFenced
<1>1. TypeOK /\ FenceInv /\ [Next]_vars => TypeOK' /\ FenceInv'
  BY StepTypeOK, FenceStep
<1>2. Init => TypeOK /\ FenceInv
  BY InitTypeOK, FenceInit
<1>3. TypeOK /\ FenceInv => VerdictIsFenced
  BY DEF FenceInv
<1> QED
  BY <1>1, <1>2, <1>3, PTL DEF Spec

\* If no process stalls, or the operator does not retry, then the lease of a
\* process that keeps its limits outlives its work and no other such process
\* works on the same job.
THEOREM TimelyProcessesAreSafe ==
  ASSUME Suspendable = {} \/ AllowRetry = FALSE
  PROVE  Spec => [](LeaseOutlivesWork /\ OneExecutor)
<1>1. CASE Suspendable = {}
  <2>1. Init => TypeOK /\ TimelyInv
    BY InitTypeOK, TimelyInit
  <2>2. TypeOK /\ TimelyInv /\ [Next]_vars => TypeOK' /\ TimelyInv'
    BY <1>1, StepTypeOK, TimelyStep
  <2>3. TypeOK /\ TimelyInv => LeaseOutlivesWork /\ OneExecutor
    BY DEF TimelyInv
  <2> QED
    BY <2>1, <2>2, <2>3, PTL DEF Spec
<1>2. CASE AllowRetry = FALSE
  <2>1. Init => TypeOK /\ FenceInv /\ TimelyInv
    BY InitTypeOK, FenceInit, TimelyInit
  <2>2. TypeOK /\ FenceInv /\ TimelyInv /\ [Next]_vars => TypeOK' /\ FenceInv' /\ TimelyInv'
    <3> SUFFICES ASSUME TypeOK, FenceInv, TimelyInv, [Next]_vars
                 PROVE  TypeOK' /\ FenceInv' /\ TimelyInv'
      OBVIOUS
    <3>1. TypeOK'
      BY StepTypeOK
    <3>2. FenceInv'
      BY <1>2, <3>1, FenceStep
    <3>3. VerdictIsFenced
      BY DEF FenceInv
    <3> QED
      BY <3>1, <3>2, <3>3, TimelyStep
  <2>3. TypeOK /\ FenceInv /\ TimelyInv => LeaseOutlivesWork /\ OneExecutor
    BY DEF TimelyInv
  <2> QED
    BY <2>1, <2>2, <2>3, PTL DEF Spec
<1> QED
  BY <1>1, <1>2

\* In particular a job is executed by one such process at a time, under the
\* same condition.
THEOREM JobsHaveOneExecutor ==
  ASSUME Suspendable = {} \/ AllowRetry = FALSE
  PROVE  Spec => []OneExecutor
<1>1. Spec => [](LeaseOutlivesWork /\ OneExecutor)
  BY TimelyProcessesAreSafe
<1>2. LeaseOutlivesWork /\ OneExecutor => OneExecutor
  OBVIOUS
<1> QED
  BY <1>1, <1>2, PTL

-----------------------------------------------------------------------------
(* The attempts *)

LEMMA BudgetInit == Init => AttemptBudget
<1> SUFFICES ASSUME Init, NEW k \in Keys PROVE jobs[k].status = "absent"
  BY DEF AttemptBudget
<1> QED
  BY DEF Init, QueueInit, NoRow

LEMMA BudgetStep ==
  ASSUME TypeOK, AttemptBudget, [Next]_vars
  PROVE  AttemptBudget'
<1> DEFINE Within(row) ==
             /\ row.status = "pending" => row.attempts < MaxAttempts
             /\ row.status = "running" => row.attempts \in 1..MaxAttempts
             /\ row.status = "failed" => row.attempts = MaxAttempts
<1>1. SUFFICES ASSUME NEW k \in Keys PROVE Within(jobs'[k])
  BY <1>1 DEF AttemptBudget
<1>2. /\ \A l \in Keys : Within(jobs[l])
      /\ jobs[k] \in Row
      /\ jobs[k].attempts \in Nat
      /\ MaxAttempts \in Nat \ {0}
  BY QueueAssumption DEF AttemptBudget, TypeOK, Row
\* Steps that leave the status and the attempts of k alone.
<1>3. ASSUME jobs'[k].status = jobs[k].status, jobs'[k].attempts = jobs[k].attempts
      PROVE  Within(jobs'[k])
  BY <1>2, <1>3
<1>4. ASSUME NEW l \in Keys, Enqueue(l) PROVE Within(jobs'[k])
  BY <1>2, <1>4 DEF Enqueue, Insert, NewRow, NoRow, TypeOK
<1>5. CASE RetryFailed
  <2>1. jobs'[k] = IF jobs[k].status = "failed" THEN Retried(jobs[k]) ELSE jobs[k]
    BY <1>5 DEF RetryFailed, RetryRows
  <2> QED
    BY <1>2, <2>1 DEF Retried, Row
<1>6. CASE Prune
  <2>1. jobs'[k] = IF Prunable(jobs[k]) THEN NoRow ELSE jobs[k]
    BY <1>6 DEF Prune, PruneRows
  <2> QED
    BY <1>2, <2>1 DEF NoRow
<1>7. ASSUME NEW w \in Workers, Sweep(w) PROVE Within(jobs'[k])
  <2>1. jobs'[k] = IF Expired(jobs[k]) THEN Reclaimed(jobs[k]) ELSE jobs[k]
    BY <1>7 DEF Sweep, ReclaimExpired
  <2>2. CASE Expired(jobs[k])
    <3>1. /\ jobs'[k].status = StatusAfterFailure(jobs[k].attempts)
          /\ jobs'[k].attempts = jobs[k].attempts
      BY <1>2, <2>1, <2>2 DEF Reclaimed, Row
    <3>2. jobs[k].attempts \in 1..MaxAttempts
      BY <1>2, <2>2 DEF Expired
    <3> QED
      BY <1>2, <3>1, <3>2 DEF StatusAfterFailure
  <2> QED
    BY <1>2, <2>1, <2>2
<1>8. ASSUME NEW w \in Workers, Take(w) PROVE Within(jobs'[k])
  <2>1. PICK l \in Keys : jobs[l].status = "pending" /\ jobs' = [jobs EXCEPT ![l] = Claimed(@)]
    BY <1>8 DEF Take, ClaimRow, NextReady, Ready
  <2>2. CASE k = l
    BY <1>2, <2>1, <2>2 DEF Claimed, TypeOK, Row
  <2>3. CASE k # l
    BY <1>2, <2>1, <2>3 DEF TypeOK
  <2> QED
    BY <2>2, <2>3
<1>9. ASSUME NEW w \in Workers, Finish(w) PROVE Within(jobs'[k])
  <2> DEFINE l == work[w].key
             n == work[w].attempt
  <2>1. /\ l \in Keys
        /\ jobs[l].status = "running"
        /\ jobs[l].attempts = n
        /\ \E ok \in BOOLEAN :
             jobs' = [jobs EXCEPT ![l] = IF ok THEN Succeeded(@) ELSE Failed(@, n)]
    BY <1>9 DEF Finish, FinishRow, Held, LeaseHeld, TypeOK, Busy, Job
  <2>2. CASE k # l
    BY <1>2, <2>1, <2>2 DEF TypeOK
  <2>3. CASE k = l
    <3>1. n \in 1..MaxAttempts
      BY <1>2, <2>1
    <3>2. PICK ok \in BOOLEAN :
            jobs'[k] = IF ok THEN Succeeded(jobs[k]) ELSE Failed(jobs[k], n)
      BY <2>1, <2>3 DEF TypeOK
    <3>3. /\ jobs'[k].attempts = n
          /\ jobs'[k].status = IF ok THEN "succeeded" ELSE StatusAfterFailure(n)
      BY <1>2, <2>1, <2>3, <3>2 DEF Succeeded, Failed, Row
    <3> QED
      BY <1>2, <3>1, <3>3 DEF StatusAfterFailure
  <2> QED
    BY <2>2, <2>3
<1>10. CASE Tick
  <2>1. jobs'[k] = Elapsed(jobs[k])
    BY <1>10 DEF Tick, Elapse
  <2> QED
    BY <1>2, <1>3, <2>1 DEF Elapsed, Row
<1>11. ASSUME NEW w \in Workers,
              \/ Start(w) \/ TakeNothing(w) \/ Complete(w)
              \/ Timeout(w) \/ FinishRefused(w) \/ Crash(w)
       PROVE  Within(jobs'[k])
  BY <1>3, <1>11 DEF Start, TakeNothing, Complete, Timeout, FinishRefused, Crash
<1>12. CASE UNCHANGED vars
  BY <1>3, <1>12 DEF vars
<1> QED
  BY <1>4, <1>5, <1>6, <1>7, <1>8, <1>9, <1>10, <1>11, <1>12 DEF Next, Cycle

\* A job is claimed at most MaxAttempts times between two retries of the
\* operator, and is given up at exactly that number, whether finish or the
\* sweep of an expired lease is what meets the limit.
THEOREM AttemptsAreBounded == Spec => []AttemptBudget
<1>1. Init => TypeOK /\ AttemptBudget
  BY InitTypeOK, BudgetInit
<1>2. TypeOK /\ AttemptBudget /\ [Next]_vars => TypeOK' /\ AttemptBudget'
  BY StepTypeOK, BudgetStep
<1> QED
  BY <1>1, <1>2, PTL DEF Spec

=============================================================================
