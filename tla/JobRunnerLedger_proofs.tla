----------------------- MODULE JobRunnerLedger_proofs -----------------------
(***************************************************************************)
(* Without the operator's retry, the queue and its processes implement the *)
(* ledger of tasks: each of their steps is one of the ledger's, or none.   *)
(***************************************************************************)
EXTENDS JobRunner_proofs

\* The ledger needs of a key without a row that its attempts begin at 0.
EmptyRows == \A k \in Keys : jobs[k].status = "absent" => jobs[k].attempts = 0

LedgerInv == TypeOK /\ FenceInv /\ AttemptBudget /\ EmptyRows

\* What the statements do to the two columns that the ledger has.
LEMMA Columns ==
    ASSUME NEW row \in Row, NEW n \in Nat
    PROVE  /\ Reclaimed(row).status = StatusAfterFailure(row.attempts)
           /\ Reclaimed(row).attempts = row.attempts
           /\ Claimed(row).status = "running" /\ Claimed(row).attempts = row.attempts + 1
           /\ Succeeded(row).status = "succeeded" /\ Succeeded(row).attempts = row.attempts
           /\ Failed(row, n).status = StatusAfterFailure(n) /\ Failed(row, n).attempts = row.attempts
           /\ Elapsed(row).status = row.status /\ Elapsed(row).attempts = row.attempts
           /\ NewRow.status = "pending" /\ NewRow.attempts = 0
           /\ NoRow.status = "absent" /\ NoRow.attempts = 0
BY DEF Row, Reclaimed, Claimed, Succeeded, Failed, Elapsed, NewRow, NoRow

\* The statuses and the ledger's states are the same but for keys without a row.
LEMMA States ==
    ASSUME NEW k \in Keys
    PROVE  /\ jobs[k].status = "absent" =>
                 LedgerState(k) = IF window[k] = Ahead THEN "new" ELSE "gone"
           /\ jobs[k].status = "pending" => LedgerState(k) = "queued"
           /\ jobs[k].status = "running" => LedgerState(k) = "active"
           /\ jobs[k].status = "succeeded" => LedgerState(k) = "done"
           /\ jobs[k].status = "failed" => LedgerState(k) = "dead"
           /\ jobs'[k].status = "absent" =>
                 LedgerState(k)' = IF window'[k] = Ahead THEN "new" ELSE "gone"
           /\ jobs'[k].status = "pending" => LedgerState(k)' = "queued"
           /\ jobs'[k].status = "running" => LedgerState(k)' = "active"
           /\ jobs'[k].status = "succeeded" => LedgerState(k)' = "done"
           /\ jobs'[k].status = "failed" => LedgerState(k)' = "dead"
BY DEF LedgerState, Ahead

LEMMA Stutters ==
    ASSUME \A k \in Keys : /\ LedgerState(k)' = LedgerState(k)
                           /\ jobs'[k].attempts = jobs[k].attempts,
           creditor' = creditor
    PROVE  UNCHANGED Ledger!vars
BY DEF Ledger!vars

LEMMA EnqueuePosts ==
    ASSUME LedgerInv, NEW k \in Keys, Enqueue(k)
    PROVE  [Ledger!Next]_(Ledger!vars)
<1>0. /\ TypeOK /\ PlanWindow \in Nat /\ jobs[k] \in Row
      /\ window[k] > 0 /\ window' = [window EXCEPT ![k] = AtMost(PlanWindow, @)]
      /\ creditor' = creditor
  BY RunnerAssumption DEF LedgerInv, TypeOK, Enqueue
<1>1. CASE Insertable(k)
  <2>1. jobs' = [jobs EXCEPT ![k] = NewRow]
    BY <1>1 DEF Enqueue, Insert
  <2>2. jobs[k].status = "absent" /\ jobs[k].attempts = 0 /\ window[k] = Ahead
    BY <1>0, <1>1 DEF Insertable, LedgerInv, EmptyRows, FenceInv, RowsNeverReturn
  <2>3. LedgerState(k) = "new" /\ LedgerState(k)' = "queued" /\ jobs'[k].attempts = 0
    BY <1>0, <2>1, <2>2, States, Columns DEF TypeOK
  <2>4. ASSUME NEW l \in Keys \ {k}
        PROVE  LedgerState(l)' = LedgerState(l) /\ jobs'[l] = jobs[l]
    BY <1>0, <2>1, <2>4 DEF TypeOK, LedgerState, Ahead
  <2>5. Ledger!Post(k)
    BY <1>0, <2>2, <2>3, <2>4 DEF Ledger!Post
  <2> QED
    BY <2>5 DEF Ledger!Next
<1>2. CASE ~Insertable(k)
  <2>1. jobs' = jobs
    BY <1>2 DEF Enqueue, Insert
  <2>2. ASSUME NEW l \in Keys PROVE LedgerState(l)' = LedgerState(l)
    <3>1. jobs[l].status \in Status /\ (l = k => jobs[l].status # "absent")
      BY <1>0, <1>2 DEF Insertable, TypeOK, Row
    <3>2. l # k => window'[l] = window[l]
      BY <1>0 DEF TypeOK
    <3> QED
      BY <2>1, <3>1, <3>2, States DEF Status
  <2> QED
    BY <1>0, <2>1, <2>2, Stutters
<1> QED
  BY <1>1, <1>2

LEMMA SweepRevokes ==
    ASSUME LedgerInv, NEW w \in Workers, Sweep(w)
    PROVE  [Ledger!Next]_(Ledger!vars)
<1> PICK S \in SUBSET Keys : S = {k \in Keys : Expired(jobs[k])}
  OBVIOUS
<1>1. /\ jobs' = [k \in Keys |-> IF Expired(jobs[k]) THEN Reclaimed(jobs[k]) ELSE jobs[k]]
      /\ creditor' = [k \in Keys |-> IF Expired(jobs[k]) THEN Nobody ELSE creditor[k]]
      /\ window' = window /\ TypeOK /\ MaxAttempts \in Nat
  BY QueueAssumption DEF Sweep, ReclaimExpired, LedgerInv
<1>2. ASSUME NEW k \in Keys
      PROVE  /\ jobs'[k].attempts = jobs[k].attempts
             /\ k \in S => /\ LedgerState(k) = "active"
                           /\ LedgerState(k)' = IF jobs[k].attempts < MaxAttempts THEN "queued" ELSE "dead"
             /\ k \notin S => LedgerState(k)' = LedgerState(k)
  <2>1. jobs[k] \in Row /\ jobs[k].attempts \in Nat
    BY <1>1 DEF TypeOK, Row
  <2>2. CASE Expired(jobs[k])
    <3>1. jobs[k].status = "running" /\ jobs'[k] = Reclaimed(jobs[k])
      BY <1>1, <2>2 DEF Expired
    <3>2. jobs'[k].status = IF jobs[k].attempts < MaxAttempts THEN "pending" ELSE "failed"
      BY <1>1, <2>1, <3>1, Columns DEF StatusAfterFailure
    <3> QED
      BY <2>1, <2>2, <3>1, <3>2, States, Columns
  <2>3. CASE ~Expired(jobs[k])
    BY <1>1, <2>3 DEF LedgerState, Ahead
  <2> QED
    BY <2>2, <2>3
<1>3. Ledger!Revoke(S)
  BY <1>1, <1>2 DEF Ledger!Revoke, Ledger!AfterFailure
<1> QED
  BY <1>3 DEF Ledger!Next

LEMMA TakeHandsOut ==
    ASSUME LedgerInv, NEW w \in Workers, Take(w)
    PROVE  [Ledger!Next]_(Ledger!vars)
<1>1. PICK k \in Keys :
         /\ jobs[k].status = "pending"
         /\ jobs' = [jobs EXCEPT ![k] = Claimed(@)]
         /\ creditor' = [creditor EXCEPT ![k] = w]
         /\ window' = window
  BY DEF Take, ClaimRow, NextReady, Ready
<1>2. TypeOK /\ jobs[k] \in Row /\ jobs[k].attempts < MaxAttempts
  BY <1>1 DEF LedgerInv, TypeOK, AttemptBudget
<1>3. LedgerState(k) = "queued" /\ LedgerState(k)' = "active" /\ jobs'[k].attempts = jobs[k].attempts + 1
  BY <1>1, <1>2, States, Columns DEF TypeOK
<1>4. ASSUME NEW l \in Keys \ {k}
      PROVE  LedgerState(l)' = LedgerState(l) /\ jobs'[l] = jobs[l]
  BY <1>1, <1>2 DEF TypeOK, LedgerState, Ahead
<1>5. [l \in Keys |-> LedgerState(l)]' = [[l \in Keys |-> LedgerState(l)] EXCEPT ![k] = "active"]
  BY <1>3, <1>4
<1>6. [l \in Keys |-> jobs[l].attempts]'
        = [[l \in Keys |-> jobs[l].attempts] EXCEPT ![k] = jobs[k].attempts + 1]
  BY <1>3, <1>4
<1>7. Ledger!HandOut(k)
  BY <1>1, <1>2, <1>3, <1>5, <1>6 DEF Ledger!HandOut
<1> QED
  BY <1>7 DEF Ledger!Next

LEMMA FinishSettles ==
    ASSUME LedgerInv, NEW w \in Workers, Finish(w)
    PROVE  [Ledger!Next]_(Ledger!vars)
<1> DEFINE k == work[w].key
<1>1. /\ TypeOK /\ Busy(w) /\ Held(w) /\ window' = window
      /\ FinishRow(k, work[w].attempt, work[w].ok) /\ creditor' = [creditor EXCEPT ![k] = w]
  BY DEF Finish, LedgerInv, Busy
<1>2. PICK key \in Keys : key = k
  BY <1>1 DEF TypeOK
<1>3. /\ jobs[key] \in Row /\ jobs[key].status = "running" /\ jobs[key].attempts = work[w].attempt
      /\ jobs[key].attempts \in Nat /\ MaxAttempts \in Nat
  BY <1>1, <1>2, QueueAssumption DEF TypeOK, Held, LeaseHeld, Row
<1>4. creditor[key] = w /\ w # Nobody /\ creditor' = creditor
  <2>1. creditor[key] = w
    BY <1>1, <1>2 DEF LedgerInv, FenceInv, VerdictIsFenced
  <2> QED
    BY <1>1, <1>2, <2>1, RunnerAssumption DEF TypeOK
<1>5. ASSUME NEW row, jobs' = [jobs EXCEPT ![key] = row], NEW l \in Keys \ {key}
      PROVE  LedgerState(l)' = LedgerState(l) /\ jobs'[l] = jobs[l]
  BY <1>1, <1>5 DEF TypeOK, LedgerState, Ahead
<1>6. CASE work[w].ok
  <2>1. jobs' = [jobs EXCEPT ![key] = Succeeded(jobs[key])]
    BY <1>1, <1>2, <1>6 DEF FinishRow
  <2>2. /\ LedgerState(key) = "active" /\ LedgerState(key)' = "done"
        /\ jobs'[key].attempts = jobs[key].attempts
    BY <1>1, <1>3, <2>1, States, Columns DEF TypeOK
  <2>3. [l \in Keys |-> LedgerState(l)]' = [[l \in Keys |-> LedgerState(l)] EXCEPT ![key] = "done"]
    BY <1>5, <2>1, <2>2
  <2>4. [l \in Keys |-> jobs[l].attempts]' = [l \in Keys |-> jobs[l].attempts]
    BY <1>5, <2>1, <2>2
  <2>5. Ledger!Succeed(key)
    BY <1>4, <2>2, <2>3, <2>4 DEF Ledger!Succeed
  <2> QED
    BY <2>5 DEF Ledger!Next
<1>7. CASE ~work[w].ok
  <2>1. jobs' = [jobs EXCEPT ![key] = Failed(jobs[key], jobs[key].attempts)]
    BY <1>1, <1>2, <1>3, <1>7 DEF FinishRow
  <2>2. /\ jobs'[key].status = IF jobs[key].attempts < MaxAttempts THEN "pending" ELSE "failed"
        /\ jobs'[key].attempts = jobs[key].attempts
    BY <1>1, <1>3, <2>1, Columns DEF TypeOK, StatusAfterFailure
  <2>3. /\ LedgerState(key) = "active"
        /\ LedgerState(key)' = IF jobs[key].attempts < MaxAttempts THEN "queued" ELSE "dead"
    BY <1>3, <2>2, States
  <2>4. [l \in Keys |-> LedgerState(l)]'
          = [[l \in Keys |-> LedgerState(l)] EXCEPT
               ![key] = IF jobs[key].attempts < MaxAttempts THEN "queued" ELSE "dead"]
    BY <1>5, <2>1, <2>3
  <2>5. [l \in Keys |-> jobs[l].attempts]' = [l \in Keys |-> jobs[l].attempts]
    BY <1>5, <2>1, <2>2
  <2>6. Ledger!Fail(key)
    BY <1>4, <2>3, <2>4, <2>5 DEF Ledger!Fail, Ledger!AfterFailure
  <2> QED
    BY <2>6 DEF Ledger!Next
<1> QED
  BY <1>6, <1>7

LEMMA PruneDiscards ==
    ASSUME LedgerInv, Prune
    PROVE  [Ledger!Next]_(Ledger!vars)
<1> PICK S \in SUBSET Keys : S = {k \in Keys : Prunable(jobs[k])}
  OBVIOUS
<1>1. /\ jobs' = [k \in Keys |-> IF Prunable(jobs[k]) THEN NoRow ELSE jobs[k]]
      /\ creditor' = [k \in Keys |-> IF Prunable(jobs[k]) THEN Nobody ELSE creditor[k]]
      /\ window' = window /\ TypeOK
  BY DEF Prune, PruneRows, LedgerInv
<1>2. ASSUME NEW k \in Keys
      PROVE  /\ k \in S => /\ LedgerState(k) \in {"queued", "done", "dead"}
                           /\ LedgerState(k)' = "gone" /\ jobs'[k].attempts = 0
             /\ k \notin S => /\ LedgerState(k)' = LedgerState(k)
                              /\ jobs'[k].attempts = jobs[k].attempts
  <2>1. jobs[k] \in Row /\ jobs[k].age \in Nat /\ jobs[k].status \in Status
    BY <1>1 DEF TypeOK, Row
  <2>2. CASE Prunable(jobs[k])
    <3>1. jobs[k].status \in {"pending", "succeeded", "failed"} /\ jobs'[k] = NoRow
      BY <1>1, <2>1, <2>2 DEF Prunable, Status
    <3>2. window'[k] # Ahead
      BY <1>1, <2>1, <3>1, RunnerAssumption
         DEF LedgerInv, FenceInv, RowsNeverReturn, AtLeast, Ahead
    <3>3. NoRow.status = "absent" /\ NoRow.attempts = 0
      BY DEF NoRow
    <3> QED
      BY <2>2, <3>1, <3>2, <3>3, States
  <2>3. CASE ~Prunable(jobs[k])
    BY <1>1, <2>3 DEF LedgerState, Ahead
  <2> QED
    BY <2>2, <2>3
<1>3. creditor' = [k \in Keys |-> IF k \in S THEN Nobody ELSE creditor[k]]
  BY <1>1
<1>4. [k \in Keys |-> LedgerState(k)]'
        = [k \in Keys |-> IF k \in S THEN "gone" ELSE [l \in Keys |-> LedgerState(l)][k]]
  BY <1>2
<1>5. [k \in Keys |-> jobs[k].attempts]'
        = [k \in Keys |-> IF k \in S THEN 0 ELSE [l \in Keys |-> jobs[l].attempts][k]]
  BY <1>2
<1>6. \A t \in S : [k \in Keys |-> LedgerState(k)][t] \in {"queued", "done", "dead"}
  BY <1>2
<1>7. Ledger!Discard(S)
  BY <1>3, <1>4, <1>5, <1>6 DEF Ledger!Discard
<1> QED
  BY <1>7 DEF Ledger!Next

\* Time closes planning windows and moves deadlines, which the ledger has not.
LEMMA TickStutters ==
    ASSUME LedgerInv, Tick
    PROVE  UNCHANGED Ledger!vars
<1>1. /\ jobs' = [k \in Keys |-> Elapsed(jobs[k])] /\ creditor' = creditor
      /\ window' = [k \in Keys |-> IF window[k] = Ahead THEN Ahead ELSE AtLeast(0, window[k] - 1)]
      /\ TypeOK /\ PlanWindow \in Nat
  BY RunnerAssumption DEF Tick, Elapse, LedgerInv
<1>2. ASSUME NEW k \in Keys
      PROVE  /\ jobs'[k].status = jobs[k].status /\ jobs'[k].attempts = jobs[k].attempts
             /\ window'[k] = Ahead <=> window[k] = Ahead
  <2>1. jobs[k] \in Row /\ window[k] \in 0..Ahead
    BY <1>1 DEF TypeOK
  <2>2. window'[k] = Ahead <=> window[k] = Ahead
    BY <1>1, <2>1 DEF AtLeast, Ahead
  <2> QED
    BY <1>1, <2>1, <2>2, Columns
<1>3. \A k \in Keys : LedgerState(k)' = LedgerState(k)
  BY <1>2 DEF LedgerState, Ahead
<1> QED
  BY <1>1, <1>2, <1>3, Stutters

LEMMA LedgerInit == Init => Ledger!Init
<1> SUFFICES ASSUME Init PROVE Ledger!Init
  OBVIOUS
<1>1. \A k \in Keys : jobs[k].status = "absent" /\ jobs[k].attempts = 0 /\ window[k] = Ahead
  BY DEF Init, QueueInit, NoRow
<1>2. \A k \in Keys : LedgerState(k) = "new"
  BY <1>1, States
<1> QED
  BY <1>1, <1>2 DEF Init, Ledger!Init

LEMMA LedgerStep ==
    ASSUME AllowRetry = FALSE, LedgerInv, [Next]_vars
    PROVE  [Ledger!Next]_(Ledger!vars)
<1>1. ASSUME jobs' = jobs, window' = window, creditor' = creditor PROVE UNCHANGED Ledger!vars
  BY <1>1, Stutters DEF LedgerState, Ahead
<1>2. ASSUME NEW w \in Workers, Cycle(w) \/ Crash(w) PROVE [Ledger!Next]_(Ledger!vars)
  BY <1>1, <1>2, SweepRevokes, TakeHandsOut, FinishSettles
     DEF Cycle, Start, TakeNothing, Complete, Timeout, FinishRefused, Crash
<1>3. CASE UNCHANGED vars
  BY <1>1, <1>3 DEF vars
<1> QED
  BY <1>2, <1>3, EnqueuePosts, PruneDiscards, TickStutters DEF Next, RetryFailed

-----------------------------------------------------------------------------
(* The invariant *)

\* No statement but the prune takes a row away, and it leaves no attempts.
LEMMA EmptyStep == ASSUME TypeOK, TypeOK', EmptyRows, [Next]_vars PROVE EmptyRows'
<1>0. \A k \in Keys : jobs[k] \in Row /\ jobs[k].attempts \in Nat
  BY DEF TypeOK, Row
<1>1. ASSUME NEW k \in Keys, NEW row, NEW l \in Keys, jobs' = [jobs EXCEPT ![l] = row],
             row.status # "absent" \/ row.attempts = 0, jobs'[k].status = "absent"
      PROVE  jobs'[k].attempts = 0
  BY <1>1 DEF EmptyRows, TypeOK
<1>2. ASSUME NEW k \in Keys, Enqueue(k) PROVE EmptyRows'
  <2>1. NewRow.attempts = 0
    BY DEF NewRow, NoRow
  <2> QED
    BY <1>1, <1>2, <2>1 DEF Enqueue, Insert, EmptyRows
<1>3. ASSUME NEW k \in Keys,
             \/ jobs'[k] = Retried(jobs[k]) \/ jobs'[k] = Reclaimed(jobs[k])
             \/ jobs'[k] = Elapsed(jobs[k]) \/ jobs'[k] = NoRow \/ jobs'[k] = jobs[k]
      PROVE  jobs'[k].status = "absent" => jobs'[k].attempts = 0
  <2>1. jobs[k] \in Row /\ jobs[k].attempts \in Nat /\ StatusAfterFailure(jobs[k].attempts) # "absent"
    BY <1>0 DEF StatusAfterFailure
  <2>2. Retried(jobs[k]).attempts = 0
    BY <2>1 DEF Retried, Row
  <2> QED
    BY <1>3, <2>1, <2>2, Columns DEF EmptyRows
<1>4. CASE RetryFailed \/ Prune \/ Tick
  BY <1>3, <1>4 DEF RetryFailed, RetryRows, Prune, PruneRows, Tick, Elapse, EmptyRows
<1>5. ASSUME NEW w \in Workers, Sweep(w) PROVE EmptyRows'
  BY <1>3, <1>5 DEF Sweep, ReclaimExpired, EmptyRows
<1>6. ASSUME NEW w \in Workers, Take(w) PROVE EmptyRows'
  <2>1. PICK l \in Keys : jobs' = [jobs EXCEPT ![l] = Claimed(jobs[l])]
    BY <1>6 DEF Take, ClaimRow, NextReady
  <2>2. Claimed(jobs[l]).status # "absent"
    BY <1>0, Columns
  <2> QED
    BY <1>1, <2>1, <2>2 DEF EmptyRows
<1>7. ASSUME NEW w \in Workers, Finish(w) PROVE EmptyRows'
  <2>1. work[w].key \in Keys /\ work[w].attempt \in Nat
    BY <1>7 DEF Finish, TypeOK, Busy, Job
  <2>2. \/ jobs' = [jobs EXCEPT ![work[w].key] = Succeeded(jobs[work[w].key])]
        \/ jobs' = [jobs EXCEPT ![work[w].key] = Failed(jobs[work[w].key], work[w].attempt)]
    BY <1>7 DEF Finish, FinishRow
  <2>3. /\ Succeeded(jobs[work[w].key]).status # "absent"
        /\ Failed(jobs[work[w].key], work[w].attempt).status # "absent"
    BY <1>0, <2>1, Columns DEF StatusAfterFailure
  <2> QED
    BY <1>1, <2>1, <2>2, <2>3 DEF EmptyRows
<1>8. CASE jobs' = jobs
  BY <1>8 DEF EmptyRows
<1> QED
  BY <1>2, <1>4, <1>5, <1>6, <1>7, <1>8
     DEF Next, Cycle, Start, TakeNothing, Complete, Timeout, FinishRefused, Crash, vars

\* Without --retry-failed a key is handed out, settled and discarded as the
\* ledger has it, whatever the processes do and however long they stall: the
\* statements of claim, finish and prune and the planner's insert that does
\* nothing on a conflict are steps of TaskLedger, and all other steps are none.
THEOREM QueueImplementsLedger == ASSUME AllowRetry = FALSE PROVE Spec => ImplementsLedger
<1>1. Init => LedgerInv /\ Ledger!Init
  <2>1. Init => EmptyRows
    BY DEF Init, QueueInit, NoRow, EmptyRows
  <2> QED
    BY <2>1, InitTypeOK, FenceInit, BudgetInit, LedgerInit DEF LedgerInv
<1>2. LedgerInv /\ [Next]_vars => LedgerInv'
  BY StepTypeOK, FenceStep, BudgetStep, EmptyStep DEF LedgerInv
<1>3. LedgerInv /\ [Next]_vars => [Ledger!Next]_(Ledger!vars)
  BY LedgerStep
<1> QED
  BY <1>1, <1>2, <1>3, PTL DEF Spec, ImplementsLedger, Ledger!Spec

=============================================================================
