------------------------------ MODULE JobQueue ------------------------------
(***************************************************************************)
(* The durable job queue of server/src/db.rs: the table bodhi.jobs and     *)
(* the statements that enqueue, claim, settle, retry and prune its rows.   *)
(*                                                                         *)
(* One record stands for one row, found by its dedupe_key.  The clock of   *)
(* the database does not appear: each timestamp is kept as its distance    *)
(* from now(), which Elapse moves.                                         *)
(*   wait   available_at - now(), kept while the row can still be claimed  *)
(*   lease  lease_until - now(), 0 where lease_until is NULL               *)
(*   age    now() - created_at                                             *)
(* Every statement of the code runs in autocommit under READ COMMITTED and *)
(* locks the rows it changes, so each of them is one atomic update.        *)
(***************************************************************************)
EXTENDS Integers

CONSTANTS
    Keys,         \* the dedupe keys the planner can produce
    StationKeys,  \* those whose spec is of kind 'stations'
    MaxAttempts,  \* claims before a job is given up
    Lease,        \* time a claim reserves a row for
    BackoffUnit,  \* time that is doubled at each failed attempt
    BackoffCap,   \* longest delay before the next attempt
    Retention,    \* age from which a row may be pruned
    MaxOverdue    \* bound: a row overdue for longer is kept at this value

ASSUME QueueAssumption ==
    /\ StationKeys \subseteq Keys
    /\ MaxAttempts \in Nat \ {0}
    /\ Lease \in Nat \ {0}
    /\ BackoffUnit \in Nat
    /\ BackoffCap \in Nat
    /\ Retention \in Nat
    /\ MaxOverdue \in Nat

VARIABLE jobs     \* dedupe key -> its row

Status == {"absent", "pending", "running", "succeeded", "failed"}

Row == [status: Status, attempts: Nat, wait: Int, lease: Int, age: Nat]

NoRow == [status |-> "absent", attempts |-> 0, wait |-> 0, lease |-> 0, age |-> 0]

NewRow == [NoRow EXCEPT !.status = "pending"]

AtLeast(floor, x) == IF x < floor THEN floor ELSE x
AtMost(cap, x) == IF x > cap THEN cap ELSE x

-----------------------------------------------------------------------------
(* enqueue: INSERT ... ON CONFLICT DO NOTHING *)

\* Mutant of Insertable: the conflict revives a row that has already ended.
InsertableAgain(k) == jobs[k].status \in {"absent", "succeeded"}

Insertable(k) == jobs[k].status = "absent"

Insert(k) == jobs' = IF Insertable(k) THEN [jobs EXCEPT ![k] = NewRow] ELSE jobs

-----------------------------------------------------------------------------
(* claim, first statement: rows whose lease ran out are queued again, or   *)
(* given up when they have used their attempts                             *)

\* Mutants of Expired: the first ignores lease_until; the second leaves out
\* the rows that have used their attempts.
ExpiredAlways(row) == row.status = "running"
ExpiredUnlessSpent(row) ==
    row.status = "running" /\ row.lease < 0 /\ row.attempts < MaxAttempts

Expired(row) == row.status = "running" /\ row.lease < 0

\* Mutants of StatusAfterFailure: the attempts are never spent; the row gets a
\* status that the CHECK constraint of the table does not list.
StatusAfterFailureForever(attempts) == "pending"
StatusAfterFailureUnlisted(attempts) ==
    IF attempts >= MaxAttempts THEN "error" ELSE "pending"

StatusAfterFailure(attempts) == IF attempts >= MaxAttempts THEN "failed" ELSE "pending"

Reclaimed(row) ==
    [row EXCEPT !.status = StatusAfterFailure(row.attempts), !.lease = 0]

ReclaimExpired ==
    jobs' = [k \in Keys |-> IF Expired(jobs[k]) THEN Reclaimed(jobs[k]) ELSE jobs[k]]

-----------------------------------------------------------------------------
(* claim, second statement: the first ready row, stations before waves,    *)
(* then by available_at.  The order by id among equals is left open.       *)

Ready(row) == row.status = "pending" /\ row.wait <= 0

IsStations(k) == k \in StationKeys

Precedes(k, l) ==
    \/ IsStations(k) /\ ~IsStations(l)
    \/ IsStations(k) = IsStations(l) /\ jobs[k].wait < jobs[l].wait

NextReady ==
    {k \in Keys : Ready(jobs[k])
                    /\ \A l \in Keys : Ready(jobs[l]) => ~Precedes(l, k)}

Claimed(row) ==
    [row EXCEPT !.status = "running", !.attempts = @ + 1, !.lease = Lease]

ClaimRow(k) == jobs' = [jobs EXCEPT ![k] = Claimed(@)]

-----------------------------------------------------------------------------
(* finish: accepted only while the row runs under the claim's attempt      *)

\* Mutant of LeaseHeld: the WHERE clause loses its AND attempts=$5.
LeaseHeldByAnyone(k, attempt) == jobs[k].status = "running"

LeaseHeld(k, attempt) == jobs[k].status = "running" /\ jobs[k].attempts = attempt

\* 2^n for the attempt numbers 1..7 that finish uses.
PowerOfTwo == <<2, 4, 8, 16, 32, 64, 128>>

Backoff(attempt) == AtMost(BackoffCap, BackoffUnit * PowerOfTwo[AtMost(7, attempt)])

Succeeded(row) == [row EXCEPT !.status = "succeeded", !.wait = 0, !.lease = 0]

Failed(row, attempt) ==
    LET next == StatusAfterFailure(attempt)
    IN  [row EXCEPT !.status = next,
                    !.wait = IF next = "pending" THEN Backoff(attempt) ELSE 0,
                    !.lease = 0]

FinishRow(k, attempt, ok) ==
    jobs' = [jobs EXCEPT ![k] = IF ok THEN Succeeded(@) ELSE Failed(@, attempt)]

-----------------------------------------------------------------------------
(* retry_failed and the jobs part of prune *)

Retried(row) == [row EXCEPT !.status = "pending", !.attempts = 0, !.wait = 0]

RetryRows ==
    jobs' = [k \in Keys |-> IF jobs[k].status = "failed" THEN Retried(jobs[k]) ELSE jobs[k]]

\* Mutant of Prunable: running rows are deleted as well.
PrunableRunning(row) == row.status # "absent" /\ row.age > Retention

Prunable(row) == row.status \notin {"absent", "running"} /\ row.age > Retention

PruneRows == jobs' = [k \in Keys |-> IF Prunable(jobs[k]) THEN NoRow ELSE jobs[k]]

-----------------------------------------------------------------------------
(* Time passes.  wait and lease stop falling and age stops growing once    *)
(* further change could not alter any statement's outcome.                 *)

Elapsed(row) ==
    [row EXCEPT
        !.wait = IF row.status \in {"pending", "running"}
                   THEN AtLeast(-MaxOverdue, @ - 1) ELSE @,
        !.lease = IF row.status = "running" THEN AtLeast(-1, @ - 1) ELSE @,
        !.age = IF row.status = "absent" THEN @ ELSE AtMost(Retention + 1, @ + 1)]

Elapse == jobs' = [k \in Keys |-> Elapsed(jobs[k])]

QueueInit == jobs = [k \in Keys |-> NoRow]

=============================================================================
