------------------------------ MODULE Ingester ------------------------------
(***************************************************************************)
(* Who may ingest, and how a server process starts and stops: `serve` in   *)
(* server/src/main.rs (the web server, the shutdown signal and the worker  *)
(* task it selects between) and run and leader_loop in                     *)
(* server/src/worker.rs (the advisory lock, the standby wait and the loop  *)
(* of plan, claim and execute), with the spacing of NOMADS downloads in    *)
(* server/src/noaa.rs.                                                     *)
(*                                                                         *)
(* Several processes share one database.  The advisory lock belongs to a   *)
(* session of the database, not to a process: it outlives a process that   *)
(* died without closing its connection (Stale) and can be lost by one that *)
(* still runs (LoseSession).  Statements answer at once, so that time      *)
(* passes only while every process waits for a timer, a download or a      *)
(* signal; the exception is a process whose database calls hang (Stall).   *)
(***************************************************************************)
EXTENDS Integers

CONSTANTS
    Procs,           \* server processes
    PlanEvery,       \* time between two plans of the leader
    JobLimit,        \* limit on the execution of one job
    StopLimit,       \* how long main waits for the worker after the server
    Spacing,         \* least time between two NOMADS downloads
    SessionsMayDie,  \* whether the database may drop a leader's session
    CallsMayHang,    \* whether its answers may take long
    Free, Stale      \* states of the advisory lock that name no process

ASSUME IngesterAssumption ==
    /\ PlanEvery \in Nat
    /\ JobLimit \in Nat \ {0}
    /\ StopLimit \in Nat
    /\ JobLimit < StopLimit
    /\ Spacing \in Nat
    /\ SessionsMayDie \in BOOLEAN
    /\ CallsMayHang \in BOOLEAN
    /\ Free # Stale
    /\ Free \notin Procs /\ Stale \notin Procs

VARIABLES
    lock,     \* the session that holds advisory lock 76249102
    main,     \* process -> where its main function is
    signal,   \* process -> how far the shutdown future has come
    server,   \* process -> whether the web server still serves
    worker,   \* process -> where its worker task is
    session,  \* process -> whether the connection `leader` is alive
    failing,  \* process -> whether leader_loop returned an error
    clock,    \* process -> its timers
    gap,      \* history: time since any process last began a NOMADS download
    fault,    \* history: process -> whether a statement failed it, or hung
    blamed    \* history: process -> whether it ended with an error of its own making

vars == <<lock, main, signal, server, worker, session, failing, clock, gap, fault, blamed>>

Looping == {"top", "ping", "plan", "claim", "execute", "fetched", "nap"}
WorkerPhase == {"none", "connect", "standby", "unlock", "ok", "error"} \cup Looping

\* Between pg_try_advisory_lock and pg_advisory_unlock.
Holding(p) == worker[p] \in Looping \cup {"unlock"}

\* orphan is a history timer: how long the process has led without its session.
Timers ==
    [plan: 0..PlanEvery, job: 0..JobLimit, stop: 0..StopLimit, nomads: 0..Spacing,
     orphan: 0..PlanEvery + JobLimit + 1]

\* The holder of the lock is a process that will release it.
TypeOK ==
    /\ lock \in {p \in Procs : Holding(p)} \cup {Free, Stale}
    /\ main \in [Procs -> {"down", "serving", "await_worker", "await_server"}]
    /\ signal \in [Procs -> {"none", "received", "flagged", "sent"}]
    /\ server \in [Procs -> {"open", "closed"}]
    /\ worker \in [Procs -> WorkerPhase]
    /\ session \in [Procs -> BOOLEAN]
    /\ failing \in [Procs -> BOOLEAN]
    /\ clock \in [Procs -> Timers]
    /\ gap \in 0..Spacing
    /\ fault \in [Procs -> {"none", "failed", "stalled"}]
    /\ blamed \in [Procs -> BOOLEAN]

\* The timers of a new process: last_plan lies 61 seconds back, last_nomads is None.
FreshTimers ==
    [plan |-> PlanEvery, job |-> 0, stop |-> 0, nomads |-> Spacing, orphan |-> 0]

Init ==
    /\ lock = Free
    /\ main = [p \in Procs |-> "down"]
    /\ signal = [p \in Procs |-> "none"]
    /\ server = [p \in Procs |-> "closed"]
    /\ worker = [p \in Procs |-> "none"]
    /\ session = [p \in Procs |-> FALSE]
    /\ failing = [p \in Procs |-> FALSE]
    /\ clock = [p \in Procs |-> FreshTimers]
    /\ gap = Spacing
    /\ fault = [p \in Procs |-> "none"]
    /\ blamed = [p \in Procs |-> FALSE]

Leading(p) == worker[p] \in Looping
Ingesting(p) == worker[p] \in {"execute", "fetched"}
Ended(p) == worker[p] \in {"ok", "error"}

-----------------------------------------------------------------------------
(* The process: start, shutdown signal and the end of main *)

Start(p) ==
    /\ main[p] = "down"
    /\ main' = [main EXCEPT ![p] = "serving"]
    /\ server' = [server EXCEPT ![p] = "open"]
    /\ worker' = [worker EXCEPT ![p] = "connect"]
    /\ UNCHANGED <<lock, signal, session, failing, clock, gap, fault, blamed>>

\* Mutant of Stopped: the worker learns of the stop before the flag is stored.
StoppedBeforeFlag(p) == signal[p] \in {"received", "flagged", "sent"}

\* What the worker reads of the watch channel, and main of the flag.
Stopped(p) == signal[p] = "sent"
Flagged(p) == signal[p] \in {"flagged", "sent"}

Shutdown(p, from, to) ==
    /\ main[p] # "down"
    /\ signal[p] = from
    /\ signal' = [signal EXCEPT ![p] = to]
    /\ UNCHANGED <<lock, main, server, worker, session, failing, clock, gap, fault, blamed>>

ReceiveSignal(p) == Shutdown(p, "none", "received")
StoreFlag(p) == Shutdown(p, "received", "flagged")
SendStop(p) == Shutdown(p, "flagged", "sent")

\* The graceful shutdown begins when the shutdown future has completed.
ServerEnds(p) ==
    /\ main[p] # "down"
    /\ signal[p] = "sent"
    /\ server[p] = "open"
    /\ server' = [server EXCEPT ![p] = "closed"]
    /\ UNCHANGED <<lock, main, signal, worker, session, failing, clock, gap, fault, blamed>>

\* The process is gone, with an exit status, and all it had in memory with it.
\* The database still holds a lock of its session until it notices.
Gone(p, status) ==
    /\ main' = [main EXCEPT ![p] = "down"]
    /\ signal' = [signal EXCEPT ![p] = "none"]
    /\ server' = [server EXCEPT ![p] = "closed"]
    /\ worker' = [worker EXCEPT ![p] = "none"]
    /\ session' = [session EXCEPT ![p] = FALSE]
    /\ failing' = [failing EXCEPT ![p] = FALSE]
    /\ clock' = [clock EXCEPT ![p] = FreshTimers]
    /\ lock' = IF lock = p THEN Stale ELSE lock
    /\ blamed' = [blamed EXCEPT ![p] = status = "error" /\ fault[p] = "none"]
    /\ fault' = [fault EXCEPT ![p] = "none"]
    /\ UNCHANGED gap

Proceed(p, to) ==
    /\ main' = [main EXCEPT ![p] = to]
    /\ clock' = [clock EXCEPT ![p].stop = 0]
    /\ UNCHANGED <<lock, signal, server, worker, session, failing, gap, fault, blamed>>

\* select!, first branch, and the wait of at most five minutes behind it.
ServerFirst(p) ==
    /\ main[p] = "serving"
    /\ server[p] = "closed"
    /\ Proceed(p, "await_worker")

WorkerInTime(p) ==
    /\ main[p] = "await_worker"
    /\ Ended(p)
    /\ Gone(p, IF worker[p] = "ok" THEN "clean" ELSE "error")

WorkerTooLate(p) ==
    /\ main[p] = "await_worker"
    /\ ~Ended(p)
    /\ clock[p].stop = StopLimit
    /\ Gone(p, "error")

\* Mutant of Noticed: main looks at the worker's result only after the server's.
NoticedIfStopped(p) == worker[p] = "ok"

Noticed(p) == Ended(p)

\* select!, second branch: an error, or an end that no shutdown asked for, ends
\* the process.
WorkerFirst(p) ==
    /\ main[p] = "serving"
    /\ Noticed(p)
    /\ IF worker[p] = "ok" /\ Flagged(p)
         THEN Proceed(p, "await_server")
         ELSE Gone(p, "error")

ServerLast(p) ==
    /\ main[p] = "await_server"
    /\ server[p] = "closed"
    /\ Gone(p, "clean")

Crash(p) ==
    /\ main[p] # "down"
    /\ Gone(p, "killed")

-----------------------------------------------------------------------------
(* The worker task *)

Fail(p) == fault' = [fault EXCEPT ![p] = IF @ = "none" THEN "failed" ELSE @]

\* A step of the worker that changes nothing but its phase and its timers.
Go(p, to, timers) ==
    /\ worker' = [worker EXCEPT ![p] = to]
    /\ clock' = [clock EXCEPT ![p] = timers]
    /\ UNCHANGED <<main, signal, server, gap, blamed>>

KeepLock == UNCHANGED <<lock, session, failing, fault>>

\* Mutant of LockGranted: the result of pg_try_advisory_lock is not looked at.
LockGrantedAlways(p) == TRUE

LockGranted(p) == lock = Free

TryLock(p) ==
    /\ worker[p] = "connect"
    /\ IF LockGranted(p)
         THEN /\ Go(p, "top", clock[p])
              /\ lock' = p
              /\ session' = [session EXCEPT ![p] = TRUE]
              /\ UNCHANGED <<failing, fault>>
         ELSE Go(p, "standby", clock[p]) /\ KeepLock

\* Mutant of AfterStandby: the wait ends only with the stop.
AfterStandbyNeverRetry(p) == IF Stopped(p) THEN "ok" ELSE "standby"

AfterStandby(p) == IF Stopped(p) THEN "ok" ELSE "connect"

\* The 30 seconds' wait of a process that is not the leader.
StandbyOver(p) ==
    /\ worker[p] = "standby"
    /\ Go(p, AfterStandby(p), clock[p])
    /\ KeepLock

\* Both branches of the standby select! may be ready; the sleep may win.
StandbyRetries(p) ==
    /\ worker[p] = "standby"
    /\ Stopped(p)
    /\ Go(p, "connect", clock[p])
    /\ KeepLock

NextPhase(p) ==
    IF Stopped(p) THEN "unlock" ELSE IF clock[p].plan = PlanEvery THEN "ping" ELSE "claim"

Top(p) ==
    /\ worker[p] = "top"
    /\ Go(p, NextPhase(p), clock[p])
    /\ KeepLock

\* Mutant of PingSucceeds: SELECT 1 is sent on any connection of the pool.
PingSucceedsOnPool(p) == TRUE

\* SELECT 1 on the leader's own connection.
PingSucceeds(p) == session[p]

Ping(p) ==
    /\ worker[p] = "ping"
    /\ PingSucceeds(p)
    /\ Go(p, "plan", clock[p])
    /\ KeepLock

Plan(p) ==
    /\ worker[p] = "plan"
    /\ Go(p, "claim", [clock[p] EXCEPT !.plan = 0])
    /\ KeepLock

Claim(p) ==
    /\ worker[p] = "claim"
    /\ \/ Go(p, "execute", [clock[p] EXCEPT !.job = 0])
       \/ Go(p, "nap", [clock[p] EXCEPT !.job = 0])
    /\ KeepLock

\* Mutant of AfterNap: the stop returns from run, not from leader_loop alone.
AfterNapReturns(p) == IF Stopped(p) THEN "ok" ELSE "top"

AfterNap(p) == IF Stopped(p) THEN "unlock" ELSE "top"

\* The two seconds' wait when there is no job.
NapOver(p) ==
    /\ worker[p] = "nap"
    /\ Go(p, AfterNap(p), clock[p])
    /\ KeepLock

\* bytes waits until Spacing has passed since this process's own last download.
Download(p) ==
    /\ worker[p] = "execute"
    /\ clock[p].nomads = Spacing
    /\ worker' = [worker EXCEPT ![p] = "fetched"]
    /\ clock' = [clock EXCEPT ![p].nomads = 0]
    /\ gap' = 0
    /\ UNCHANGED <<main, signal, server, blamed>>
    /\ KeepLock

\* The job ends, by itself or by its time limit, and finish settles it.
JobOver(p) ==
    /\ worker[p] \in {"execute", "fetched"}
    /\ Go(p, "top", [clock[p] EXCEPT !.job = 0])
    /\ KeepLock

\* A statement of the loop fails: SELECT 1 on a dead connection, or any other.
LoopFails(p) ==
    /\ worker[p] \in Looping \ {"top", "nap"}
    /\ Go(p, "unlock", clock[p])
    /\ failing' = [failing EXCEPT ![p] = TRUE]
    /\ Fail(p)
    /\ UNCHANGED <<lock, session>>

ConnectFails(p) ==
    /\ worker[p] = "connect"
    /\ Go(p, "error", clock[p])
    /\ Fail(p)
    /\ UNCHANGED <<lock, session, failing>>

\* pg_advisory_unlock, then run returns what leader_loop returned.
Unlock(p) ==
    /\ worker[p] = "unlock"
    /\ Go(p, IF failing[p] \/ ~session[p] THEN "error" ELSE "ok", clock[p])
    /\ lock' = IF lock = p THEN Free ELSE lock
    /\ session' = [session EXCEPT ![p] = FALSE]
    /\ UNCHANGED <<failing, fault>>

-----------------------------------------------------------------------------
(* The database drops sessions and hangs *)

StaleEnds ==
    /\ lock = Stale
    /\ lock' = Free
    /\ UNCHANGED <<main, signal, server, worker, session, failing, clock, gap, fault, blamed>>

LoseSession(p) ==
    /\ SessionsMayDie
    /\ lock = p
    /\ lock' = Free
    /\ session' = [session EXCEPT ![p] = FALSE]
    /\ Fail(p)
    /\ UNCHANGED <<main, signal, server, worker, failing, clock, gap, blamed>>

Stall(p) ==
    /\ CallsMayHang
    /\ main[p] # "down"
    /\ fault' = [fault EXCEPT ![p] = "stalled"]
    /\ UNCHANGED <<lock, main, signal, server, worker, session, failing, clock, gap, blamed>>

-----------------------------------------------------------------------------
(* Time *)

Later(limit, t) == IF t < limit THEN t + 1 ELSE t

\* Nothing of p is due: its worker sleeps (two seconds between two claims: the
\* length of one tick), executes within its limit or has ended, and main and
\* the shutdown future wait.
MayWait(p) ==
    /\ signal[p] \in {"none", "sent"}
    /\ \/ worker[p] = "none"
       \/ fault[p] = "stalled"
       \/ worker[p] = "standby" /\ ~Stopped(p)
       \/ worker[p] = "nap" /\ ~Stopped(p) /\ clock[p].job < 1
       \/ worker[p] \in {"execute", "fetched"} /\ clock[p].job < JobLimit
       \/ Ended(p) /\ main[p] = "await_server" /\ server[p] = "open"
    /\ ~(main[p] = "serving" /\ server[p] = "closed")
    /\ ~(main[p] = "await_worker" /\ clock[p].stop = StopLimit)

Aged(p) ==
    [plan |-> Later(PlanEvery, clock[p].plan),
     job |-> IF worker[p] \in {"execute", "fetched", "nap"}
               THEN Later(JobLimit, clock[p].job) ELSE clock[p].job,
     stop |-> IF main[p] = "await_worker" THEN Later(StopLimit, clock[p].stop)
                                         ELSE clock[p].stop,
     nomads |-> Later(Spacing, clock[p].nomads),
     orphan |-> IF Leading(p) /\ ~session[p]
                  THEN Later(PlanEvery + JobLimit + 1, clock[p].orphan) ELSE 0]

Tick ==
    /\ \A p \in Procs : MayWait(p)
    /\ clock' = [p \in Procs |-> IF main[p] = "down" THEN clock[p] ELSE Aged(p)]
    /\ gap' = Later(Spacing, gap)
    /\ UNCHANGED <<lock, main, signal, server, worker, session, failing, fault, blamed>>

-----------------------------------------------------------------------------
Main(p) ==
    \/ StoreFlag(p) \/ SendStop(p) \/ ServerEnds(p)
    \/ ServerFirst(p) \/ WorkerInTime(p) \/ WorkerTooLate(p)
    \/ WorkerFirst(p) \/ ServerLast(p)

Work(p) ==
    \/ TryLock(p) \/ StandbyOver(p) \/ Top(p) \/ Ping(p) \/ Plan(p)
    \/ Claim(p) \/ NapOver(p) \/ Download(p) \/ JobOver(p) \/ Unlock(p)

Next ==
    \/ \E p \in Procs :
         \/ Start(p) \/ Main(p) \/ Work(p)
         \/ ReceiveSignal(p) \/ Crash(p)
         \/ StandbyRetries(p) \/ LoopFails(p) \/ ConnectFails(p)
         \/ LoseSession(p) \/ Stall(p)
    \/ StaleEnds
    \/ Tick

Spec == Init /\ [][Next]_vars

(* Every task of a live process is scheduled, its timers fire, clients close *)
(* their connections when the server drains, the supervisor restarts a       *)
(* process that has ended, and the database notices a session whose client   *)
(* is gone.  Nothing is assumed about signals, crashes and failures.         *)
Fairness ==
    /\ WF_vars(StaleEnds)
    /\ \A p \in Procs :
         /\ WF_vars(Start(p))
         /\ WF_vars(StoreFlag(p) \/ SendStop(p) \/ ServerEnds(p))
         /\ WF_vars(ServerFirst(p) \/ WorkerInTime(p) \/ WorkerTooLate(p)
                      \/ WorkerFirst(p) \/ ServerLast(p))
         /\ WF_vars(Work(p) \/ LoopFails(p))

LiveSpec == Spec /\ Fairness

-----------------------------------------------------------------------------
(* Properties *)

\* At most one process ingests while its session lives: between crashes, lost
\* sessions, failures and stops, the lock is never granted to a second process
\* while the first still holds it.
OneConnectedLeader ==
    \A p, q \in Procs :
        Leading(p) /\ session[p] /\ Leading(q) /\ session[q] => p = q

\* A leader that lost its session, and with it the lock, stands down after one
\* planning interval and one job at most: SELECT 1 runs on the connection that
\* held the lock, so that a healthy pool does not hide the loss.
LostLeaderStandsDown ==
    \A p \in Procs : fault[p] # "stalled" => clock[p].orphan <= PlanEvery + JobLimit

\* README: "An advisory lock keeps a single ingester active."  At most one
\* process executes a job, that is downloads and publishes.
SingleIngester == \A p, q \in Procs : Ingesting(p) /\ Ingesting(q) => p = q

\* A process ends with an error only if a statement of its worker failed, its
\* connection died or its calls hung: every `?` of run and leader_loop counts as
\* such a failure, also that of finish for a lost lease.  In particular a process
\* that is told to stop does not report "Worker stopped unexpectedly" (the flag
\* is stored before the stop is sent) nor "Worker did not finish within five
\* minutes" (the loop takes no job after the stop, and the limit on a job is
\* shorter).
StopsCleanly == \A p \in Procs : ~blamed[p]

\* README: "Worker failure stops the service so the supervisor can restart it."
\* A worker that has ended never leaves a process that serves without it.
WorkerEndStopsService == \A p \in Procs : Ended(p) ~> ~Ended(p)

\* A process that stays up is enough for ingestion to go on: whoever held the
\* lock and crashed, stopped or lost its way, some process leads again.
IngestionResumes ==
    \A p \in Procs :
        <>[](main[p] = "serving" /\ signal[p] = "none") => []<>(\E q \in Procs : Leading(q))

\* README: "Downloads are sequential and separated by at least 10 seconds".
DownloadsSpaced ==
    [][\A p \in Procs :
         worker[p] = "execute" /\ worker'[p] = "fetched" => gap = Spacing]_vars

=============================================================================
