--------------------------- MODULE Ingester_proofs --------------------------
(***************************************************************************)
(* Theorems about Ingester, for every set of processes and all time limits *)
(* that IngesterAssumption admits.                                         *)
(***************************************************************************)
EXTENDS Ingester, TLAPS

-----------------------------------------------------------------------------
(* The lock.  A live session of a leader is the one that holds the lock.   *)

LockInv ==
    /\ session \in [Procs -> BOOLEAN]
    /\ worker \in [Procs -> WorkerPhase]
    /\ \A p \in Procs : session[p] => lock = p

SingleLeader == \A p, q \in Procs : Leading(p) /\ Leading(q) => p = q

\* With sessions that last, a process in the loop has one.
LeadersHaveSessions == \A p \in Procs : Leading(p) => session[p]

-----------------------------------------------------------------------------
(* The end of a process *)

\* How long main may have waited for a worker that is where it is.
WaitBound(p) ==
    CASE worker[p] \in {"execute", "fetched"} -> clock[p].job
      [] worker[p] \in {"top", "unlock", "ok", "error"} -> JobLimit
      [] OTHER -> 0

Composed(p) ==
    /\ main[p] = "down" <=> worker[p] = "none"
    /\ main[p] # "down" /\ server[p] = "closed" => signal[p] = "sent"
    /\ main[p] = "await_worker" => server[p] = "closed"
    /\ worker[p] = "ok" => signal[p] = "sent"
    /\ worker[p] = "unlock" => signal[p] = "sent" \/ failing[p]
    /\ worker[p] = "error" => fault[p] # "none"
    /\ failing[p] => fault[p] # "none"
    /\ (Leading(p) \/ worker[p] = "unlock") /\ ~session[p] => fault[p] # "none"
    /\ main[p] = "await_worker" /\ fault[p] = "none" => clock[p].stop <= WaitBound(p)
    /\ ~blamed[p]

\* A process that is down has no worker that could hold the lock.
Typed == TypeOK /\ \A p \in Procs : main[p] = "down" => worker[p] = "none"

StopInv == Typed /\ \A p \in Procs : Composed(p)

-----------------------------------------------------------------------------
(* Types *)

LEMMA TimersUpdate ==
  /\ FreshTimers \in Timers
  /\ \A t \in Timers : /\ [t EXCEPT !.stop = 0] \in Timers
                       /\ [t EXCEPT !.plan = 0] \in Timers
                       /\ [t EXCEPT !.job = 0] \in Timers
                       /\ [t EXCEPT !.nomads = 0] \in Timers
BY IngesterAssumption DEF FreshTimers, Timers

LEMMA LaterBound ==
  ASSUME NEW limit \in Nat, NEW t \in 0..limit
  PROVE  Later(limit, t) \in 0..limit /\ Later(limit, t) <= t + 1
BY DEF Later

LEMMA AgedIsTimers == ASSUME NEW p \in Procs, clock[p] \in Timers PROVE Aged(p) \in Timers
<1>1. /\ PlanEvery \in Nat /\ JobLimit \in Nat /\ StopLimit \in Nat /\ Spacing \in Nat
      /\ PlanEvery + JobLimit + 1 \in Nat
  BY IngesterAssumption
<1>2. /\ clock[p].plan \in 0..PlanEvery
      /\ clock[p].job \in 0..JobLimit
      /\ clock[p].stop \in 0..StopLimit
      /\ clock[p].nomads \in 0..Spacing
      /\ clock[p].orphan \in 0..PlanEvery + JobLimit + 1
  BY DEF Timers
<1>3. /\ Later(PlanEvery, clock[p].plan) \in 0..PlanEvery
      /\ Later(JobLimit, clock[p].job) \in 0..JobLimit
      /\ Later(StopLimit, clock[p].stop) \in 0..StopLimit
      /\ Later(Spacing, clock[p].nomads) \in 0..Spacing
      /\ Later(PlanEvery + JobLimit + 1, clock[p].orphan) \in 0..PlanEvery + JobLimit + 1
  BY <1>1, <1>2, LaterBound
<1> DEFINE job == IF worker[p] \in {"execute", "fetched", "nap"}
                    THEN Later(JobLimit, clock[p].job) ELSE clock[p].job
           stop == IF main[p] = "await_worker" THEN Later(StopLimit, clock[p].stop)
                                              ELSE clock[p].stop
           orphan == IF Leading(p) /\ ~session[p]
                       THEN Later(PlanEvery + JobLimit + 1, clock[p].orphan) ELSE 0
<1>4. /\ job \in 0..JobLimit
      /\ stop \in 0..StopLimit
      /\ orphan \in 0..PlanEvery + JobLimit + 1
  BY <1>1, <1>2, <1>3
<1>5. Aged(p) = [plan |-> Later(PlanEvery, clock[p].plan), job |-> job, stop |-> stop,
                 nomads |-> Later(Spacing, clock[p].nomads), orphan |-> orphan]
  BY DEF Aged
<1> HIDE DEF job, stop, orphan
<1> QED
  BY <1>3, <1>4, <1>5 DEF Timers

LEMMA InitTyped == Init => Typed
BY TimersUpdate, IngesterAssumption DEF Init, Typed, TypeOK, WorkerPhase, Holding

LEMMA FailIsTyped ==
  ASSUME fault \in [Procs -> {"none", "failed", "stalled"}], NEW p \in Procs, Fail(p)
  PROVE  /\ fault' \in [Procs -> {"none", "failed", "stalled"}]
         /\ fault'[p] # "none"
         /\ \A q \in Procs : q # p => fault'[q] = fault[q]
BY DEF Fail

LEMMA StepTypeOK == Typed /\ [Next]_vars => TypeOK'
<1> SUFFICES ASSUME Typed, [Next]_vars PROVE TypeOK'
  OBVIOUS
<1> USE DEF Typed
<1> USE DEF TypeOK, WorkerPhase, Looping, Holding
<1>0. \A p \in Procs : clock[p] \in Timers
  OBVIOUS
<1>1. ASSUME NEW p \in Procs, NEW status, Gone(p, status) PROVE TypeOK'
  <2>1. lock' \in {q \in Procs : Holding(q)'} \cup {Free, Stale}
    BY <1>1 DEF Gone
  <2> QED
    BY <1>1, <2>1, TimersUpdate DEF Gone
<1>2. ASSUME NEW p \in Procs, NEW to \in {"await_worker", "await_server"}, Proceed(p, to)
      PROVE  TypeOK'
  BY <1>0, <1>2, TimersUpdate DEF Proceed
<1>2a. ASSUME NEW p \in Procs, NEW to \in WorkerPhase, NEW t \in Timers, Go(p, to, t),
             lock' \in {q \in Procs : Holding(q)'} \cup {Free, Stale},
             session' \in [Procs -> BOOLEAN], failing' \in [Procs -> BOOLEAN],
             fault' \in [Procs -> {"none", "failed", "stalled"}]
      PROVE  TypeOK'
  BY <1>2a DEF Go
<1>3. ASSUME NEW p \in Procs, NEW to \in WorkerPhase, NEW t \in Timers, Go(p, to, t),
             lock' = lock, Holding(p) => to \in Looping \cup {"unlock"},
             session' \in [Procs -> BOOLEAN], failing' \in [Procs -> BOOLEAN],
             fault' \in [Procs -> {"none", "failed", "stalled"}]
      PROVE  TypeOK'
  <2>1. lock' \in {q \in Procs : Holding(q)'} \cup {Free, Stale}
    BY <1>3 DEF Go
  <2> QED
    BY <1>3, <1>2a, <2>1
<1>4. ASSUME NEW p \in Procs, Start(p) PROVE TypeOK'
  BY <1>4 DEF Start
<1>5. ASSUME NEW p \in Procs,
             \/ ReceiveSignal(p) \/ StoreFlag(p) \/ SendStop(p) \/ ServerEnds(p)
      PROVE  TypeOK'
  BY <1>5 DEF ReceiveSignal, StoreFlag, SendStop, Shutdown, ServerEnds
<1>6. ASSUME NEW p \in Procs,
             \/ ServerFirst(p) \/ WorkerInTime(p) \/ WorkerTooLate(p)
             \/ WorkerFirst(p) \/ ServerLast(p) \/ Crash(p)
      PROVE  TypeOK'
  BY <1>1, <1>2, <1>6
     DEF ServerFirst, WorkerInTime, WorkerTooLate, WorkerFirst, ServerLast, Crash
<1>7. ASSUME NEW p \in Procs, TryLock(p) PROVE TypeOK'
  <2>1. CASE LockGranted(p)
    <3>1. lock' = p /\ Go(p, "top", clock[p])
      BY <1>7, <2>1 DEF TryLock
    <3>2. lock' \in {q \in Procs : Holding(q)'} \cup {Free, Stale}
      BY <3>1 DEF Go
    <3>3. failing' \in [Procs -> BOOLEAN] /\ fault' \in [Procs -> {"none", "failed", "stalled"}]
      BY <1>7, <2>1 DEF TryLock
    <3>4. session' = [session EXCEPT ![p] = TRUE]
      BY <1>7, <2>1 DEF TryLock
    <3>5. session' \in [Procs -> BOOLEAN]
      BY <3>4
    <3>6. Go(p, "top", clock[p]) /\ "top" \in WorkerPhase /\ clock[p] \in Timers
      BY <1>0, <3>1
    <3> HIDE DEF WorkerPhase, Looping, Holding, TypeOK, Typed
    <3> QED
      BY ONLY <1>2a, <3>2, <3>3, <3>5, <3>6, p \in Procs
  <2>2. CASE ~LockGranted(p)
    BY <1>0, <1>3, <1>7, <2>2 DEF TryLock, KeepLock
  <2> QED
    BY <2>1, <2>2
<1>8. ASSUME NEW p \in Procs,
             \/ StandbyOver(p) \/ StandbyRetries(p) \/ Top(p) \/ Ping(p)
             \/ NapOver(p)
      PROVE  TypeOK'
  BY <1>0, <1>3, <1>8
     DEF StandbyOver, AfterStandby, StandbyRetries, Top, NextPhase, Ping, NapOver, AfterNap,
         KeepLock
<1>9. ASSUME NEW p \in Procs, Plan(p) PROVE TypeOK'
  BY <1>0, <1>3, <1>9, TimersUpdate DEF Plan, KeepLock
<1>10. ASSUME NEW p \in Procs, Claim(p) PROVE TypeOK'
  BY <1>0, <1>3, <1>10, TimersUpdate DEF Claim, KeepLock
<1>11. ASSUME NEW p \in Procs, Download(p) PROVE TypeOK'
  <2>1. [clock[p] EXCEPT !.nomads = 0] \in Timers
    BY <1>0, TimersUpdate
  <2> QED
    BY <1>11, <2>1, IngesterAssumption DEF Download, KeepLock
<1>12. ASSUME NEW p \in Procs, JobOver(p) PROVE TypeOK'
  BY <1>0, <1>3, <1>12, TimersUpdate DEF JobOver, KeepLock
<1>13. ASSUME NEW p \in Procs, LoopFails(p) \/ ConnectFails(p) PROVE TypeOK'
  <2>1. Fail(p) /\ lock' = lock /\ session' = session /\ failing' \in [Procs -> BOOLEAN]
    BY <1>13 DEF LoopFails, ConnectFails
  <2>2. Go(p, "unlock", clock[p]) \/ (Go(p, "error", clock[p]) /\ ~Holding(p))
    BY <1>13 DEF LoopFails, ConnectFails
  <2> QED
    BY <1>0, <1>3, <2>1, <2>2, FailIsTyped
<1>14. ASSUME NEW p \in Procs, Unlock(p) PROVE TypeOK'
  <2>1. lock' \in {q \in Procs : Holding(q)'} \cup {Free, Stale}
    BY <1>14 DEF Unlock, Go
  <2> QED
    BY <1>0, <1>2a, <1>14, <2>1 DEF Unlock
<1>15. CASE StaleEnds
  BY <1>15 DEF StaleEnds
<1>16. ASSUME NEW p \in Procs, LoseSession(p) \/ Stall(p) PROVE TypeOK'
  <2>1. CASE LoseSession(p)
    <3>1. fault' \in [Procs -> {"none", "failed", "stalled"}]
      BY <2>1, FailIsTyped DEF LoseSession
    <3> QED
      BY <2>1, <3>1 DEF LoseSession
  <2>2. CASE Stall(p)
    BY <2>2 DEF Stall
  <2> QED
    BY <1>16, <2>1, <2>2
<1>17. CASE Tick
  <2>1. \A p \in Procs : Aged(p) \in Timers
    BY <1>0, AgedIsTimers
  <2>2. gap' \in 0..Spacing
    BY <1>17, LaterBound, IngesterAssumption DEF Tick
  <2> QED
    BY <1>17, <2>1, <2>2 DEF Tick
<1>18. CASE UNCHANGED vars
  BY <1>18 DEF vars
<1> QED
  BY <1>4, <1>5, <1>6, <1>7, <1>8, <1>9, <1>10, <1>11, <1>12, <1>13, <1>14, <1>15, <1>16,
     <1>17, <1>18 DEF Next, Main, Work

LEMMA StepTyped == Typed /\ [Next]_vars => Typed'
<1> SUFFICES ASSUME Typed, [Next]_vars PROVE Typed'
  OBVIOUS
<1> DEFINE Down(p) == main[p] = "down" => worker[p] = "none"
<1>1. TypeOK'
  BY StepTypeOK
<1>2. SUFFICES ASSUME NEW q \in Procs PROVE Down(q)'
  BY <1>1, <1>2 DEF Typed
<1>3. Down(q) /\ main \in [Procs -> {"down", "serving", "await_worker", "await_server"}]
           /\ worker \in [Procs -> WorkerPhase]
  BY DEF Typed, TypeOK
<1>4. CASE UNCHANGED <<main, worker>>
  BY <1>3, <1>4
<1>5. ASSUME NEW p \in Procs, NEW status, Gone(p, status) PROVE Down(q)'
  BY <1>3, <1>5 DEF Gone
<1>6. ASSUME NEW p \in Procs, NEW to \in {"await_worker", "await_server"}, Proceed(p, to)
      PROVE  Down(q)'
  BY <1>3, <1>6 DEF Proceed
<1>7. ASSUME NEW p \in Procs, worker[p] # "none", UNCHANGED main,
             \A r \in Procs : r # p => worker'[r] = worker[r]
      PROVE  Down(q)'
  BY <1>3, <1>7
<1>8. ASSUME NEW p \in Procs, Start(p) PROVE Down(q)'
  BY <1>3, <1>8 DEF Start
<1>9. ASSUME NEW p \in Procs,
             \/ ServerFirst(p) \/ WorkerInTime(p) \/ WorkerTooLate(p)
             \/ WorkerFirst(p) \/ ServerLast(p) \/ Crash(p)
      PROVE  Down(q)'
  BY <1>5, <1>6, <1>9
     DEF ServerFirst, WorkerInTime, WorkerTooLate, WorkerFirst, ServerLast, Crash
<1>10. ASSUME NEW p \in Procs,
              Work(p) \/ StandbyRetries(p) \/ LoopFails(p) \/ ConnectFails(p)
       PROVE  Down(q)'
  <2>1. worker[p] # "none" /\ UNCHANGED main
    BY <1>10 DEF Work, TryLock, StandbyOver, StandbyRetries, Top, Ping, Plan, Claim, NapOver,
       Download, JobOver, Unlock, LoopFails, ConnectFails, Go, Looping
  <2>2. \A r \in Procs : r # p => worker'[r] = worker[r]
    BY <1>3, <1>10 DEF Work, TryLock, StandbyOver, StandbyRetries, Top, Ping, Plan, Claim,
       NapOver, Download, JobOver, Unlock, LoopFails, ConnectFails, Go
  <2> QED
    BY <1>7, <2>1, <2>2
<1>11. ASSUME NEW p \in Procs,
              \/ ReceiveSignal(p) \/ StoreFlag(p) \/ SendStop(p) \/ ServerEnds(p)
              \/ LoseSession(p) \/ Stall(p)
       PROVE  Down(q)'
  BY <1>4, <1>11 DEF ReceiveSignal, StoreFlag, SendStop, Shutdown, ServerEnds, LoseSession, Stall
<1>12. CASE StaleEnds \/ Tick \/ UNCHANGED vars
  BY <1>4, <1>12 DEF StaleEnds, Tick, vars
<1> QED
  BY <1>8, <1>9, <1>10, <1>11, <1>12 DEF Next, Main

\* Every variable stays within its type: no timer passes its limit, and the lock
\* names no process that has left the code between its two statements.
THEOREM TypeCorrect == Spec => []TypeOK
<1>1. Typed => TypeOK
  BY DEF Typed
<1> QED
  BY <1>1, InitTyped, StepTyped, PTL DEF Spec

-----------------------------------------------------------------------------
(* One connected leader *)

LEMMA LockInit == Init => LockInv
BY DEF Init, LockInv, WorkerPhase

LEMMA LockStep == Typed /\ Typed' /\ LockInv /\ [Next]_vars => LockInv'
<1> SUFFICES ASSUME Typed, Typed', LockInv, [Next]_vars PROVE LockInv'
  OBVIOUS
<1>0. /\ session' \in [Procs -> BOOLEAN]
      /\ worker' \in [Procs -> WorkerPhase]
  BY DEF Typed, TypeOK
<1>1. SUFFICES \A q \in Procs : session'[q] => lock' = q
  BY <1>0, <1>1 DEF LockInv
<1> USE DEF LockInv
<1>2. ASSUME UNCHANGED <<lock, session>> PROVE \A q \in Procs : session'[q] => lock' = q
  BY <1>2
<1>3. ASSUME NEW p \in Procs, NEW status, Gone(p, status)
      PROVE  \A q \in Procs : session'[q] => lock' = q
  BY <1>3 DEF Gone
<1>4. ASSUME NEW p \in Procs,
             \/ Start(p) \/ ReceiveSignal(p) \/ StoreFlag(p) \/ SendStop(p) \/ ServerEnds(p)
             \/ ServerFirst(p) \/ StandbyOver(p) \/ StandbyRetries(p) \/ Top(p) \/ Ping(p)
             \/ Plan(p) \/ Claim(p) \/ NapOver(p) \/ Download(p) \/ JobOver(p)
             \/ LoopFails(p) \/ ConnectFails(p) \/ Stall(p)
      PROVE  UNCHANGED <<lock, session>>
  BY <1>4 DEF Start, ReceiveSignal, StoreFlag, SendStop, Shutdown, ServerEnds, ServerFirst,
     Proceed, StandbyOver, StandbyRetries, Top, Ping, Plan, Claim, NapOver, Download, JobOver,
     LoopFails, ConnectFails, Stall, KeepLock
<1>5. ASSUME NEW p \in Procs,
             WorkerInTime(p) \/ WorkerTooLate(p) \/ WorkerFirst(p) \/ ServerLast(p) \/ Crash(p)
      PROVE  \A q \in Procs : session'[q] => lock' = q
  BY <1>2, <1>3, <1>5
     DEF WorkerInTime, WorkerTooLate, WorkerFirst, ServerLast, Crash, Proceed
<1>6. ASSUME NEW p \in Procs, TryLock(p) PROVE \A q \in Procs : session'[q] => lock' = q
  <2>1. CASE lock = Free
    <3>1. \A q \in Procs : ~session[q]
      BY <2>1, IngesterAssumption
    <3>2. lock' = p /\ session' = [session EXCEPT ![p] = TRUE]
      BY <1>6, <2>1 DEF TryLock, LockGranted
    <3> QED
      BY <3>1, <3>2
  <2>2. CASE lock # Free
    BY <1>2, <1>6, <2>2 DEF TryLock, LockGranted, KeepLock
  <2> QED
    BY <2>1, <2>2
<1>7. ASSUME NEW p \in Procs, Unlock(p) PROVE \A q \in Procs : session'[q] => lock' = q
  BY <1>7 DEF Unlock
<1>8. CASE StaleEnds
  BY <1>8, IngesterAssumption DEF StaleEnds
<1>9. ASSUME NEW p \in Procs, LoseSession(p) PROVE \A q \in Procs : session'[q] => lock' = q
  BY <1>9 DEF LoseSession
<1>10. CASE Tick
  BY <1>2, <1>10 DEF Tick
<1>11. CASE UNCHANGED vars
  BY <1>2, <1>11 DEF vars
<1> QED
  BY <1>2, <1>4, <1>5, <1>6, <1>7, <1>8, <1>9, <1>10, <1>11 DEF Next, Main, Work

\* Through crashes, failures, stops and lost sessions, no two processes that
\* hold a live session of the lock are in the leader's loop.
THEOREM ConnectedLeaderIsUnique == Spec => []OneConnectedLeader
<1>1. Init => Typed /\ LockInv
  BY InitTyped, LockInit
<1>2. Typed /\ LockInv /\ [Next]_vars => Typed' /\ LockInv'
  BY StepTyped, LockStep
<1>3. LockInv => OneConnectedLeader
  BY DEF LockInv, OneConnectedLeader
<1> QED
  BY <1>1, <1>2, <1>3, PTL DEF Spec

-----------------------------------------------------------------------------
(* One ingester, as long as sessions last *)

LEMMA SessionsStep ==
  ASSUME TypeOK, LeadersHaveSessions, SessionsMayDie = FALSE, [Next]_vars
  PROVE  LeadersHaveSessions'
<1> USE DEF LeadersHaveSessions, Leading, Looping
<1>1. ASSUME NEW p \in Procs, NEW status, Gone(p, status) PROVE LeadersHaveSessions'
  BY <1>1 DEF Gone, TypeOK
<1>2. ASSUME UNCHANGED <<session, worker>> PROVE LeadersHaveSessions'
  BY <1>2
<1>3. ASSUME NEW p \in Procs, NEW to, NEW t, Go(p, to, t), UNCHANGED session,
             Leading(p) \/ to \notin Looping
      PROVE  LeadersHaveSessions'
  BY <1>3 DEF Go, TypeOK
<1>4. ASSUME NEW p \in Procs, Start(p) PROVE LeadersHaveSessions'
  BY <1>4 DEF Start, TypeOK
<1>5. ASSUME NEW p \in Procs,
             \/ ReceiveSignal(p) \/ StoreFlag(p) \/ SendStop(p) \/ ServerEnds(p)
             \/ ServerFirst(p) \/ Stall(p)
      PROVE  LeadersHaveSessions'
  BY <1>2, <1>5 DEF ReceiveSignal, StoreFlag, SendStop, Shutdown, ServerEnds, ServerFirst,
     Proceed, Stall
<1>6. ASSUME NEW p \in Procs,
             WorkerInTime(p) \/ WorkerTooLate(p) \/ WorkerFirst(p) \/ ServerLast(p) \/ Crash(p)
      PROVE  LeadersHaveSessions'
  BY <1>1, <1>2, <1>6
     DEF WorkerInTime, WorkerTooLate, WorkerFirst, ServerLast, Crash, Proceed
<1>7. ASSUME NEW p \in Procs, TryLock(p) PROVE LeadersHaveSessions'
  BY <1>7 DEF TryLock, Go, KeepLock, TypeOK
<1>8. ASSUME NEW p \in Procs,
             \/ StandbyOver(p) \/ StandbyRetries(p) \/ Top(p) \/ Ping(p) \/ Plan(p)
             \/ Claim(p) \/ NapOver(p) \/ JobOver(p) \/ LoopFails(p) \/ ConnectFails(p)
      PROVE  LeadersHaveSessions'
  BY <1>3, <1>8 DEF StandbyOver, AfterStandby, StandbyRetries, Top, Ping, Plan, Claim, NapOver,
     AfterNap, JobOver, LoopFails, ConnectFails, KeepLock
<1>9. ASSUME NEW p \in Procs, Download(p) PROVE LeadersHaveSessions'
  BY <1>9 DEF Download, KeepLock, TypeOK
<1>10. ASSUME NEW p \in Procs, Unlock(p) PROVE LeadersHaveSessions'
  BY <1>10 DEF Unlock, Go, TypeOK
<1>11. CASE StaleEnds \/ Tick \/ UNCHANGED vars
  BY <1>2, <1>11 DEF StaleEnds, Tick, vars
<1>12. ASSUME NEW p \in Procs, LoseSession(p) PROVE LeadersHaveSessions'
  BY <1>12 DEF LoseSession
<1> QED
  BY <1>4, <1>5, <1>6, <1>7, <1>8, <1>9, <1>10, <1>11, <1>12 DEF Next, Main, Work

\* README's "single ingester": while the database keeps the leader's session, no
\* other process executes a job, and none is in the loop that plans and claims.
THEOREM IngesterIsUnique ==
  ASSUME SessionsMayDie = FALSE PROVE Spec => [](SingleLeader /\ SingleIngester)
<1>1. Init => Typed /\ LockInv /\ LeadersHaveSessions
  BY InitTyped, LockInit DEF Init, LeadersHaveSessions, Leading, Looping
<1>2. Typed /\ LockInv /\ LeadersHaveSessions /\ [Next]_vars
        => Typed' /\ LockInv' /\ LeadersHaveSessions'
  BY StepTyped, LockStep, SessionsStep DEF Typed
<1>3. LockInv /\ LeadersHaveSessions => SingleLeader /\ SingleIngester
  BY DEF LockInv, LeadersHaveSessions, SingleLeader, SingleIngester, Leading, Looping, Ingesting
<1> QED
  BY <1>1, <1>2, <1>3, PTL DEF Spec

-----------------------------------------------------------------------------
(* Clean stops *)

Still(q) ==
    /\ main'[q] = main[q] /\ signal'[q] = signal[q] /\ server'[q] = server[q]
    /\ worker'[q] = worker[q] /\ session'[q] = session[q] /\ failing'[q] = failing[q]
    /\ clock'[q] = clock[q] /\ fault'[q] = fault[q] /\ blamed'[q] = blamed[q]

LEMMA StillComposed == ASSUME NEW q \in Procs, Composed(q), Still(q) PROVE Composed(q)'
BY DEF Composed, Still, WaitBound, Leading

\* A step of one process touches the components of no other.
LEMMA OthersStill ==
  ASSUME TypeOK, NEW p \in Procs, NEW q \in Procs, q # p,
         \/ Start(p) \/ Main(p) \/ Work(p) \/ ReceiveSignal(p) \/ Crash(p)
         \/ StandbyRetries(p) \/ LoopFails(p) \/ ConnectFails(p) \/ LoseSession(p) \/ Stall(p)
  PROVE  Still(q)
<1> USE DEF TypeOK, Still
<1>1. ASSUME NEW status, Gone(p, status) PROVE Still(q)
  BY <1>1 DEF Gone
<1>2. ASSUME NEW to, Proceed(p, to) PROVE Still(q)
  BY <1>2 DEF Proceed
<1>3. CASE Start(p)
  BY <1>3 DEF Start
<1>4. CASE ReceiveSignal(p) \/ StoreFlag(p) \/ SendStop(p) \/ ServerEnds(p)
  BY <1>4 DEF ReceiveSignal, StoreFlag, SendStop, Shutdown, ServerEnds
<1>5. CASE \/ ServerFirst(p) \/ WorkerInTime(p) \/ WorkerTooLate(p)
           \/ WorkerFirst(p) \/ ServerLast(p) \/ Crash(p)
  BY <1>1, <1>2, <1>5
     DEF ServerFirst, WorkerInTime, WorkerTooLate, WorkerFirst, ServerLast, Crash
<1>6. CASE TryLock(p) \/ Unlock(p)
  BY <1>6 DEF TryLock, Unlock, Go, KeepLock
<1>7. CASE \/ StandbyOver(p) \/ StandbyRetries(p) \/ Top(p) \/ Ping(p) \/ Plan(p)
           \/ Claim(p) \/ NapOver(p) \/ JobOver(p)
  BY <1>7 DEF StandbyOver, StandbyRetries, Top, Ping, Plan, Claim, NapOver, JobOver, Go, KeepLock
<1>8. CASE Download(p)
  BY <1>8 DEF Download, KeepLock
<1>9. CASE LoopFails(p) \/ ConnectFails(p)
  BY <1>9, FailIsTyped DEF LoopFails, ConnectFails, Go
<1>10. CASE LoseSession(p)
  BY <1>10, FailIsTyped DEF LoseSession
<1>11. CASE Stall(p)
  BY <1>11 DEF Stall
<1> QED
  BY <1>3, <1>4, <1>5, <1>6, <1>7, <1>8, <1>9, <1>10, <1>11 DEF Main, Work

LEMMA ComposedInit == Init => \A p \in Procs : Composed(p)
BY DEF Init, Composed, Leading, Looping

\* The steps of main.
LEMMA ComposedMain ==
  ASSUME TypeOK, NEW p \in Procs, Composed(p),
         Start(p) \/ Main(p) \/ ReceiveSignal(p) \/ Crash(p)
  PROVE  Composed(p)'
<1> USE DEF TypeOK, Composed, Leading, Looping
<1>1. ASSUME NEW status, Gone(p, status), status = "error" => fault[p] # "none"
      PROVE  Composed(p)'
  BY <1>1 DEF Gone
<1>2. CASE Start(p)
  BY <1>2 DEF Start
<1>3. CASE ReceiveSignal(p) \/ StoreFlag(p) \/ SendStop(p)
  BY <1>3 DEF ReceiveSignal, StoreFlag, SendStop, Shutdown, WaitBound
<1>4. CASE ServerEnds(p)
  BY <1>4 DEF ServerEnds, WaitBound
<1>5. ASSUME NEW to \in {"await_worker", "await_server"}, Proceed(p, to),
             main[p] # "down", to = "await_worker" => server[p] = "closed"
      PROVE  Composed(p)'
  <2>1. clock'[p].stop = 0
    BY <1>5 DEF Proceed, Timers
  <2>2. WaitBound(p)' >= 0
    BY <1>5, IngesterAssumption DEF Proceed, WaitBound, Timers
  <2> QED
    BY <1>5, <2>1, <2>2 DEF Proceed
<1>6. CASE ServerFirst(p)
  BY <1>5, <1>6 DEF ServerFirst
<1>7. CASE WorkerInTime(p)
  BY <1>1, <1>7 DEF WorkerInTime, Ended
\* The wait is over only for a worker whose job has reached its own limit,
\* which is the shorter one.
<1>8. CASE WorkerTooLate(p)
  <2>1. SUFFICES ASSUME fault[p] = "none" PROVE FALSE
    BY <1>1, <1>8, <2>1 DEF WorkerTooLate
  <2>2. StopLimit <= WaitBound(p)
    BY <1>8, <2>1 DEF WorkerTooLate
  <2>3. WaitBound(p) <= JobLimit
    BY IngesterAssumption DEF WaitBound, Timers
  <2> QED
    BY <2>2, <2>3, IngesterAssumption DEF WaitBound, Timers
<1>9. CASE WorkerFirst(p)
  <2>1. CASE worker[p] = "ok" /\ Flagged(p)
    BY <1>5, <1>9, <2>1 DEF WorkerFirst
  <2>2. CASE ~(worker[p] = "ok" /\ Flagged(p))
    <3>1. fault[p] # "none"
      BY <1>9, <2>2 DEF WorkerFirst, Noticed, Ended, Flagged
    <3> QED
      BY <1>1, <1>9, <2>2, <3>1 DEF WorkerFirst
  <2> QED
    BY <2>1, <2>2
<1>10. CASE ServerLast(p)
  BY <1>1, <1>10 DEF ServerLast
<1>11. CASE Crash(p)
  BY <1>1, <1>11 DEF Crash
<1> QED
  BY <1>2, <1>3, <1>4, <1>6, <1>7, <1>8, <1>9, <1>10, <1>11 DEF Main

\* The steps of the worker.
LEMMA ComposedWork ==
  ASSUME TypeOK, NEW p \in Procs, Composed(p),
         \/ Work(p) \/ StandbyRetries(p) \/ LoopFails(p) \/ ConnectFails(p)
         \/ LoseSession(p) \/ Stall(p)
  PROVE  Composed(p)'
<1> USE DEF TypeOK, Composed, Leading, Looping
<1>0. clock[p].job \in 0..JobLimit /\ clock[p].stop \in 0..StopLimit
  BY DEF Timers
<1>1. CASE TryLock(p)
  BY <1>0, <1>1, IngesterAssumption DEF TryLock, LockGranted, Go, KeepLock, WaitBound
<1>2. CASE StandbyOver(p) \/ StandbyRetries(p)
  BY <1>0, <1>2, IngesterAssumption
     DEF StandbyOver, AfterStandby, StandbyRetries, Stopped, Go, KeepLock, WaitBound
<1>3. CASE Top(p)
  <2>1. signal[p] = "sent" => worker'[p] = "unlock"
    BY <1>3 DEF Top, NextPhase, Stopped, Go
  <2>2. worker'[p] \in {"unlock", "ping", "claim"} /\ (worker'[p] = "unlock" => signal[p] = "sent")
    BY <1>3 DEF Top, NextPhase, Stopped, Go
  <2>3. main[p] = "await_worker" => signal[p] = "sent"
    OBVIOUS
  <2> QED
    BY <1>0, <1>3, <2>1, <2>2, <2>3, IngesterAssumption DEF Top, Go, KeepLock, WaitBound
<1>4. CASE Ping(p)
  BY <1>0, <1>4, IngesterAssumption DEF Ping, PingSucceeds, Go, KeepLock, WaitBound
<1>5. CASE Plan(p)
  BY <1>0, <1>5, IngesterAssumption DEF Plan, Go, KeepLock, WaitBound, Timers
<1>6. CASE Claim(p)
  <2>1. /\ clock'[p].stop = clock[p].stop
        /\ clock'[p].job = 0
        /\ worker'[p] \in {"execute", "nap"}
        /\ worker[p] = "claim"
    BY <1>6 DEF Claim, Go, Timers
  <2> QED
    BY <1>0, <1>6, <2>1 DEF Claim, Go, KeepLock, WaitBound
<1>7. CASE NapOver(p)
  BY <1>0, <1>7, IngesterAssumption DEF NapOver, AfterNap, Stopped, Go, KeepLock, WaitBound
<1>8. CASE Download(p)
  BY <1>0, <1>8 DEF Download, KeepLock, WaitBound, Timers
<1>9. CASE JobOver(p)
  <2>1. clock'[p].stop = clock[p].stop
    BY <1>9 DEF JobOver, Go, Timers
  <2> QED
    BY <1>0, <1>9, <2>1, IngesterAssumption DEF JobOver, Go, KeepLock, WaitBound
<1>10. CASE LoopFails(p) \/ ConnectFails(p)
  <2>1. fault'[p] # "none"
    BY <1>10, FailIsTyped DEF LoopFails, ConnectFails
  <2> QED
    BY <1>10, <2>1 DEF LoopFails, ConnectFails, Go
<1>11. CASE Unlock(p)
  BY <1>0, <1>11 DEF Unlock, Go, WaitBound
<1>12. CASE LoseSession(p)
  <2>1. fault'[p] # "none"
    BY <1>12, FailIsTyped DEF LoseSession
  <2> QED
    BY <1>12, <2>1 DEF LoseSession
<1>13. CASE Stall(p)
  BY <1>13 DEF Stall
<1> QED
  BY <1>1, <1>2, <1>3, <1>4, <1>5, <1>6, <1>7, <1>8, <1>9, <1>10, <1>11, <1>12, <1>13 DEF Work

\* While main waits for the worker, the two timers advance together, and no
\* time passes unless the worker executes.
LEMMA ComposedTick ==
  ASSUME TypeOK, NEW p \in Procs, Composed(p), Tick
  PROVE  Composed(p)'
<1> USE DEF TypeOK, Composed, Leading, Looping
<1>1. /\ main'[p] = main[p] /\ signal'[p] = signal[p] /\ server'[p] = server[p]
      /\ worker'[p] = worker[p] /\ session'[p] = session[p] /\ failing'[p] = failing[p]
      /\ fault'[p] = fault[p] /\ blamed'[p] = blamed[p]
      /\ MayWait(p)
  BY DEF Tick
<1>2. SUFFICES ASSUME main[p] = "await_worker", fault[p] = "none"
               PROVE  clock'[p].stop <= WaitBound(p)'
  BY <1>1, <1>2
<1>3. signal[p] = "sent" /\ main[p] # "down"
  BY <1>2
<1>4. worker[p] \in {"execute", "fetched"} /\ clock[p].job < JobLimit
  BY <1>1, <1>2, <1>3 DEF MayWait, Stopped
<1>5. clock[p].stop \in 0..StopLimit /\ clock[p].job \in 0..JobLimit
  BY DEF Timers
<1>6. clock'[p] = Aged(p)
  BY <1>3 DEF Tick
<1>7. /\ clock'[p].job = clock[p].job + 1
      /\ clock'[p].stop <= clock[p].stop + 1
  BY <1>2, <1>4, <1>5, <1>6, IngesterAssumption DEF Aged, Later
<1>8. clock[p].stop <= clock[p].job
  BY <1>2, <1>4 DEF WaitBound
<1> QED
  BY <1>1, <1>4, <1>5, <1>6, <1>7, <1>8, IngesterAssumption DEF WaitBound, Aged, Later

\* A process whose database answers, and which is not killed, never ends with
\* an error: not for a stop signal at any moment of its worker's loop, and not
\* for the five minutes main waits.
THEOREM StopsAreClean == Spec => []StopsCleanly
<1>1. Init => StopInv
  BY InitTyped, ComposedInit DEF StopInv
<1>2. StopInv /\ [Next]_vars => StopInv'
  <2> SUFFICES ASSUME StopInv, [Next]_vars PROVE StopInv'
    OBVIOUS
  <2>1. Typed'
    BY StepTyped DEF StopInv
  <2>2. SUFFICES ASSUME NEW q \in Procs PROVE Composed(q)'
    BY <2>1, <2>2 DEF StopInv
  <2>3. TypeOK /\ Composed(q)
    BY DEF StopInv, Typed
  <2>4. ASSUME NEW p \in Procs,
               \/ Start(p) \/ Main(p) \/ Work(p) \/ ReceiveSignal(p) \/ Crash(p)
               \/ StandbyRetries(p) \/ LoopFails(p) \/ ConnectFails(p) \/ LoseSession(p) \/ Stall(p)
        PROVE  Composed(q)'
    <3>1. CASE p = q
      BY <2>3, <2>4, <3>1, ComposedMain, ComposedWork
    <3>2. CASE p # q
      BY <2>3, <2>4, <3>2, OthersStill, StillComposed
    <3> QED
      BY <3>1, <3>2
  <2>5. CASE StaleEnds \/ UNCHANGED vars
    BY <2>3, <2>5, StillComposed DEF StaleEnds, vars, Still
  <2>6. CASE Tick
    BY <2>3, <2>6, ComposedTick
  <2> QED
    BY <2>4, <2>5, <2>6 DEF Next
<1>3. StopInv => StopsCleanly
  BY DEF StopInv, Composed, StopsCleanly
<1> QED
  BY <1>1, <1>2, <1>3, PTL DEF Spec
-----------------------------------------------------------------------------
(* Leaders without their lock *)

\* How long a leader may have been without its session: no longer than since its
\* last plan, before which it had one, and when the next plan is due no longer
\* than the job it has taken meanwhile.  With a session, before it asks
\* for the lock, and in a process that is down, its time is 0.
Adrift(p) ==
    /\ session[p] \/ main[p] = "down" \/ worker[p] \in {"connect", "standby"} => clock[p].orphan = 0
    /\ fault[p] # "stalled" =>
         /\ clock[p].orphan <= PlanEvery + JobLimit
         /\ Leading(p) /\ ~session[p] =>
              /\ clock[p].plan < PlanEvery => clock[p].orphan <= clock[p].plan
              /\ worker[p] = "plan" => clock[p].orphan = 0
              /\ worker[p] = "claim" => clock[p].orphan <= clock[p].plan
              /\ worker[p] \in {"execute", "fetched", "nap"} =>
                   clock[p].orphan <= PlanEvery + clock[p].job

LEMMA StillAdrift == ASSUME NEW q \in Procs, Adrift(q), Still(q) PROVE Adrift(q)'
BY DEF Adrift, Still, Leading

LEMMA AdriftInit == Init => \A p \in Procs : Adrift(p)
<1>1. FreshTimers.orphan = 0 /\ 0 <= PlanEvery + JobLimit
  BY IngesterAssumption DEF FreshTimers
<1> QED
  BY <1>1 DEF Init, Adrift, Leading, Looping

LEMMA AdriftMain ==
  ASSUME TypeOK, NEW p \in Procs, Adrift(p),
         Start(p) \/ Main(p) \/ ReceiveSignal(p) \/ Crash(p)
  PROVE  Adrift(p)'
<1> USE DEF TypeOK, Adrift, Leading, Looping
<1>1. ASSUME NEW status, Gone(p, status) PROVE Adrift(p)'
  BY <1>1, IngesterAssumption DEF Gone, FreshTimers
<1>2. ASSUME NEW to \in {"await_worker", "await_server"}, Proceed(p, to) PROVE Adrift(p)'
  <2>1. /\ clock'[p].orphan = clock[p].orphan /\ clock'[p].plan = clock[p].plan
        /\ clock'[p].job = clock[p].job
    BY <1>2 DEF Proceed, Timers
  <2> QED
    BY <1>2, <2>1 DEF Proceed
<1>3. CASE Start(p)
  <2>1. /\ clock' = clock /\ session' = session /\ fault' = fault /\ worker'[p] = "connect"
        /\ main[p] = "down"
    BY <1>3 DEF Start
  <2> QED
    BY <2>1
<1>4. CASE ReceiveSignal(p) \/ StoreFlag(p) \/ SendStop(p) \/ ServerEnds(p)
  BY <1>4 DEF ReceiveSignal, StoreFlag, SendStop, Shutdown, ServerEnds
<1>5. CASE \/ ServerFirst(p) \/ WorkerInTime(p) \/ WorkerTooLate(p)
           \/ WorkerFirst(p) \/ ServerLast(p) \/ Crash(p)
  BY <1>1, <1>2, <1>5
     DEF ServerFirst, WorkerInTime, WorkerTooLate, WorkerFirst, ServerLast, Crash
<1> QED
  BY <1>3, <1>4, <1>5 DEF Main

LEMMA AdriftWork ==
  ASSUME TypeOK, NEW p \in Procs, Adrift(p),
         \/ Work(p) \/ StandbyRetries(p) \/ LoopFails(p) \/ ConnectFails(p)
         \/ LoseSession(p) \/ Stall(p)
  PROVE  Adrift(p)'
<1> USE DEF TypeOK, Adrift, Leading, Looping
<1>0. /\ clock[p].job \in 0..JobLimit /\ clock[p].plan \in 0..PlanEvery
      /\ clock[p].orphan \in Nat /\ PlanEvery \in Nat /\ JobLimit \in Nat
  BY IngesterAssumption DEF Timers
<1>1. CASE TryLock(p)
  BY <1>0, <1>1 DEF TryLock, Go, KeepLock
<1>2. CASE StandbyOver(p) \/ StandbyRetries(p)
  BY <1>0, <1>2 DEF StandbyOver, AfterStandby, StandbyRetries, Go, KeepLock
<1>3. CASE Top(p)
  <2>1. /\ worker'[p] = NextPhase(p) /\ worker[p] = "top" /\ clock'[p] = clock[p]
        /\ main' = main /\ session' = session /\ fault' = fault
    BY <1>3 DEF Top, Go, KeepLock
  <2>2. \/ worker'[p] \in {"unlock", "ping"}
        \/ worker'[p] = "claim" /\ clock[p].plan # PlanEvery
    BY <2>1 DEF NextPhase
  <2> QED
    BY <1>0, <2>1, <2>2
<1>4. CASE Ping(p)
  BY <1>0, <1>4 DEF Ping, PingSucceeds, Go, KeepLock
<1>5. CASE Plan(p)
  <2>1. /\ worker[p] = "plan" /\ worker'[p] = "claim" /\ main' = main /\ session' = session /\ fault' = fault
        /\ clock'[p].plan = 0 /\ clock'[p].orphan = clock[p].orphan
    BY <1>5 DEF Plan, Go, KeepLock, Timers
  <2> QED
    BY <1>0, <2>1
<1>6. CASE Claim(p)
  <2>1. /\ worker[p] = "claim" /\ worker'[p] \in {"execute", "nap"}
        /\ main' = main /\ session' = session /\ fault' = fault
        /\ clock'[p].plan = clock[p].plan /\ clock'[p].orphan = clock[p].orphan
        /\ clock'[p].job = 0
    BY <1>6 DEF Claim, Go, KeepLock, Timers
  <2> QED
    BY <1>0, <2>1
<1>7. CASE NapOver(p)
  BY <1>0, <1>7 DEF NapOver, AfterNap, Go, KeepLock
<1>8. CASE Download(p)
  <2>1. /\ worker[p] = "execute" /\ worker'[p] = "fetched"
        /\ main' = main /\ session' = session /\ fault' = fault
        /\ clock'[p].plan = clock[p].plan /\ clock'[p].orphan = clock[p].orphan
        /\ clock'[p].job = clock[p].job
    BY <1>8 DEF Download, KeepLock, Timers
  <2> QED
    BY <1>0, <2>1
<1>9. CASE JobOver(p)
  <2>1. /\ worker[p] \in {"execute", "fetched"} /\ worker'[p] = "top"
        /\ main' = main /\ session' = session /\ fault' = fault
        /\ clock'[p].plan = clock[p].plan /\ clock'[p].orphan = clock[p].orphan
    BY <1>9 DEF JobOver, Go, KeepLock, Timers
  <2> QED
    BY <1>0, <2>1
<1>10. CASE LoopFails(p) \/ ConnectFails(p)
  <2>1. /\ main' = main /\ worker'[p] \in {"unlock", "error"} /\ session' = session /\ clock'[p] = clock[p]
        /\ fault'[p] # "stalled" => fault[p] # "stalled"
    BY <1>10 DEF LoopFails, ConnectFails, Go, Fail
  <2> QED
    BY <1>0, <2>1
<1>11. CASE Unlock(p)
  BY <1>0, <1>11 DEF Unlock, Go
<1>12. CASE LoseSession(p)
  <2>1. /\ main' = main /\ worker' = worker /\ clock' = clock /\ ~session'[p]
        /\ fault'[p] # "stalled" => fault[p] # "stalled"
    BY <1>12 DEF LoseSession, Fail
  <2>2. CASE session[p]
    BY <1>0, <2>1, <2>2
  <2>3. CASE ~session[p]
    BY <1>0, <2>1, <2>3
  <2> QED
    BY <2>2, <2>3
<1>13. CASE Stall(p)
  BY <1>13 DEF Stall
<1> QED
  BY <1>1, <1>2, <1>3, <1>4, <1>5, <1>6, <1>7, <1>8, <1>9, <1>10, <1>11, <1>12, <1>13 DEF Work

\* Time passes for a leader only while it executes or naps, and its timers
\* advance together.
LEMMA AdriftTick ==
  ASSUME TypeOK, NEW p \in Procs, Adrift(p), Tick
  PROVE  Adrift(p)'
<1> USE DEF TypeOK, Adrift, Leading, Looping
<1>0. /\ clock[p].job \in 0..JobLimit /\ clock[p].plan \in 0..PlanEvery
      /\ clock[p].orphan \in 0..PlanEvery + JobLimit + 1
      /\ PlanEvery \in Nat /\ JobLimit \in Nat \ {0}
  BY IngesterAssumption DEF Timers
<1>1. worker' = worker /\ main' = main /\ session' = session /\ fault' = fault /\ MayWait(p)
  BY DEF Tick
<1>2. CASE main[p] = "down"
  BY <1>1, <1>2 DEF Tick
<1>3. CASE main[p] # "down"
  <2>1. clock'[p] = Aged(p)
    BY <1>3 DEF Tick
  <2>2. CASE ~(Leading(p) /\ ~session[p])
    <3>1. clock'[p].orphan = 0
      BY <2>1, <2>2 DEF Aged
    <3> QED
      BY <1>0, <1>1, <2>2, <3>1
  <2>3. CASE Leading(p) /\ ~session[p] /\ fault[p] = "stalled"
    BY <1>1, <1>3, <2>3
  <2>4. CASE Leading(p) /\ ~session[p] /\ fault[p] # "stalled"
    <3>1. worker[p] \in {"execute", "fetched", "nap"} /\ clock[p].job < JobLimit
      BY <1>0, <1>1, <2>4 DEF MayWait, Ended
    <3>2. /\ clock'[p].job = clock[p].job + 1
          /\ clock'[p].plan = IF clock[p].plan < PlanEvery THEN clock[p].plan + 1 ELSE clock[p].plan
          /\ clock'[p].orphan = IF clock[p].orphan < PlanEvery + JobLimit + 1
                                  THEN clock[p].orphan + 1 ELSE clock[p].orphan
      BY <2>1, <2>4, <3>1 DEF Aged, Later
    <3>3. clock[p].orphan <= PlanEvery + clock[p].job
      BY <2>4, <3>1
    <3>4. clock[p].plan < PlanEvery => clock[p].orphan <= clock[p].plan
      BY <2>4
    <3>5. /\ clock'[p].orphan <= PlanEvery + clock'[p].job
          /\ clock'[p].orphan <= PlanEvery + JobLimit
          /\ clock'[p].plan < PlanEvery => clock'[p].orphan <= clock'[p].plan
      BY <1>0, <3>1, <3>2, <3>3, <3>4
    <3> QED
      BY <1>1, <1>3, <2>4, <3>1, <3>5
  <2> QED
    BY <2>2, <2>3, <2>4
<1> QED
  BY <1>2, <1>3

\* Unless its calls hang, a leader whose session the database has dropped is out
\* of the loop after one planning interval and one job at most, for every value
\* of the two: SELECT 1 before each plan runs on the session itself.
THEOREM LostLeadersStandDown == Spec => []LostLeaderStandsDown
<1> DEFINE Inv == Typed /\ \A p \in Procs : Adrift(p)
<1>1. Init => Inv
  BY InitTyped, AdriftInit
<1>2. Inv /\ [Next]_vars => Inv'
  <2> SUFFICES ASSUME Inv, [Next]_vars PROVE Inv'
    OBVIOUS
  <2>1. Typed'
    BY StepTyped
  <2>2. SUFFICES ASSUME NEW q \in Procs PROVE Adrift(q)'
    BY <2>1, <2>2
  <2>3. TypeOK /\ Adrift(q)
    BY DEF Typed
  <2>4. ASSUME NEW p \in Procs,
               \/ Start(p) \/ Main(p) \/ Work(p) \/ ReceiveSignal(p) \/ Crash(p)
               \/ StandbyRetries(p) \/ LoopFails(p) \/ ConnectFails(p) \/ LoseSession(p) \/ Stall(p)
        PROVE  Adrift(q)'
    <3>1. CASE p = q
      BY <2>3, <2>4, <3>1, AdriftMain, AdriftWork
    <3>2. CASE p # q
      BY <2>3, <2>4, <3>2, OthersStill, StillAdrift
    <3> QED
      BY <3>1, <3>2
  <2>5. CASE StaleEnds \/ UNCHANGED vars
    BY <2>3, <2>5, StillAdrift DEF StaleEnds, vars, Still
  <2>6. CASE Tick
    BY <2>3, <2>6, AdriftTick
  <2> HIDE DEF Inv
  <2> QED
    BY <2>4, <2>5, <2>6 DEF Next
<1>3. Inv => LostLeaderStandsDown
  BY DEF Adrift, LostLeaderStandsDown
<1> HIDE DEF Inv
<1> QED
  BY <1>1, <1>2, <1>3, PTL DEF Spec

=============================================================================
