----------------------------- MODULE TaskLedger -----------------------------
(***************************************************************************)
(* What the job queue promises, with no clock, no lease and no process:    *)
(* a ledger of tasks.  A task is posted once, handed to one holder at a    *)
(* time and for at most MaxTries times unless an operator revives it, and  *)
(* ends done, dead or gone.  Only the current holder's verdict counts,     *)
(* which shows in holder: a verdict leaves it as the last hand-out set it. *)
(***************************************************************************)
EXTENDS Integers

CONSTANTS Tasks, Holders, Nobody, MaxTries

VARIABLES
    state,   \* task -> where it is in its life
    holder,  \* task -> who was handed it last, Nobody after a revocation
    tries    \* task -> times it was handed out since it was posted or revived

vars == <<state, holder, tries>>

Init ==
    /\ state = [t \in Tasks |-> "new"]
    /\ holder = [t \in Tasks |-> Nobody]
    /\ tries = [t \in Tasks |-> 0]

Post(t) ==
    /\ state[t] = "new"
    /\ state' = [state EXCEPT ![t] = "queued"]
    /\ UNCHANGED <<holder, tries>>

HandOut(t) ==
    /\ state[t] = "queued"
    /\ tries[t] < MaxTries
    /\ state' = [state EXCEPT ![t] = "active"]
    /\ tries' = [tries EXCEPT ![t] = @ + 1]
    /\ \E h \in Holders : holder' = [holder EXCEPT ![t] = h]

Succeed(t) ==
    /\ state[t] = "active"
    /\ holder[t] # Nobody
    /\ state' = [state EXCEPT ![t] = "done"]
    /\ UNCHANGED <<holder, tries>>

AfterFailure(t) == IF tries[t] < MaxTries THEN "queued" ELSE "dead"

Fail(t) ==
    /\ state[t] = "active"
    /\ state' = [state EXCEPT ![t] = AfterFailure(t)]
    /\ UNCHANGED <<holder, tries>>

Revoke(S) ==
    /\ \A t \in S : state[t] = "active"
    /\ state' = [t \in Tasks |-> IF t \in S THEN AfterFailure(t) ELSE state[t]]
    /\ holder' = [t \in Tasks |-> IF t \in S THEN Nobody ELSE holder[t]]
    /\ UNCHANGED tries

Revive(S) ==
    /\ \A t \in S : state[t] = "dead"
    /\ state' = [t \in Tasks |-> IF t \in S THEN "queued" ELSE state[t]]
    /\ tries' = [t \in Tasks |-> IF t \in S THEN 0 ELSE tries[t]]
    /\ UNCHANGED holder

Discard(S) ==
    /\ \A t \in S : state[t] \in {"queued", "done", "dead"}
    /\ state' = [t \in Tasks |-> IF t \in S THEN "gone" ELSE state[t]]
    /\ holder' = [t \in Tasks |-> IF t \in S THEN Nobody ELSE holder[t]]
    /\ tries' = [t \in Tasks |-> IF t \in S THEN 0 ELSE tries[t]]

Next ==
    \/ \E t \in Tasks : Post(t) \/ HandOut(t) \/ Succeed(t) \/ Fail(t)
    \/ \E S \in SUBSET Tasks : Revoke(S) \/ Revive(S) \/ Discard(S)

Spec == Init /\ [][Next]_vars

=============================================================================
