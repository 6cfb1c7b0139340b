----------------------------- MODULE MCRefresh -----------------------------
(* Instances of Refresh for TLC. *)
EXTENDS Refresh

I(of, buttons, together, changes, others) ==
    [deployment |-> of, buttons |-> buttons, together |-> together,
     changes |-> changes, others |-> others]

\* A follow and the save of a closed dialog that both change the list, beside
\* each other; signing in and out; Try again beside a follow; Try again beside an
\* unlocking; and the writes of a deployment with a token, one at a time.
MCInstances ==
    {I("google", {"follow", "add"}, 2, 2, 1),
     I("google", {"follow", "in", "out"}, 2, 1, 1),
     I("google", {"again", "follow"}, 2, 1, 1),
     I("token", {"unlock", "again"}, 2, 0, 0),
     I("token", {"unlock", "follow", "retry"}, 1, 1, 1)}

=============================================================================
