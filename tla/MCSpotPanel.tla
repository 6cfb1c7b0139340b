---------------------------- MODULE MCSpotPanel ----------------------------
(* Three times of two days, of two model runs. *)
EXTENDS SpotPanel

MCSpots == {1, 2}
MCTimes == {1, 2, 3}
MCDay == [t \in MCTimes |-> IF t < 3 THEN 1 ELSE 2]

\* Slow and failing requests of two spots; two runs of one time.
SlowRequests ==
    [spots |-> {0, 1, 2}, rows |-> {<<2, 1>>, <<2, 2>>}, open |-> 2, powers |-> {"seconds", "failures"}]

\* Choices among times that arrive in any order and pass.
DaysAndTimes ==
    [spots |-> {1, 2}, rows |-> {<<1, 1>>, <<2, 1>>, <<3, 1>>}, open |-> 1, powers |-> {}]

\* What a browser does to the view.
Display ==
    [spots |-> {0, 1}, rows |-> {<<2, 1>>}, open |-> 1, powers |-> {"display"}]

MCInstances == {SlowRequests, DaysAndTimes, Display}

=============================================================================
