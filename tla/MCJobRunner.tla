---------------------------- MODULE MCJobRunner -----------------------------
(* Instances of JobRunner for TLC. *)
EXTENDS JobRunner, TLC

CONSTANTS w1, w2, waves, stations

MCKeys == {waves, stations}
MCStationKeys == {stations}
MCWorkers == {w1, w2}
NoWorkers == {}
WorkerSymmetry == Permutations(MCWorkers)

=============================================================================
