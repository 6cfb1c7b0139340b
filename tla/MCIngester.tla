----------------------------- MODULE MCIngester -----------------------------
(* Instances of Ingester for TLC. *)
EXTENDS Ingester, TLC

CONSTANTS p1, p2

MCProcs == {p1, p2}
ProcSymmetry == Permutations(MCProcs)

=============================================================================
