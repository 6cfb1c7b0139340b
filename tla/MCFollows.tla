----------------------------- MODULE MCFollows ------------------------------
(* Instances of Follows for TLC: pier and Pier are one place,
spelt in two ways. *)
EXTENDS Follows, TLC

CONSTANTS alice, bob, r1, r2, pier, Pier, jetty

TwoAccounts == {alice, bob}
MCRequests == {r1, r2}
ThreeForms == {pier, Pier, jetty}
TwoPlaces == [f \in ThreeForms |-> IF f = Pier THEN pier ELSE f]
NoForms == {}
Jetty == {jetty}
AllSymmetry == Permutations(TwoAccounts) \cup Permutations(MCRequests)

=============================================================================
