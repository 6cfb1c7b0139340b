----------------------------- MODULE MCExplore -----------------------------
(* Instances of Explore for TLC. *)
EXTENDS Explore, TLC

CONSTANTS blank, beach

MCQueries == {blank, beach}
MCHits == (blank :> {1, 2}) @@ (beach :> {2})
MCIds == {1, 2}

=============================================================================
