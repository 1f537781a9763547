--------------------------- MODULE MCScoringSeason ---------------------------
(* The small instance of ScoringRejoins for TLC, with MCScoring's settings. *)
EXTENDS ScoringRejoins, MCScoring
=============================================================================
