---------------------------- MODULE MCScoreboard ----------------------------
(***************************************************************************)
(* Instances of Scoreboard for TLC.                                        *)
(***************************************************************************)
EXTENDS Scoreboard, TLC

ScoreboardSymmetry == Permutations(Participations) \cup Permutations(Readers)

=============================================================================
