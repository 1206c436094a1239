------------------------------ MODULE MCTeams ------------------------------
(***************************************************************************)
(* Instances of Teams for TLC.                                             *)
(***************************************************************************)
EXTENDS Teams, TLC

Alone == [c \in Contests |-> 1]
Pairs == [c \in Contests |-> 2]

TeamSymmetry == Permutations(Users) \cup Permutations(TeamIds)

=============================================================================
