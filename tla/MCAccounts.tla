----------------------------- MODULE MCAccounts -----------------------------
(***************************************************************************)
(* Instances of Accounts for TLC.                                          *)
(***************************************************************************)
EXTENDS Accounts, TLC

AccountSymmetry == Permutations(Emails) \cup Permutations(TokenIds)

=============================================================================
