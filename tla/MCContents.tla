----------------------------- MODULE MCContents -----------------------------
(***************************************************************************)
(* Instances of Contents for TLC.                                          *)
(***************************************************************************)
EXTENDS Contents, TLC

ContentSymmetry == Permutations(Keys) \cup Permutations(Processes)

=============================================================================
