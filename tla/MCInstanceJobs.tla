--------------------------- MODULE MCInstanceJobs ---------------------------
(* Model-checking instances of InstanceJobs. *)
EXTENDS InstanceJobs, TLC

\* Workers are interchangeable: sound for the invariants and action properties,
\* not used where a liveness property is checked.
WorkerSymmetry == Permutations(Workers)

=============================================================================
