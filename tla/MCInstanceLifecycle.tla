------------------------ MODULE MCInstanceLifecycle ------------------------
(***************************************************************************)
(* Instances of InstanceLifecycle for TLC.                                 *)
(***************************************************************************)
EXTENDS InstanceLifecycle

\* Instances neither expire nor come up for renewal.
AlwaysFresh == \A i \in Instances : instances[i].lifetime \in {"none", "fresh"}

=============================================================================
