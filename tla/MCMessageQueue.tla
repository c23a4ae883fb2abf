--------------------------- MODULE MCMessageQueue ---------------------------
(***************************************************************************)
(* Small instances of MessageQueue for TLC.                                *)
(***************************************************************************)
EXTENDS MessageQueue, TLC

\* The processes are interchangeable.
Symmetry == Permutations(Procs)

\* One topic whose name is not changed by _sanitize_topic.
OneTopic == "jobs" :> "jobs"

=============================================================================
