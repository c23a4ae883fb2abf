------------------------------ MODULE MCIssueDB ------------------------------
(***************************************************************************)
(* Small instances of IssueDB for TLC.                                     *)
(***************************************************************************)
EXTENDS IssueDB, TLC

\* Issues are interchangeable, and so are the stages that work in the same way.
Symmetry == Permutations(Hashes) \cup Permutations(Locked)

\* The stages that all go through save_with_lock.
LockedNext == Locked = Procs /\ Next

LockedSpec == Init /\ [][LockedNext]_vars

=============================================================================
