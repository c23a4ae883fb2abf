------------------------------ MODULE IssueBook ------------------------------
(***************************************************************************)
(* What the issue database promises to the stages of the pipeline, without *)
(* files, locks or processes: a book of issues in which every issue only   *)
(* moves on in its life, however many stages write in it.                  *)
(***************************************************************************)
EXTENDS Naturals

CONSTANT Hashes

VARIABLE book   \* [Hashes -> issue]; an issue nobody registered is "unknown"

\* Issue j can be a later version of issue i: sightings and records are only
\* added, a closed issue is not reopened, and wontfix is permanent.
Later(i, j) ==
    /\ i.count =< j.count
    /\ i.notes =< j.notes
    /\ i.status # "unknown" => j.status # "unknown"
    /\ i.status = "fixed" => j.status \in {"fixed", "wontfix"}
    /\ i.status = "wontfix" => j.status = "wontfix"

Init == \A h \in Hashes : book[h].status = "unknown"

\* A stage commits what it did in one step.
Commit == \A h \in Hashes : Later(book[h], book'[h])

Spec == Init /\ [][Commit]_book

=============================================================================
