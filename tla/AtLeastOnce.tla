----------------------------- MODULE AtLeastOnce -----------------------------
(***************************************************************************)
(* What a queue with at-least-once delivery promises, without files, locks *)
(* or processes: a job that was submitted can be delivered again until it  *)
(* is settled (archived as done, or dead), and giving it up for delivery   *)
(* never comes before settling it.                                         *)
(***************************************************************************)
CONSTANT Jobs

VARIABLES
    submitted,   \* jobs the queue has answered for
    available,   \* jobs it can still deliver
    settled      \* jobs that are archived or dead

vars == <<submitted, available, settled>>

\* An earlier session may have left settled jobs behind.
Init ==
    /\ submitted \in SUBSET Jobs
    /\ settled = submitted
    /\ available = {}

\* A job that cannot be stored for delivery is settled at once.
Submit(j) ==
    /\ j \in Jobs \ submitted
    /\ submitted' = submitted \cup {j}
    /\ \/ available' = available \cup {j} /\ settled' = settled
       \/ settled' = settled \cup {j} /\ available' = available

Settle(j) ==
    /\ j \in available
    /\ settled' = settled \cup {j}
    /\ UNCHANGED <<submitted, available>>

Release(j) ==
    /\ j \in settled
    /\ available' = available \ {j}
    /\ UNCHANGED <<submitted, settled>>

\* A settled job is put back on request.
Reopen(j) ==
    /\ j \in settled
    /\ available' = available \cup {j}
    /\ settled' \in {settled, settled \ {j}}
    /\ UNCHANGED submitted

Next == \E j \in Jobs : Submit(j) \/ Settle(j) \/ Release(j) \/ Reopen(j)

Spec == Init /\ [][Next]_vars

-----------------------------------------------------------------------------
\* No submitted job is lost: it can still be delivered, or it is settled.
Kept == submitted \subseteq available \cup settled

=============================================================================
