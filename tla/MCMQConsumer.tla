---------------------------- MODULE MCMQConsumer ----------------------------
(***************************************************************************)
(* Small instances of MQConsumer for TLC.                                  *)
(***************************************************************************)
EXTENDS MQConsumer, TLC

OneTopic == "jobs" :> "jobs"

\* The consumers are started with ids of their own, or with the same one.
OwnIds == [p \in Consumers |-> p]
SameId == [p \in Consumers |-> "loop"]

\* The consumers are interchangeable.
SameRole == Permutations(Consumers)

=============================================================================
