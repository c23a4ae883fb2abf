----------------------------- MODULE MCRecovery -----------------------------
(***************************************************************************)
(* Small instances of WorkflowRunner and Recovery for TLC.  Recovery knows *)
(* of a run of the runner only its exit code, so the two are checked side  *)
(* by side: a behaviour is one of either module.                           *)
(***************************************************************************)
EXTENDS WorkflowRunner, Recovery

VARIABLE part

Step(i, a, d, ab, r) == [id |-> i, action |-> a, deps |-> d, abort |-> ab, ref |-> r]

(* A workflow that nests another; dependencies in and against the order of  *)
(* the file, around a cycle, and on a step that does not exist.             *)
MCFiles ==
  {[main |-> <<Step("a", k, da, ab, "sub"), Step("b", "workflow", db, FALSE, "sub"),
               Step("c", "ack", dc, FALSE, "")>>,
    sub |-> <<Step("s", "shell", <<>>, TRUE, ""), Step("t", t, <<"s">>, FALSE, "")>>]
    : k \in {"shell", "conditional"}, ab \in BOOLEAN,
      da \in {<<>>, <<"c">>, <<"b", "c">>}, db \in {<<>>, <<"a">>, <<"c", "x">>, <<"c">>},
      dc \in {<<>>, <<"b">>, <<"a", "b">>}, t \in {"signal", "loop", None}}

MCSummaries == {[NoSummary EXCEPT !.stale = TRUE, !.dlq = TRUE]}

SideInit ==
  /\ part \in {"runner", "recovery"}
  /\ RunnerInit /\ RecoveryInit
  /\ part # "runner" => file = CHOOSE f \in Files : TRUE

SideNext ==
  /\ UNCHANGED part
  /\ \/ part = "runner" /\ RunnerNext /\ UNCHANGED recoveryVars
     \/ part = "recovery" /\ RecoveryNext /\ UNCHANGED runnerVars

SideSpec ==
  /\ SideInit /\ [][SideNext]_<<part, runnerVars, recoveryVars>>
  /\ RunnerFairness /\ RecoveryFairness
=============================================================================
