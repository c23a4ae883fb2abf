------------------------------- MODULE Schedule -------------------------------
(***************************************************************************)
(* What a runner of workflows promises, without processes, time-outs or a  *)
(* search for the order: a run executes the steps of its plan one at a     *)
(* time and each at most once, a step only after all it waits for          *)
(* succeeded; it passes over the steps that wait in vain; it goes on until *)
(* every step has an outcome, unless one fails that ends it; and it says   *)
(* ok exactly when every step succeeded.                                   *)
(***************************************************************************)
CONSTANT Runs

VARIABLE run
\* [Runs -> run].  A run has a plan (the steps each step waits for), the steps
\* whose failure ends it (final), the step it executes (at), the outcomes that
\* came, and a verdict: "none" before it begins, "open", or how it ended.

Succeeded(r) == {i \in DOMAIN r.came : r.came[i] = "ok"}

Ended(r) == \E i \in DOMAIN r.came : i \in r.final /\ r.came[i] \in {"failed", "timeout"}

\* A plan that can be executed: it waits for its own steps only, and no set of
\* them waits for itself.
Orderly(plan) ==
    /\ \A i \in DOMAIN plan : plan[i] \subseteq DOMAIN plan
    /\ \A S \in SUBSET DOMAIN plan : S # {} => \E i \in S : plan[i] \cap S = {}

\* Step i is next to be looked at.
Left(r, i) ==
    /\ r.verdict = "open" /\ r.at = {} /\ ~Ended(r)
    /\ i \in DOMAIN r.plan \ DOMAIN r.came

Ready(r, i) == Left(r, i) /\ r.plan[i] \subseteq Succeeded(r)

InVain(r, i) == Left(r, i) /\ \E d \in r.plan[i] : d \in DOMAIN r.came /\ r.came[d] # "ok"

With(r, i, o) ==
    [r EXCEPT !.at = {},
              !.came = [j \in DOMAIN r.came \cup {i} |-> IF j = i THEN o ELSE r.came[j]]]

\* The moves of run r, which is n then.
Forget(r, n) ==      \* a new run, which may be turned down at once
    r.verdict # "open" /\ n.verdict \in {"none", "broken"} /\ n.at = {} /\ n.came = <<>>

Begin(r, n) ==
    /\ r.verdict = "none" /\ r.came = <<>> /\ r.at = {} /\ Orderly(r.plan)
    /\ n = [r EXCEPT !.verdict = "open"]

Launch(r, n) == \E i \in DOMAIN r.plan : Ready(r, i) /\ n = [r EXCEPT !.at = {i}]

Outcome(r, n) ==     \* of the step that is executed, or of one that takes no time
    \E i \in DOMAIN r.plan, o \in {"ok", "failed", "timeout"} :
        /\ Ready(r, i) \/ (r.verdict = "open" /\ r.at = {i})
        /\ n = With(r, i, o)

Pass(r, n) == \E i \in DOMAIN r.plan : InVain(r, i) /\ n = With(r, i, "skipped")

Close(r, n) ==
    /\ r.verdict = "open" /\ r.at = {}
    /\ Ended(r) \/ DOMAIN r.came = DOMAIN r.plan
    /\ n = [r EXCEPT !.verdict = IF Succeeded(r) = DOMAIN r.plan THEN "ok" ELSE "failed"]

Break(r, n) ==
    r.verdict \in {"none", "open"} /\ n = [r EXCEPT !.verdict = "broken", !.at = {}]

Move(r, n) ==
    \/ Forget(r, n) \/ Begin(r, n) \/ Launch(r, n) \/ Outcome(r, n)
    \/ Pass(r, n) \/ Close(r, n) \/ Break(r, n)

Init == \A p \in Runs : run[p].verdict = "none" /\ run[p].came = <<>> /\ run[p].at = {}

Next == \A p \in Runs : run'[p] = run[p] \/ Move(run[p], run'[p])

Spec == Init /\ [][Next]_run

-----------------------------------------------------------------------------
\* A step that is or was executed is tried once, after all it waits for
\* succeeded, and none is executed beside a failure that ends the run.  The
\* verdict says whether every step of a plan without cycles succeeded.
Honest(r) ==
    /\ \A i \in r.at \cup {j \in DOMAIN r.came : r.came[j] # "skipped"} :
          i \in DOMAIN r.plan /\ r.plan[i] \subseteq Succeeded(r)
    /\ r.at \cap DOMAIN r.came = {}
    /\ r.at # {} => ~Ended(r)
    /\ r.verdict = "ok" => Orderly(r.plan) /\ Succeeded(r) = DOMAIN r.plan
    /\ r.verdict = "failed" => Succeeded(r) # DOMAIN r.plan

Kept == \A p \in Runs : Honest(run[p])

=============================================================================
