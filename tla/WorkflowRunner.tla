--------------------------- MODULE WorkflowRunner ---------------------------
(***************************************************************************)
(* tools/dev_workflow_runner.py: one process of the runner executes the    *)
(* steps of one workflow of .mase/workflows.yaml in the order of their     *)
(* dependencies.  A step runs a command, another process of the runner (a  *)
(* nested workflow), a call into the message queue, or only pretends to    *)
(* (delegate, wait_for_user, signal, parallel).                            *)
(*                                                                         *)
(* A command that outlives the timeout of its step is abandoned: the       *)
(* runner kills the process it started, what that one had started keeps    *)
(* running (an orphan here).                                               *)
(***************************************************************************)
EXTENDS Integers, Sequences, FiniteSets, SequencesExt

CONSTANTS
  Tops,       \* processes a user starts
  MaxDepth,   \* bound: how deep runners start one another
  Files,      \* contents of workflows.yaml: name -> sequence of steps
  None

Steps == [id : STRING, action : STRING \cup {None}, deps : Seq(STRING), abort : BOOLEAN, ref : STRING]

(* The ids of the steps of a workflow are unique.                           *)
ASSUME RunnerAssumption ==
  /\ MaxDepth \in Nat /\ None \notin {0, 1} /\ None # "ok"
  /\ \A f \in Files : \A n \in DOMAIN f :
       /\ f[n] \in Seq(Steps)
       /\ \A i, j \in DOMAIN f[n] : f[n][i].id = f[n][j].id => i = j

(* A process is the path of processes that started it: <<top>>, <<top, 1>> *)
Procs == UNION {{<<t>> \o [i \in 1..d |-> 1] : t \in Tops} : d \in 0..MaxDepth}
Child(p) == Append(p, 1)

Simulated == {"delegate", "wait_for_user", "signal", "parallel"}
Called == {"calculate", "enqueue", "consume"}
Settling == {"ack", "nack"}
Commands == {"shell", "rule_check", "conditional"}
Statuses == {"ok", "failed", "timeout", "skipped"}

VARIABLES
  file,       \* the workflows of this installation
  proc,       \* process -> its state
  orphans,    \* <<process, step>> whose abandoned command still runs
  runLogs     \* the logs of workflow_runs/

runnerVars == <<file, proc, orphans, runLogs>>

Idle == [st |-> "idle", wf |-> None, path |-> <<>>, todo |-> <<>>, res |-> <<>>,
         busy |-> FALSE, status |-> None, exit |-> None]

-----------------------------------------------------------------------------
(* The order of the steps.                                                  *)

StepOf(steps, id) == steps[CHOOSE i \in DOMAIN steps : steps[i].id = id]
Ids(steps) == {steps[i].id : i \in DOMAIN steps}

(* resolve_order(): path are the calls of dfs() that are open, todo is the  *)
(* order so far.  A call looks at the names its step depends on, the loop   *)
(* outside at all steps; what is in the order already is passed over.       *)
Placed(r) == {r.todo[i].id : i \in DOMAIN r.todo}
Asked(r) ==
  IF r.path = <<>> THEN [i \in DOMAIN file[r.wf] |-> file[r.wf][i].id]
  ELSE StepOf(file[r.wf], Last(r.path)).deps
Open(r) == {i \in DOMAIN Asked(r) : Asked(r)[i] \notin Placed(r)}
Wanted(r) == Asked(r)[CHOOSE i \in Open(r) : \A j \in Open(r) : i <= j]

(* What is right by definition: the names are those of steps, and no set of *)
(* steps waits for itself.                                                  *)
DepsOf(steps, id) == ToSet(StepOf(steps, id).deps)
AllKnown(steps) == \A id \in Ids(steps) : DepsOf(steps, id) \subseteq Ids(steps)
Acyclic(steps) ==
  \A S \in SUBSET Ids(steps) : S # {} => \E id \in S : DepsOf(steps, id) \cap S = {}
Executable(steps) == Acyclic(steps) /\ AllKnown(steps)

-----------------------------------------------------------------------------
Has(r, d) == d \in DOMAIN r.res /\ r.res[d] = "ok"
Blocked(r) == \E d \in ToSet(Head(r.todo).deps) : ~Has(r, d)

Alive(p) == proc[p].st \in {"ordering", "running"}
Current(p) == Head(proc[p].todo)
Stepping(p) == proc[p].st = "running" /\ proc[p].todo # <<>> /\ ~proc[p].busy
Runnable(p) == Stepping(p) /\ ~Blocked(proc[p])
Busy(p, actions) == proc[p].st = "running" /\ proc[p].busy /\ Current(p).action \in actions

(* Mutation: a step that ran out of time did not fail, the loop goes on.    *)
RecordedUnlessFailed(r, s) ==
  [r EXCEPT !.res = [i \in DOMAIN r.res \cup {Head(r.todo).id} |->
                       IF i = Head(r.todo).id THEN s ELSE r.res[i]],
            !.busy = FALSE,
            !.todo = IF s = "failed" /\ Head(r.todo).abort THEN <<>> ELSE Tail(r.todo)]

(* A step gets its status; on_error: abort leaves the loop.                 *)
Recorded(r, s) ==
  [r EXCEPT !.res = [i \in DOMAIN r.res \cup {Head(r.todo).id} |->
                       IF i = Head(r.todo).id THEN s ELSE r.res[i]],
            !.busy = FALSE,
            !.todo = IF s \in {"failed", "timeout"} /\ Head(r.todo).abort
                     THEN <<>> ELSE Tail(r.todo)]

(* Mutation: a step that ran out of time did not fail.                      *)
RunStatusUnlessFailed(r) == IF \A i \in DOMAIN r.res : r.res[i] # "failed" THEN "ok" ELSE "failed"

RunStatus(r) == IF \A i \in DOMAIN r.res : r.res[i] = "ok" THEN "ok" ELSE "failed"

(* main(): an unknown name ends the process with 1.                         *)
Started(n) ==
  IF n \in DOMAIN file THEN [Idle EXCEPT !.st = "ordering", !.wf = n]
  ELSE [Idle EXCEPT !.st = "exited", !.wf = n, !.exit = 1]

Start(t, n) ==
  /\ proc[<<t>>].st = "idle"
  /\ proc' = [proc EXCEPT ![<<t>>] = Started(n)]
  /\ UNCHANGED <<file, orphans, runLogs>>

(* dfs() is called for a step that is not in the order.                     *)
Descend(p) ==
  /\ proc[p].st = "ordering" /\ Open(proc[p]) # {}
  /\ Wanted(proc[p]) \in Ids(file[proc[p].wf]) \ ToSet(proc[p].path)
  /\ proc' = [proc EXCEPT ![p].path = Append(@, Wanted(proc[p]))]
  /\ UNCHANGED <<file, orphans, runLogs>>

(* It raises ValueError (a cycle) or KeyError (an unknown id); nobody       *)
(* catches either, the process ends with 1.                                 *)
Refuse(p) ==
  /\ proc[p].st = "ordering" /\ Open(proc[p]) # {}
  /\ Wanted(proc[p]) \notin Ids(file[proc[p].wf]) \ ToSet(proc[p].path)
  /\ proc' = [proc EXCEPT ![p].st = "exited", ![p].exit = 1]
  /\ UNCHANGED <<file, orphans, runLogs>>

(* It returns: all the step depends on is in the order.                     *)
Place(p) ==
  /\ proc[p].st = "ordering" /\ Open(proc[p]) = {} /\ proc[p].path # <<>>
  /\ proc' = [proc EXCEPT ![p].path = Front(@),
                          ![p].todo = Append(@, StepOf(file[proc[p].wf], Last(proc[p].path)))]
  /\ UNCHANGED <<file, orphans, runLogs>>

(* resolve_order() returns, the loop of run_workflow() begins.              *)
Execute(p) ==
  /\ proc[p].st = "ordering" /\ Open(proc[p]) = {} /\ proc[p].path = <<>>
  /\ proc' = [proc EXCEPT ![p].st = "running"]
  /\ UNCHANGED <<file, orphans, runLogs>>

Skip(p) ==
  /\ Stepping(p) /\ Blocked(proc[p])
  /\ proc' = [proc EXCEPT ![p] = Recorded(@, "skipped")]
  /\ UNCHANGED <<file, orphans, runLogs>>

(* Steps that end within the process: the simulated ones always succeed, so *)
(* do ack and nack, whose result is not looked at, unless the queue raises. *)
Inline(p) ==
  /\ Runnable(p)
  /\ \/ /\ Current(p).action \in Simulated
        /\ proc' = [proc EXCEPT ![p] = Recorded(@, "ok")]
     \/ /\ Current(p).action \in Called \cup Settling
        /\ \E s \in {"ok", "failed"} : proc' = [proc EXCEPT ![p] = Recorded(@, s)]
     \/ /\ Current(p).action \notin Simulated \cup Called \cup Settling
                                    \cup Commands \cup {"workflow", None}
        /\ proc' = [proc EXCEPT ![p] = Recorded(@, "failed")]
  /\ UNCHANGED <<file, orphans, runLogs>>

(* A step without an action or a cmd raises KeyError, which nobody catches: *)
(* the process ends with 1 and writes no log.                               *)
Malformed(p) ==
  /\ Runnable(p) /\ Current(p).action = None
  /\ proc' = [proc EXCEPT ![p].st = "exited", ![p].exit = 1]
  /\ UNCHANGED <<file, orphans, runLogs>>

Launch(p) ==
  /\ Runnable(p) /\ Current(p).action \in Commands
  /\ proc' = [proc EXCEPT ![p].busy = TRUE]
  /\ UNCHANGED <<file, orphans, runLogs>>

CommandEnds(p) ==
  /\ Busy(p, Commands)
  /\ \E s \in {"ok", "failed"} : proc' = [proc EXCEPT ![p] = Recorded(@, s)]
  /\ UNCHANGED <<file, orphans, runLogs>>

(* The nested workflow is a process of its own.                             *)
Nest(p) ==
  /\ Runnable(p) /\ Current(p).action = "workflow"
  /\ Child(p) \in Procs /\ ~Alive(Child(p))
  /\ proc' = [proc EXCEPT ![p].busy = TRUE, ![Child(p)] = Started(Current(p).ref)]
  /\ UNCHANGED <<file, orphans, runLogs>>

NestedEnds(p) ==
  /\ Busy(p, {"workflow"}) /\ proc[Child(p)].st = "exited"
  /\ proc' = [proc EXCEPT ![p] =
                Recorded(@, IF proc[Child(p)].exit = 0 THEN "ok" ELSE "failed")]
  /\ UNCHANGED <<file, orphans, runLogs>>

(* subprocess.TimeoutExpired: the started process is killed.  The command   *)
(* of a shell, or of a killed nested runner, may go on.  The sub-steps of a *)
(* conditional time out on their own, the step then fails.                  *)
AbandonedBy(p) ==
  IF Current(p).action = "workflow"
  THEN IF Busy(Child(p), Commands) THEN {<<Child(p), Current(Child(p)).id>>} ELSE {}
  ELSE {<<p, Current(p).id>>}

(* Mutation: the timeout is not handed on to the shell.                     *)
TimeOutButShell(p) ==
  /\ Busy(p, {"rule_check", "conditional"})
  /\ proc' = [proc EXCEPT ![p] = Recorded(@, "failed")]
  /\ UNCHANGED <<file, orphans, runLogs>>

TimeOut(p) ==
  /\ Busy(p, {"shell", "rule_check", "conditional", "workflow"})
  /\ LET s == IF Current(p).action = "conditional" THEN "failed" ELSE "timeout"
     IN  IF Current(p).action = "workflow"
         THEN /\ Alive(Child(p))
              /\ proc' = [proc EXCEPT ![p] = Recorded(@, s),
                                      ![Child(p)].st = "exited",
                                      ![Child(p)].exit = -9]
         ELSE proc' = [proc EXCEPT ![p] = Recorded(@, s)]
  /\ \E left \in {{}, AbandonedBy(p)} : orphans' = orphans \cup left
  /\ UNCHANGED <<file, runLogs>>

OrphanEnds(o) ==
  /\ o \in orphans
  /\ orphans' = orphans \ {o}
  /\ UNCHANGED <<file, proc, runLogs>>

(* The end of run_workflow(): the log is named after the workflow and the   *)
(* second, so it may overwrite the one of another run.  main() does not     *)
(* look at the status.                                                      *)
Finish(p) ==
  /\ proc[p].st = "running" /\ proc[p].todo = <<>>
  /\ LET s == RunStatus(proc[p])
         new == [wf |-> proc[p].wf, by |-> p, status |-> s]
     IN  /\ proc' = [proc EXCEPT ![p].st = "exited", ![p].status = s, ![p].exit = 0]
         /\ \E lost \in {{}} \cup {{l} : l \in {x \in runLogs : x.wf = new.wf}} :
              runLogs' = (runLogs \ lost) \cup {new}
  /\ UNCHANGED <<file, orphans>>

RunnerInit ==
  /\ file \in Files
  /\ proc = [p \in Procs |-> Idle]
  /\ orphans = {}
  /\ runLogs = {}

Progress(p) ==
  \/ Descend(p) \/ Refuse(p) \/ Place(p) \/ Execute(p)
  \/ Skip(p) \/ Inline(p) \/ Malformed(p) \/ Launch(p) \/ Nest(p) \/ NestedEnds(p)
  \/ TimeOut(p) \/ Finish(p)

RunnerNext ==
  \/ \E t \in Tops : \E n \in DOMAIN file \cup {None} : Start(t, n)
  \/ \E p \in Procs : Descend(p)
  \/ \E p \in Procs : Refuse(p)
  \/ \E p \in Procs : Place(p)
  \/ \E p \in Procs : Execute(p)
  \/ \E p \in Procs : Skip(p)
  \/ \E p \in Procs : Inline(p)
  \/ \E p \in Procs : Malformed(p)
  \/ \E p \in Procs : Launch(p)
  \/ \E p \in Procs : CommandEnds(p)
  \/ \E p \in Procs : Nest(p)
  \/ \E p \in Procs : NestedEnds(p)
  \/ \E p \in Procs : TimeOut(p)
  \/ \E o \in orphans : OrphanEnds(o)
  \/ \E p \in Procs : Finish(p)

(* A process makes progress and its timers fire; nothing says that a        *)
(* command ever ends.                                                       *)
RunnerFairness == \A p \in Procs : WF_runnerVars(Progress(p))
RunnerSpec == RunnerInit /\ [][RunnerNext]_runnerVars /\ RunnerFairness

-----------------------------------------------------------------------------
(* A step is skipped because one it depends on did not succeed, never       *)
(* because it has not been tried yet (the order is right).                  *)
SkippedForReason ==
  \A p \in Procs : \A i \in DOMAIN proc[p].res : proc[p].res[i] = "skipped" =>
    \E d \in DepsOf(file[proc[p].wf], i) :
      d \in DOMAIN proc[p].res /\ proc[p].res[d] # "ok"

(* A run gets to its steps exactly when its dependencies have no cycle and  *)
(* name only steps, and ends with 1 otherwise unless it is killed before:   *)
(* the search of resolve_order() against the definition.                    *)
RefusedIffBroken ==
  \A p \in Procs : proc[p].wf \in DOMAIN file =>
    LET steps == file[proc[p].wf]
    IN  /\ ~Executable(steps) => proc[p].st # "running" /\ proc[p].res = <<>> /\ proc[p].exit # 0
        /\ Executable(steps) /\ proc[p].exit = 1 => \E i \in DOMAIN steps : steps[i].action = None

(* The status of a run is ok only if each step of the workflow ran and      *)
(* succeeded, and then no command the run started is left running.          *)
OkMeansAllRan ==
  \A p \in Procs : proc[p].status = "ok" =>
    /\ \A i \in Ids(file[proc[p].wf]) : Has(proc[p], i)
    /\ Len(p) = 1 => \A o \in orphans : o[1] # p

(* A process, as a run of a schedule: its steps are those of its workflow,  *)
(* and it is open from the moment their order is known.                     *)
AsRun(f, r) ==
  [plan |-> IF r.wf \in DOMAIN f THEN [i \in Ids(f[r.wf]) |-> DepsOf(f[r.wf], i)] ELSE <<>>,
   final |-> IF r.wf \in DOMAIN f THEN {i \in Ids(f[r.wf]) : StepOf(f[r.wf], i).abort} ELSE {},
   at |-> IF r.st = "running" /\ r.busy THEN {Head(r.todo).id} ELSE {},
   came |-> r.res,
   verdict |-> IF r.st = "running" THEN "open" ELSE IF r.st # "exited" THEN "none"
               ELSE IF r.exit = 0 THEN r.status ELSE "broken"]

Scheduled == INSTANCE Schedule WITH Runs <- Procs, run <- [p \in Procs |-> AsRun(file, proc[p])]

(* The depth-first search, the loop over its order, nested processes and    *)
(* time-outs implement a schedule.                                          *)
RunnerImplements == Scheduled!Spec

(* What is executed was tried once, after all it depends on succeeded and   *)
(* before any failure that ends the run; the status tells if all succeeded. *)
ExecutedInTurn == Scheduled!Kept

(* Every run ends, although commands may hang.                              *)
RunsEnd == \A p \in Procs : Alive(p) ~> proc[p].st = "exited"

(* The status and the steps of a run tell what was executed.                *)
RunnerSound == SkippedForReason /\ RefusedIffBroken /\ OkMeansAllRan /\ ExecutedInTurn
=============================================================================
