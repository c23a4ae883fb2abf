---------------------------- MODULE ParallelPool ----------------------------
(***************************************************************************)
(* dev_parallel.py.  _legacy_run() works on the tasks of add_task() in     *)
(* batches of one thread each; a subprocess may take 600 seconds, and so   *)
(* may the batch.  run() gives its jobs to a pool of threads, with a       *)
(* semaphore around each; the two share nothing but the object.            *)
(***************************************************************************)
EXTENDS Integers, Sequences, FiniteSets, FiniteSetsExt

CONSTANTS
  MaxTasks, MaxRuns,        \* bounds: calls of add_task() and _legacy_run()
  BatchSize,                \* max_workers of the legacy API
  PoolJobs, JobId,          \* the jobs of one run(), and job -> id
  MaxWorkers, Backpressure, \* 0 is the same as no back-pressure
  NoTask

ASSUME PoolAssumption ==
  /\ MaxTasks \in Nat /\ MaxRuns \in Nat /\ BatchSize \in Nat \ {0}
  /\ IsFiniteSet(PoolJobs) /\ MaxWorkers \in Nat /\ Backpressure \in Nat

VARIABLES
  tasks,      \* what add_task() queued: [kind, status]; never emptied
  batch,      \* [pc, first]: the batch that is executed
  yielded,    \* its tasks whose future as_completed() has yielded
  completed, failed,   \* position -> how often the task is in the list of results
  executed, expired,   \* observation: how often a task ended / timed out
  runs, aborted,       \* observation: calls of _legacy_run(), calls that raised
  job,        \* job -> its state
  results     \* id -> the job whose result run() returns for it

poolVars == <<tasks, batch, yielded, completed, failed, executed, expired, runs, aborted, job, results>>
legacyVars == <<tasks, batch, yielded, completed, failed, executed, expired, runs, aborted>>

Kinds == {"subprocess", "delegate", "python"}   \* shell and others are subprocesses
Outcomes(kind) == CASE kind = "subprocess" -> {"completed", "failed", "timeout"}
                    [] kind = "delegate"   -> {"completed"}
                    [] kind = "python"     -> {"completed", "failed"}
InBatch == {i \in DOMAIN tasks : batch.first <= i /\ i < batch.first + BatchSize}
Ended(i) == tasks[i].status \in {"completed", "failed", "timeout"}
\* A list is extended by the results of S, in the order in which they came.
Extended(list, S) == [i \in DOMAIN list |-> IF i \in S THEN list[i] + 1 ELSE list[i]]

AddTask(kind) ==
  /\ batch.pc = "idle" /\ Len(tasks) < MaxTasks
  /\ tasks' = Append(tasks, [kind |-> kind, status |-> "queued"])
  /\ UNCHANGED <<batch, yielded, completed, failed, executed, expired, runs, aborted, job, results>>

(* A batch starts: each of its tasks runs again, whatever it did before.    *)
Started(first) ==
  /\ batch' = [pc |-> "batch", first |-> first]
  /\ yielded' = {}
  /\ tasks' = [i \in DOMAIN tasks |->
       IF first <= i /\ i < first + BatchSize THEN [tasks[i] EXCEPT !.status = "running"] ELSE tasks[i]]

BeginLegacyRun ==
  /\ batch.pc = "idle" /\ tasks # << >> /\ runs < MaxRuns
  /\ runs' = runs + 1
  /\ Started(1)
  /\ UNCHANGED <<completed, failed, executed, expired, aborted, job, results>>

(* _execute_legacy_task() in its thread.  A time-out is recorded at once.   *)
TaskEnds(i, how) ==
  /\ batch.pc # "idle" /\ i \in InBatch /\ ~Ended(i) /\ how \in Outcomes(tasks[i].kind)
  /\ tasks' = [tasks EXCEPT ![i].status = how]
  /\ executed' = [executed EXCEPT ![i] = @ + 1]
  /\ IF how = "timeout"
     THEN failed' = Extended(failed, {i}) /\ expired' = [expired EXCEPT ![i] = @ + 1]
     ELSE UNCHANGED <<failed, expired>>
  /\ UNCHANGED <<batch, yielded, completed, runs, aborted, job, results>>

TaskYielded(i) ==
  /\ batch.pc = "batch" /\ i \in InBatch \ yielded /\ Ended(i)
  /\ yielded' = yielded \cup {i}
  /\ UNCHANGED <<tasks, batch, completed, failed, executed, expired, runs, aborted, job, results>>

(* All are there: the two lists grow, and the next batch starts.            *)
BatchEnds ==
  /\ batch.pc = "batch" /\ yielded = InBatch
  /\ completed' = Extended(completed, {i \in InBatch : tasks[i].status = "completed"})
  /\ failed' = Extended(failed, {i \in InBatch : tasks[i].status # "completed"})
  /\ IF batch.first + BatchSize <= Len(tasks)
     THEN Started(batch.first + BatchSize)
     ELSE batch' = [pc |-> "idle", first |-> 1] /\ yielded' = {} /\ UNCHANGED tasks
  /\ UNCHANGED <<executed, expired, runs, aborted, job, results>>

(* Mutation: the results that are there are kept.                           *)
BatchLateCounts ==
  /\ batch.pc = "batch" /\ \E i \in InBatch : ~Ended(i)
  /\ batch' = [pc |-> "idle", first |-> 1] /\ yielded' = {}
  /\ completed' = Extended(completed, InBatch)
  /\ UNCHANGED <<tasks, failed, executed, expired, runs, aborted, job, results>>

(* The 600 seconds of the batch are over first: as_completed() raises, the  *)
(* executor waits for its threads, and the call ends without a result.      *)
BatchLate ==
  /\ batch.pc = "batch" /\ \E i \in InBatch : ~Ended(i)
  /\ batch' = [batch EXCEPT !.pc = "late"]
  /\ UNCHANGED <<tasks, yielded, completed, failed, executed, expired, runs, aborted, job, results>>
BatchRaises ==
  /\ batch.pc = "late" /\ \A i \in InBatch : Ended(i)
  /\ batch' = [pc |-> "idle", first |-> 1] /\ yielded' = {} /\ aborted' = aborted + 1
  /\ UNCHANGED <<tasks, completed, failed, executed, expired, runs, job, results>>

-----------------------------------------------------------------------------
(* run()                                                                    *)
Workers == Max({1, Min({MaxWorkers, Cardinality(PoolJobs)})})
Being(states) == {j \in PoolJobs : job[j] \in states}

JobTaken(j) ==
  /\ job[j] = "submitted" /\ Cardinality(Being({"taken", "executing"})) < Workers
  /\ job' = [job EXCEPT ![j] = "taken"]
  /\ UNCHANGED <<legacyVars, results>>
JobAcquires(j) ==
  /\ job[j] = "taken"
  /\ Backpressure = 0 \/ Cardinality(Being({"executing"})) < Backpressure
  /\ job' = [job EXCEPT ![j] = "executing"]
  /\ UNCHANGED <<legacyVars, results>>
JobEnds(j) ==
  /\ job[j] = "executing"
  /\ job' = [job EXCEPT ![j] = "ended"]
  /\ UNCHANGED <<legacyVars, results>>
JobYielded(j) ==
  /\ job[j] = "ended"
  /\ job' = [job EXCEPT ![j] = "yielded"]
  /\ results' = [results EXCEPT ![JobId[j]] = j]
  /\ UNCHANGED legacyVars

PoolInit ==
  /\ tasks = << >> /\ batch = [pc |-> "idle", first |-> 1] /\ yielded = {}
  /\ completed = [i \in 1..MaxTasks |-> 0] /\ failed = [i \in 1..MaxTasks |-> 0]
  /\ executed = [i \in 1..MaxTasks |-> 0] /\ expired = [i \in 1..MaxTasks |-> 0]
  /\ runs = 0 /\ aborted = 0
  /\ job = [j \in PoolJobs |-> "submitted"]
  /\ results = [id \in {JobId[j] : j \in PoolJobs} |-> NoTask]

LegacyNext ==
  \/ \E kind \in Kinds : AddTask(kind)
  \/ BeginLegacyRun
  \/ \E i \in DOMAIN tasks : \E how \in Outcomes(tasks[i].kind) : TaskEnds(i, how)
  \/ \E i \in DOMAIN tasks : TaskYielded(i)
  \/ BatchEnds
  \/ BatchLate
  \/ BatchRaises

JobsNext ==
  \/ \E j \in PoolJobs : JobTaken(j)
  \/ \E j \in PoolJobs : JobAcquires(j)
  \/ \E j \in PoolJobs : JobEnds(j)
  \/ \E j \in PoolJobs : JobYielded(j)

PoolNext == LegacyNext \/ JobsNext

PoolSpec == PoolInit /\ [][PoolNext]_poolVars

-----------------------------------------------------------------------------
Occurs(i) == completed[i] + failed[i]

PoolTypeOK ==
  /\ tasks \in Seq([kind : Kinds, status : {"queued", "running", "completed", "failed", "timeout"}])
  /\ batch \in [pc : {"idle", "batch", "late"}, first : 1..(MaxTasks + 1)]
  /\ yielded \in SUBSET DOMAIN tasks
  /\ completed \in [1..MaxTasks -> Nat] /\ failed \in [1..MaxTasks -> Nat]
  /\ job \in [PoolJobs -> {"submitted", "taken", "executing", "ended", "yielded"}]
  /\ results \in [{JobId[j] : j \in PoolJobs} -> PoolJobs \cup {NoTask}]

(* Between two calls the lists account for every execution: one entry for   *)
(* each, a second one if it timed out; fewer only if a call was aborted,    *)
(* and never none for a task whose last call came back.                     *)
ExecutionsAreListed ==
  batch.pc = "idle" =>
    \A i \in DOMAIN tasks :
      /\ Occurs(i) <= executed[i] + expired[i]
      /\ aborted = 0 => Occurs(i) = executed[i] + expired[i]
      /\ tasks[i].status = "queued" \/ Occurs(i) > 0 \/ aborted > 0

(* run() never executes more jobs than the semaphore has permits, and when  *)
(* all came back every id has the result of a job of that id.               *)
JobsAreBounded ==
  /\ Backpressure > 0 => Cardinality(Being({"executing"})) <= Backpressure
  /\ Being({"yielded"}) = PoolJobs => \A id \in DOMAIN results : \E j \in PoolJobs : results[id] = j /\ JobId[j] = id

(* The result of a batch lists what was executed, with no more jobs at once *)
(* than allowed.                                                            *)
PoolSound == PoolTypeOK /\ ExecutionsAreListed /\ JobsAreBounded
=============================================================================
