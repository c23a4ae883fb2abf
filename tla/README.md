# A TLA+ verification of mas-engineer

mas-engineer is a set of Python tools (`src/mas-engineer/tools/`) and of agent
recipes (`src/mas-engineer/recipe/`) that improve a multi-agent system: a
scanner finds issues, recipes design, apply and validate changes, rules and a
gatekeeper decide what an agent may do, monitors watch the result. The recipes
are text for an agent; the part that has state and can go wrong in ways a test
does not show is the Python underneath. Every tool is a short-lived process,
several run at the same time, and all of them meet in files: a message queue in
`.ndjson` files, an issue database, ledgers, registries and logs in JSON, YAML
and text. Hardly any of these files is locked. This directory models that part.

Paths below are relative to `src/mas-engineer/`; `mq` is
`tools/dev_message_queue.py`, `consumer` is `tools/dev_mq_consumer.py`, `db` is
`tools/dev_issue_db.py`; other tools are named without `tools/`.

## 1. Inventory

| Component | State | Operations | What is hard | What makes it correct |
| --- | --- | --- | --- | --- |
| Message queue (`mq`) | per topic a live file, an archive, a lock file; one dead-letter file (DLQ) for all topics, without a lock | `enqueue`, `consume`, `ack`, `nack`, `gc_stale_in_flight` with `_gc_old_pending`, `requeue`, `replay_dlq`, `purge_dlq`, `compact_completed`; readers `depth`, `stats`, `replay` | processes interleave between two locks and between two files of one call; crash between two writes; leases that run out while the holder works; renames that fail; limits | no accepted job is lost; one live message per key; settled once; FIFO; bounded retries; at-least-once delivery |
| Consumer (`consumer`) | the recorded lease, a counter, the exit code | `main` loop, `_check_single_consumer`, `_handle_sigterm` | a signal handler that calls the queue on top of a call to the queue; check-then-act; restarts | only processed messages are archived; jobs settle in the end; the handler ends |
| Issue database (`db`, `dev_issue_db_bulk_import.py`) | one JSON file, a shared `.tmp` file, a lock | `register`, `mark_fixed`, `mark_wontfix`, `record_design`, `record_validation`, `save`, `save_with_lock` | lost updates; a shared temporary file; crash in a save; recipes that reload in a loop | can be loaded at any time; a saved mark is not undone; an issue only moves on in its life |
| Workflow runner (`dev_workflow_runner.py`) | results per step, a log file | `resolve_order`, `run_workflow`, nested runs | failed dependencies, abandoned commands, exit codes of nested runs | a step runs after its dependencies; "ok" means that all ran; every run ends |
| Phoenix recovery and health monitor (`dev_phoenix_recovery_run.py`, `dev_phoenix_log_persister.py`, `dev_recovery_defib.py`, `dev_health_monitor.py`) | messages of two topics, logs per request | levels, completion message, escalation, defibrillation | redelivery between two writes; a level judged by an exit code that is always 0 | a degraded run is logged, escalated and defibrillated |
| Change ledger (`dev_changes.py` and four other writers) | `.mase/changes.json` in two formats | `add_change`, `mark_rolled_back`, three `log_change` | read-modify-write without a lock; formats that exclude each other; death in a write | a change is lost for named causes only; unique ids |
| Directives and override (`dev_directive_applier.py`, `dev_recursion_override.py`) | a marker file, costs, files to patch | hooks before and after, cost gate, patches | two agents at a time; a marker torn by a death | a directive is not applied twice |
| Dispatch tracker (`dev_dispatch_tracker.py`) | a log that `done` rewrites, a topic of the queue | `add`, `done`, `get_tree`, `clear` | append during a rewrite; ids of a tenth of a second | a dispatch is in the log and in the tree |
| Parallel pool (`dev_parallel.py`) | tasks, two lists of results, a pool | `add_task`, `_legacy_run`, `run` | two time-outs for one task, late results | every execution is listed |
| Editor and back-ups (`dev_editor.py`) | files, back-up directories, git, a counter | `do_patch`, `--backup`, `--rollback-dir`, `--validate` | several editors; names of back-ups that meet | no broken text is committed; a back-up is what it says |
| Finding scanner (`dev_im_finder_scan.py`, `_lib`, checks) | issue database, report, queue | stages, filter, save, publish | issues with one identity; death between save and message; a check that raises | what is there is reported once |
| Bulk fixer (`bulk_findings_fixer.py`) | recipes | load a report, append texts | texts that break a file, fixes that collide | a broken recipe is reported, no text twice |
| Workspace and recipe manager (`dev_workspace.py`, `dev_recipe_manager.py`) | installation, workspace, git, registry of projects, a link | install, uninstall, init, clean, rollback, projects | commands that copy in both directions; interrupts between two steps | one product is always there; work is not overwritten; a project's content is kept |
| Agent generator (`dev_template_generator.py`, `dev_workspace.py --scaffold`, `--init-recovery`) | agent files, two registers, back-ups | create, refresh, scaffold, init | death between file and registers; back-ups with one name | a registered agent has a file; replaced versions are kept |
| Project initialization (`dev_generic_init.py`) | the files of a project | `--init`, `--bootstrap`, `--repair-symlinks` | repeated on changed projects; killed in a write | what the user changed stays; what is reported done is whole |
| Rule checkers and gatekeeper (`dev_rule_checker.py`, `dev_rule_checker_generic.py`, `dev_gatekeeper.py`) | rules, strikes, confirmations, the audit log | `--check`, `--all`, `--action`, the gate | what a rule has read changes before the action; a log everybody appends to; rules that generate rules | one command per delegation; what is refused is not done |
| YAML immune system (`dev_yaml_immune.py`) | none: reads recipes | three checks and `main` | each check loads the file again | a passed recipe can be used |
| Evidence, metrics, dashboards, templates, prompts, recipes | files | readers and writers of one file | little state of their own | see section 8 |

How they interact: publishers (health monitor, recovery, scanner, dispatch
tracker) call `enqueue`; consumers drain one topic each through `consume`, a
processor (`process_msg` of the log persister, of the defibrillator, ...) and
`ack` or `nack`; the defibrillator calls `gc_stale_in_flight` and `replay_dlq`
from inside its processor; the workflow runner acks or nacks a message when a
workflow ends and starts runners of its own; a recovery level is a run of the
runner; scanner, bulk import, command line and recipes share the issue database;
the scanner's report is what the fixer reads; editor, override, applier and
generator write the ledger of changes; the editor's counter is what a rule
looks at; the initialization writes the file that counts as a confirmation of
the user. There are no threads but those of the pool: every other interleaving
is one of processes at file operations, plus the one signal handler.

## 2. Modules

| Module | Models |
| --- | --- |
| `AtLeastOnce` | abstract: jobs are submitted, settled, released. A job leaves "available" only after it is settled |
| `MessageQueue` | `mq`, shown to implement `AtLeastOnce` |
| `MessageQueue_proofs`, `Delivery_proofs` | theorems about `MessageQueue`: types, loss, refinement, keys; then order, sharing, retries, settling, replay |
| `CompletedArchive` | `compact_completed` of `mq` against `ack` and `requeue` |
| `MQConsumer` | `consumer` on top of the actions of `MessageQueue` (it EXTENDS it and conjoins its actions) |
| `MQConsumer_proofs` | theorems about `MQConsumer`, on top of those about the queue |
| `IssueBook` | abstract: a book of issues in which each issue only moves on |
| `IssueDB` | `db` and the ways the pipeline uses it, shown to implement `IssueBook` |
| `IssueDB_proofs` | theorems about `IssueDB` |
| `Schedule` | abstract: a run executes the steps of a plan, each once and after all it waits for |
| `WorkflowRunner` | the runner, its nested runners and the commands it abandons, shown to implement `Schedule` |
| `Recovery` | Phoenix recovery, its two consumers and the health monitor over two topics |
| `Recovery_proofs` | theorems about `Recovery` and `WorkflowRunner` |
| `ChangeLedger`, `Directives`, `DispatchTracker`, `ParallelPool` | one tool each, see the inventory |
| `Editor`, `Scanner`, `RecipeRepair` | the editor; a scan and its database; the findings of a recipe, an agent that follows them, and the fixer |
| `Installation`, `Projects`, `AgentFactory` | the workspace manager with the recipe manager; its project commands; the generator |
| `ProjectInit`, `GenericRules`, `Gatekeeper`, `RuleChecker`, `RecipeChecks` | what stands before an action: initialization, rules, gate, checks of recipes |
| `Gatekeeper_proofs` | theorem about `Gatekeeper` |
| `Records_proofs` | theorems about `Directives`, `RuleChecker`, `ChangeLedger`, `CompletedArchive`, `GenericRules`, `ProjectInit`, `RecipeChecks`, `ParallelPool`, `DispatchTracker` |
| `Tools_proofs` | theorems about `Installation`, `Projects`, `Editor`, `AgentFactory`, `Scanner`, `RecipeRepair` |
| `MCMessageQueue`, `MCMQConsumer`, `MCIssueDB` | symmetry and function-valued constants for TLC |
| `MCRecovery`, `MCRecords`, `MCTools` | small instances of several components side by side |

A definition that starts with the comment "Mutation:" is not part of a
specification: it is a plausible wrong version of the definition after it. Used
in its place it makes the property it is paired with in `PROJECT.json` fail, and
so shows that the property looks at the code.

A variable declared as an "observation" (`mishap`, `causes`, `losses`, `missed`,
`gone`, `stops`, `used`, `smuggled`, ...) is a history variable: no guard reads
it, it records what happened so that a property can say "only because of".
These lists of causes are part of what the properties claim: they are the
complete list of the ways in which the file may lose something.

Side by side. The components of `MCRecords` (and of `MCTools`, `MCRecovery`) do
not write one another's files. A behaviour of their composition is a behaviour
of one of them, chosen by the variable `part` (`tool`), with the others at their
initial state; so one run answers one kind of question for all of them, and its
state space is the sum of theirs, not the product. Where components do share
state they are composed properly: `MQConsumer` with `MessageQueue`, `Recovery`
with the abstract queue, `Scanner` and `Directives` with what they share.

### MessageQueue

State and code. `live[f]` is `<topic>.ndjson`, `done[f]` is
`<topic>.completed.ndjson`, `dlq` is `signals_dlq.ndjson` and `dlqTmp` its
`.tmp`. `lock[f]` is the flock of the topic, which covers the live file only.
`task[p]` is the point a call has reached when it is not over after one step:
after `_find_msg` has returned a path and an index (`Found`), between its two
writes with the lock held (`Writing`), and inside `replay_dlq`/`purge_dlq`
(`Replaying`, `Replacing`). `held[p]` is the id the caller got from `consume`.

Granularity. One action runs from one point where others can see or disturb
something to the next. `enqueue`, `consume`, `nack` with a retry and
`gc_stale_in_flight` read and replace one file under its lock: one action.
`ack` is `Find` (lock, look, unlock), `AckArchive` (lock, look again, append to
the archive), `WriteTopic` (rename, unlock). A `nack` that gives up, `requeue`
and the TTL sweep have the same shape. `replay_dlq` has one action for the read,
one per nested `enqueue`, one for the `.tmp` file and one for its rename.
A crash can happen wherever a process has a call open or a message in hand.

Abstractions, by name:
- a file is a set of records; a live record has its line position `pos`, so file
  order and list indices are definable. Equal lines of an archive merge.
- time is what the code compares: `in_flight_at` is none, fresh or stale,
  `next_retry_at` is due or not, `enqueued_at` is older than the TTL or not.
  Messages age only while their file is unlocked (nobody can look meanwhile).
- the payload is `job`. A replayed dead letter gets a new id and keeps its job.
- a `.tmp` file of a topic is private to the lock holder, so write and rename are
  one step; the `.tmp` of the DLQ is shared and is modelled.
- an OSError of a rename is the optional call `"storage_error"`: `enqueue` then
  writes to the DLQ (`Append`), other calls raise (`WriteFails`).
- `FindMissing` looks at all topics in one step; `_find_msg` takes their locks
  one after the other.
- the DLQ entries of one TTL sweep are appended in one step.
- a process holds at most one message, and messages carry no consumer id that
  `ack`/`nack` would compare: the code does not compare it either.
- left out: `last_error`, lines that do not parse, `_idempotency_index` (a
  process-local cache that no call reads), and readers, which change nothing.

`Calls` says which optional calls a deployment makes (`nack`, fatal `nack`,
`gc`, `ttl`, `requeue`, `replay`, `purge`, `storage_error`). It exists because
the guarantees depend on it: see sections 3, 5 and 7. In the repository the
consumer and the command line collect (`gc`), the defibrillator collects and
replays; `_gc_old_pending`, `requeue` and `purge_dlq` are public functions that
only tests call so far.

`CompletedArchive` looks at the archive of one topic alone, as lines: `ack`
appends, `requeue` removes from the archive or from a dated one, a compaction
reads, copies to the file of the day, opens (truncates) and keeps the last
lines, each a step of its own as it takes no lock.

### MQConsumer

`pc[p]` is where `main` stands: `off`, `gc` (collect stale leases), `poll`,
`got` (consumed, lease not yet recorded: between lines 180 and 213), `fetch`,
`work` (in the processor), `ack`, `acked`, `nack`, `nacked`, `term` (in the
SIGTERM handler's `nack`), `blocked` (the handler waits for a lock of its own
process). Each step conjoins the action of the queue it calls: `Receive` is
`Consume`, `Look` is `Find`, `FirstWrite` is `AckArchive` or `NackDead`, and so
on. A signal can arrive at every `pc`. The handler reads the recorded lease:
without one it exits (`SigtermExit`), with one it calls `nack` (`SigtermNack`,
or `SigtermBlocks` when the interrupted code holds the topic's lock).

The processor is code of its own: it returns or raises. A processor that itself
holds a queue lock when the signal arrives is not modelled. The repeated polls
of one `consume` window are one `NoMessage` step, at the last look. `Kill` is a
crash of a process that holds something; killing one that does not is a start.
Producers and the clock are external.

### IssueDB

`db` and `tmp` are the two files (absent, empty, torn, full), `mem[p]` the copy
a process loaded, `fd[p]` where the file it has open for writing is by now: the
name of the `.tmp` is shared, so a process can keep writing to a file that
another one has renamed. An issue has a status, a count of sightings and a
count of notes (`past_designs` and `past_validation_outcomes` together). Three
ways to use it: `Locked` (`save_with_lock`), plain (scanner, bulk import, command
line) and `Reloading` (the recipes' loops that construct `IssueDB()` per item:
`recipe/instructions/sub_mas-im-validator.md:108-130`,
`recipe/instructions/sub_mas-im-designer.md:80-96`). In the repository only
tests call `save_with_lock`; what it guarantees is what the pipeline would get
from using it. Left out: `summary()` and the merge of goose verdicts (derived
data), the status `false_positive` (no code sets it).

### WorkflowRunner and Recovery

`proc[p]` is one process of the runner: what `run_workflow` has left to do and
the results so far; the processes are paths, `<<u>>` a run a user starts,
`<<u, 1>>` the runner its current step started. The depth-first search of
`resolve_order()` is steps of the process: `path` are the open calls of `dfs()`,
`Descend` opens one, `Place` ends one, `Refuse` is its two exceptions; `Acyclic`
and `AllKnown` are the definition it is checked against. A command that outlives its step's time-out is in `orphans`: the
runner goes on, the command too. What a command does is left out.

`Schedule` knows no processes, time-outs or search: a run has a plan (what each
step waits for), the steps whose failure ends it, the step it executes, the
outcomes that came and a verdict. `AsRun(file, proc[p])` is a process seen as
such a run. The search for the order is not seen; `Execute` is the run's `Begin`,
which demands a plan without cycles; `Launch` and `Nest` start a step; an outcome
comes with `Inline`, `CommandEnds`, `NestedEnds` or `TimeOut`; `Skip` passes a
step over; `Finish` closes the run; an exception (`Refuse`, `Malformed`) or a kill
breaks it off; `Start` and `Nest` make a process a new run. Starting a nested
workflow and giving it up move two runs at once, so a step of `Schedule` moves
any number of runs.

In `Recovery` a level is judged by the exit code, which is 0 also for a run that
failed (section 7). `mail` is the queue as `AtLeastOnce` promises it: pending,
leased, done, dead; a lease whose holder is gone is given up. `worker` is how
far the two processors are: log, escalate, log again, ack. `faults` counts
crashes, enqueues that fail and logs that cannot be written together.

### The files nobody locks

`ChangeLedger`: `ledger` is `changes.json` in one of its forms (no file, empty,
list, dictionary), each call of the five writers reads it, truncates and writes
(three actions), and can die between the last two. `Directives`: `marker` is
`directive_already_applied.json`, `hook[a]` where an agent's call is (check,
goose run, read, truncate, write); the override is a second tool on the same
patches. `DispatchTracker`: an instant is the tenth of a second that becomes an
id, and `Printed` is the least set that holds the roots and the children of what
it holds, which is what the recursive printing reaches. `ParallelPool`: `batch`
and the two lists are `_legacy_run`, `job` and `results` are `run`; a list is
the count of the entries of each task, as nothing looks at its order.

### The tools a person or an agent calls

`Editor`: `saved[<<second, name>>]` is a back-up, `head` what git has,
`counter` the file rule R55 looks at. `Scanner`: `scan` is the running process
with its own copy of the database, `issues` the saved one; an identity is what
`db` hashes. `RecipeRepair`: a recipe is what the findings of
`run_yaml_scan` ask of it (`Findings` is that function); `Follow` is an agent
that does what a finding advises, the fixer appends its text, which ends in YAML
that does not parse. `Installation`: `top`, `hidden`, `work` and `managed` are
the four places of a file, as versions. `Projects`: a command changes directory,
link and registry in steps and may be interrupted between them.
`AgentFactory`: `agent`, `sot` (workflows.yaml), `subRecipes` (main recipe) and
the back-ups.

### What stands before an action

`ProjectInit`: `init.todo` is the list of files a command has yet to write, each
`Once` (skipped if it exists) or `Anew`; `Kill` may leave the file it writes
half. `GenericRules`: a check is a sequence of reads and writes of
`.rule_strikes.json`, `rules.yaml` and its copy. `Gatekeeper`: `keeper[p]` is
the rule a gate looks at next; `Following` is the matrix. `RuleChecker`: a
planned action is the words of its text, the path the rules find in it, and the
file it writes, which need not be the same; `Ask` is the answer, `Act` what the
caller does later. `RecipeChecks`: `check.todo` is the list of looks a check has
yet to take, each reads the file anew; `seen` are the states of the files since.

## 3. Runs

| Run | Checks | Instance |
| --- | --- | --- |
| `mq_delivery` | `TypeOK`, `NoLoss`, `KeyUnique`, `DeliveredInOrder`, `SharedOnlyAfterRecovery`, `Implements` | 2 processes, 1 topic, 1 key; nack, fatal nack, gc; 3 lines, 1 crash |
| `mq_storage` | `SettledOnce`, `UndeliveredKept`, `RetriesBounded` | renames that fail, the TTL sweep, requeue, 1 crash |
| `mq_replay` | `NoLoss` | 2 dead letters of an earlier session, replayed into a topic of depth 1, or purged, by 2 processes; 1 crash |
| `mqc_delivery` | `ConsumerSound`, `Implements` | 2 consumers with one id and a producer; 2 messages per run, failing renames, 1 crash, 1 SIGTERM at any point |
| `mqc_liveness` | `JobsSettle` | 2 consumers with ids of their own, restarted when they exit; 1 crash |
| `idb_locked` | `Readable`, `MarksKept`, `BookImplements`, no deadlock | 2 locked stages, 2 issues, 1 crash |
| `recovery` | `RunnerSound`, `RunnerImplements`, `EscalationsSound`, `RunsEnd`, `DegradedReachesDefib` | workflows of 3 steps with and without cycles, unknown ids, abort, and a nested workflow; 1 request run twice, 2 levels, 1 request of the monitor, 1 fault |
| `records` | one `...Sound` invariant per component of `MCRecords` | two processes per tool, see the bounds below |
| `tools` | `ScannerSound`, `EditorSound`, `RepairSound`, `ProjectsSound`, `NeverNeither`, `WorkKept`, `AgentsSound`, `AdviceLasts`, `EmptyIsBeingWritten` | see the bounds below |
| `mq_replay_loss` | violates `NoLoss` | a replay while another process nacks a message for good |
| `mqc_self_lock` | violates `SigtermEnds` | SIGTERM inside a critical section |
| `idb_recipe` | violates `MarksKept` | the validator's loop over two issues |

`ConsumerSound` is `ConsumerTypeOK /\ SettledOnce /\ ArchivedWasProcessed` and,
where nobody requeues, `LeaseSharedOnlyAfterRecovery`; an invariant `XSound` is the conjunction of the named parts that precede it in its
module (its type invariant, if it has one, and its safety properties), each with
a comment of its own.

Where a run leaves something out, the reason is a divergence of section 7 that
would hide everything else: `mq_delivery` makes no TTL sweep, `mq_replay` has
no nack, `mq_storage` has no collector (with failing renames and the collector
retries grow without end, and so does the state).

Bounds, and why they are enough. Two processes: every race in this code is
between two calls (each lock has one holder and the other waits), and the third
role, the collector, is a separate action. `MaxStamp` is 2 or 3 lines: two make
order, indices that move, and "another message was removed first" happen, the
third comes behind them or is the requeued copy. One key: keys only meet equal
ones. One topic: topics share nothing but the DLQ, whose entries are told apart
by id. `MaxRetries = 2` gives one retry and one giving up. `MaxSlow = 1`: a
lease outlives its limit while its holder works at most once per message; that
is a bound of the model, without it a message could be recovered for ever. One
crash: each property speaks of one job, and what a second crash finds is a state
the first one left. `MaxCount`, `MaxNotes` are 1 or 2: they are counters that
nothing compares.

In `recovery` a fault is a crash, an enqueue or a log that fails; two runs of a
request and two levels make "some passed" and "the second completion has the key
of the first" happen. In `records`: four calls on the ledger (two overlap, and
another one follows each of them), three entries and two instants in the
dispatch log (ids that meet, a tree that is cut off), two days and at most one
line before a compaction, three tasks in batches of two, two runs of them; three
jobs of which two have one id, with two workers and one permit; two agents, two
directives and three patches (one of which survives its replacement, one
incomplete); three initializations with one kill and two changes by the user;
two checkers with three plans and counts that start just below the limit; two
gates, two delegations, three commands; three questions to the rules and one
change from outside; a recipe and a text that refer to each other, two checks,
one rewrite. `FewLosses` stops the dispatch log after one cause of loss: two at
once show nothing that one does not. In `tools`: defects that share an identity
and one whose identity moves with its line; a whole or a broken recipe in one of
two files, of which one is in two scopes, and one run of the fixer or one edit;
two editors, two paths with one last part, three versions and two seconds; the
basis project and two others with two contents; one recipe, no sub-agent
(`Subs = {}`: sub-agents are copied like the main recipe), two editions and two
commits; two agents of which one is a recovery agent, four versions, two
seconds; a locked, a plain and a reloading stage of the issue database with one
issue and no crash (after one `EmptyIsBeingWritten` says nothing; `idb_locked`
has the crashes). Each of these is the smallest in which two calls meet on one name and
a third one sees the result.

Deadlock is not checked where the system may stop (all bounds used up, or all
stages stopped by a torn database); `idb_locked` checks it. Symmetry is over
processes and issues, and never in a run with a liveness property.

## 4. Fairness

`mqc_liveness` and `mqc_self_lock` assume `ConsumerFairness`:
- a running consumer takes its next step (`WF(Loop(p))`): the operating system
  schedules it, and `flock` is granted eventually as the model's critical
  sections are left by the same loop;
- `Steady` consumers are started again when they exit and the guard lets them in
  (`WF(Start(p))`): a topic is drained again in each run of its workflow, under
  the id written there (`recipe/wf_im_consume_findings.yaml:48`). This is an
  assumption about the deployment, not about the code: a topic whose workflow is
  never run again keeps its messages. Nothing is assumed of a start that refuses:
  it is a stutter for the queue;
- leases run out and back-off times pass.
No fairness for the producer, the choice of the processor between returning and
raising, crashes or signals. `JobsSettle` needs the restart of the consumer
that crashed: a consumer with another id refuses to start while the crashed
one's message is in flight (section 7, no. 9).

`recovery` assumes `RunnerFairness`, that a process of the runner takes its next
step and that its timer fires (`WF(Progress(p))`; a command itself may hang for
ever), and `RecoveryFairness`: the two consumers take, process and acknowledge
what is in their topics, and the lease of a consumer that died is given up,
which is what `JobsSettle` shows of the queue. Nobody has to start a recovery, a
level may take for ever, and nothing is assumed of the monitor.

## 5. Proofs

TLAPS checks eight modules of theorems, for all values of the constants: any
number of processes, topics, keys, issues, agents, files, crashes, retries. Every
invariant that a run checks is also a theorem, and so are all three refinements
and both action properties.

| Theorem | States | Under |
| --- | --- | --- |
| `TypeCorrect` | `Spec => []TypeOK` | |
| `NothingLost` | `Spec => []NoLoss` | no `ttl`, `requeue`, `replay`, `purge` in `Calls` |
| `QueueImplements` | `Spec => Implements` | the same |
| `KeysUnique` | `Spec => []KeyUnique` | no `requeue` |
| `RetriesLeft` | `Spec => []RetriesBounded` | no `gc` |
| `SharedWhenRecovered` | `Spec => []SharedOnlyAfterRecovery` | no `requeue` |
| `DeliveryInOrder` | `Spec => []DeliveredInOrder` | no `requeue`, `replay` |
| `UndeliveredNotLost` | `Spec => []UndeliveredKept` | no `replay`, `purge` |
| `MessageSettledOnce` | `Spec => []SettledOnce` | |
| `ReplayLosesNothing` | `Spec => []NoLoss` | no calls but `gc`, `replay`, `purge` |
| `ConsumersAreSound` | `ConsumerSpec => []ConsumerSound` | |
| `ConsumersImplement`, `ConsumersLoseNothing` | `ConsumerSpec => Implements`, `ConsumerSpec => []NoLoss` | as `NothingLost` |
| `ConsumersShareRecovered` | `ConsumerSpec => []LeaseSharedOnlyAfterRecovery` | no `requeue` |
| `AlwaysReadable`, `MarksAreKept` | `Spec => []Readable`, `Spec => []MarksKept` | all stages are locked |
| `LockedImplements`, `LockedTypes` | `Spec => BookImplements`, `Spec => []TypeOK` | all stages are locked |
| `EmptyIsTransient` | `Spec => []EmptyIsBeingWritten` | |
| `GateIsSound` | `GateSpec => []GateSound` | |
| `RecoveriesAreEscalated` | `RecoverySpec => []EscalationsSound` | |
| `RunnerAlwaysSound` | `RunnerSpec => []RunnerSound` | |
| `RunnerFollowsSchedule` | `RunnerSpec => RunnerImplements` | |
| `RunnerExecutesInTurn` | `RunnerSpec => []ExecutedInTurn` | |
| `DirectivesAlwaysSound`, `RulesAlwaysSound`, `LedgerAlwaysSound`, `ArchiveAlwaysSound`, `GenericAlwaysSound`, `InitializationAlwaysSound`, `ChecksAlwaysSound`, `PoolAlwaysSound`, `TrackerAlwaysSound` | the `...Sound` invariant of each component of `MCRecords` | |
| `OneProductStays`, `WorkIsKept`, `InstallationTypes` | `NeverNeither`, the action property `WorkKept`, types of `Installation` | |
| `ProjectsAgreeAlways`, `EditorContains`, `AgentsAlwaysSound`, `ScansAlwaysSound`, `RepairAlwaysSound` | the `...Sound` invariant of each other tool of `MCTools` | |
| `AdviceIsNotUndone` | `AdviceLasts` of `RecipeRepair`, an action property | any recipes and findings |

Every theorem stands under the named assumption on the constants of its module
(`QueueAssumption`, `LedgerAssumption`, ...), which TLC evaluates in the runs.
These say the types of the constants; a bound (`MaxCalls`, `MaxKills`, ...) is
any natural number, so it bounds nothing. Beyond types they say:
- sets whose members the code counts are finite (agents, checkers, defects,
  modelled files, jobs of the pool): there are finitely many processes and files;
- names that stand for "none" are no real names (`None`, `NoOne`, `""`, `Root`,
  `"tools"`, `"syntax"`; for the runner also none of the outcomes 0, 1, "ok");
- the ids of the steps of a workflow are unique
  (the runner keys what was placed and executed by them);
- `KeepRecent <= MaxLines` (both are constants of `compact_completed`), the
  basis project is a project, the kinds of files of `Installation` do not
  overlap, a first ledger is one that the writers themselves write, a recipe
  without `sub_recipes` names none.

The restrictions on `Calls` are not for convenience: section 7 shows that each of
them is needed (`requeue` also brings a second message with a key to life and
brings an old id back; a replayed dead letter is a job that was delivered,
behind jobs that were not).

### The queue

`TypeCorrect`. `TypeOK` needs `Finite`: list indices are cardinalities, which are
numbers only for finite files. `TypeInv == TypeOK /\ Finite` is inductive.

`NothingLost`. `NoLoss` is not inductive: when a process that is between its two
writes renames the live file, the new content comes from `task[p].msgs`, so the
invariant must say what that is. `SafeInv` adds `WriterLocks` (a process that is
`Writing` holds the lock of its file), `WriterSettled` (what it is about to write
is the live file without one message whose job is settled already), `NoDlqCall`
(nobody rewrites the DLQ: the assumption on `Calls`) and `JobsKept`. Nobody else
changes a locked live file, so the second write loses nothing. The proof has one
step per action of `Next`; a crash only drops the task. `QueueImplements` uses
the same invariant: the first write is a `Settle` of the abstract queue, the
rename a `Release`, `Enqueue` a `Submit`, and everything else a stutter.

`KeysUnique` (`KeyInv`): a pending rewrite is a subset of the locked live file
(`WriterShrinks`), so that it cannot add a second message with a key.

`RetriesLeft` (`RetryInv`): pending rewrites have retries left as well.

`SharedWhenRecovered` and `DeliveryInOrder` rest on what any step does to the
live files, `Evolves`: it adds one new message with the next id, or changes one,
or only removes, or gives leases back. Proved once for all actions, it gives
`IdsUnique`, and then `ShareInv` (`FirstTry`: a message nobody gave up has one
holder) and `OrderInv` (`FirstPlace`: what was never received stands behind what
was) need no look at single actions. `ReplaysAsked` says that only a deployment
that replays is ever inside `replay_dlq`.

`UndeliveredNotLost` (`FreshInv`): a pending rewrite lacks only messages that
were delivered or are in the DLQ (`FreshKept`). `MessageSettledOnce` (`OnceInv`):
all records of one id are in one topic's files and no id is above the counter
(`IdsPlaced`); before the first crash a message that is live and settled has a
writer that is about to remove it (`Clean`). `ReplayLosesNothing` (`ReplayInv`):
what a replay has read and not yet enqueued is still in the DLQ, or in `dlqTmp`,
until the rename (`ReplayKept`); several replays at a time are allowed.

### The consumer

`ConsumersAreSound` rests on `ConsumerInv`: `OnceInv` of the queue, and
`ControlInv`, what `main()` holds and has recorded at each of its lines
(`Stands`) and how its counters relate (`Tallies`). The steps of the queue keep
their invariants by the lemmas about the queue. New is the handler, which
interrupts one: `nack` starts from the recorded lease while a call of the same
process is open. It is a stutter of the queue or a `Find` of its own, and so
`ConsumersImplement` follows from the mapping of the queue. The abstract queue
loses no job (`PromiseKept`), which makes `ConsumersLoseNothing` a consequence of
the refinement alone. `ConsumersShareRecovered` is the last part of
`ConsumerSound`; it needs `FirstClaim` (a lease nobody gave up has one
claimant, held or recorded).

### The issue database

`LockInv`: whoever is in a session holds the lock
(`SessionLocks`), so at most one is; the `.tmp` file holds exactly what it wrote
and nobody has the database itself open (`TmpOwned`); its copy is a later version
of the database and shows its marks (`Builds`); the database can be loaded and
shows all saved marks (`Saved`). Four theorems follow from it.
`EmptyIsTransient` needs no lock: whoever has a file open is about to write it
(`OpenInv`).

### The gate

`GateIsSound` rests on `GateInv`. `GateSound` is not inductive: that a gate
executes at most one command per delegation depends on a delegation never
becoming the last line of the log again. `Made` says that the log, the gates and
the history only know delegations that were made, so a new one is new to all;
`Spent` that a delegation a gate has spent, or is about to, is not the last line
any more, so that no later look of R18 finds it; `Allowed` that a gate beyond
R19 serves a request R19 allows, from which `DeletesInside` follows, because for
a delete the last word of the arguments is its target (`GateAssumption`).
`LoggedBefore` counts the gates between the log and the command, which needs
their set to be finite. The confirmation, the checkpoints and the log change
freely between two rules; nothing is assumed of them.

### Recovery

`RecoveryInv` follows a report through the two topics: what a worker holds is
leased (`HeldIsLeased`), the persister that has a degraded completion in hand has
logged and escalated as far as its place says (`PersisterKept`), a run publishes
one completion (`OneCompletionPerRun`), which without a fault is handled once
(`HandledOnce`). Letters never disappear and keep what they tell (`MailKept`), so
the escalation that the log names stays.

### The runner

`RunnerInv` describes each process by what it is doing (`Sane`). While it orders
its steps, those in the order are behind all they depend on (`InOrder`), and the
open calls are a chain of steps that are not in the order, each needed by the one
before (`Chain`). So a name that is open already closes a cycle, and the set of
the calls since then refutes `Acyclic`; and when nothing is left, the first
member of any set of steps in the order depends on none of the set. No induction
over the workflow is needed, because the search is a state machine. While it
runs, each step is recorded or left, unless something is not ok already
(`WhileRunning`); a run with an abandoned command has something that is not ok,
and a nested process is never one that a user started (`ChildApart`).

`RunnerFollowsSchedule` takes each process as a run (`AsRun`) and shows that each
action is a move of the runs it touches, and stands still for all others.
`RunnerInv` does not say enough for it. `Skip` and `Launch` may only happen when no
failure has ended the run, but `RunnerInv` allows something to be left after one;
`Finish` may only close a run whose steps all have an outcome, or that was ended,
but `RunnerInv` only says that something is not ok otherwise. `Exact` says both:
after a step that ends the run nothing is left, and without one each step has an
outcome or is left. Also, exit code 0 goes with a status, so that a verdict is
never mistaken. That the plan can be executed when a run begins is the result
about the search above.

`RunnerExecutesInTurn`, the last part of `RunnerSound`, uses nothing of the runner but this refinement: the moves
of a schedule keep a run honest (`MovesAreHonest`), a step under way or with an
outcome of its own having all it waits for behind it. `HonestRun` adds what makes
it inductive, that a run under way has a plan without cycles and one that is not
executes nothing. This holds for nested runs as well, each against its own plan,
and whatever becomes of the process.

### Files without a lock

These invariants have one form: what the history variable says went wrong, or
the file and the copies that processes have of it fit together.
- `DirectivesInv`: while nothing disturbed the marker, an agent beyond the check
  knows all that was posted (`Undisturbed`); `FewApplied` counts applications
  against agents at work, and a patch that was found is not applied yet.
- `RulesInv`: an approval that waits to be acted on was right when it was given
  (`StillApproved`), and what was overwritten since is known.
- `LedgerInv`: the copy of a caller, and the file it truncated, are well formed
  (`CallSound`); while there is no cause, the ledger holds everything reported,
  or one writer is between truncating and writing it (`NoLossYet`).
- `ArchiveInv`: while no mishap, live file, archive, the archives of the days and
  what the compaction holds have every line once (`ArchiveKept`).
- `GenericInv`: a generation spends at least three counted actions
  (`CountsKept`), a rewrite that is under way writes the rules it has read
  (`RewritesKept`), the user's rules are in the file, in its copy or in the
  hands of a checker (`GuardKept`).
- `SetupInv`: a file a bootstrap promises is there or a step of it is left
  (`Covered`), a file is broken by the user or by a kill (`OnlyUserBreaks`), and
  each kill leaves at most one half.
- `ChecksInv`: what a check demands was seen or is yet to be looked at
  (`GoodSoFar`), what it reports was the case in a state it has seen (`BadSoFar`).
- `PoolInv`: what ended in a batch is listed once less only until the batch ends
  (`Accounts`), and workers hold as many permits as run (`Permits`).
- `TrackerInv`: while calls do not overlap, one caller is alone and its copy is
  the log (`CalmReaders`); ids are unique, a parent stands before its children,
  and all but the call at work have sent their events (`EventsFit`). The tree
  follows by the least entry that is not reached: its parent is.

### Tools

- `Installation`: the types, and `NeverNeither` itself, are inductive: each
  uninstall looks for the other product in the step in which it removes its own.
  `WorkIsKept` is an action property: only `Clean` and `Rollback` can replace a
  version by an older one, as every version anywhere is at most the last one.
- `ProjectsInv`: while no command was interrupted, the command at work is in one
  of five phases (`Creating`, `Linking`, `Removing`, `Moving`, `Resting`), each
  with what it owes.
- `EditorInv`: no two calls have the same version, a call is the only one on its
  file or the overlap is recorded (`OneCall`), and what it saved is its back-up
  unless another one got the name (`BackupOf`).
- `FactoryInv`: what is to be replaced is in the back-up before the file is
  written (`OldIsSaved`), the file before the registers (`WrittenFirst`).
- `ScanInv`: the copy of a scan is the database plus what it found in the stages
  that are over (`Memory`, `Progress`); whatever it found is in one of the
  reports or in its hands (`AllKnown`); what was sent was saved (`Shipping`).
- `RepairInv`: a fresh report equals a scan of the file as it is
  (`ReportIsFresh`), texts and markers in a file correspond (`MarkersOnce`).
- `AdviceIsNotUndone`: that a finding is gone is not inductive, since a recipe
  without instructions has none about them and gets them by other advice.
  `Remains(x, r)` is the condition of a finding without what other advice can
  add; what is found remains (`FoundRemains`), advice changes a recipe only as
  `Tended` says (`AdviceTends`, by cases), under which nothing that does not
  remain returns (`NothingReturns`) and what is gone remains no more
  (`GoneForGood`). So `GoneIsGone` is inductive, whatever the fixer breaks.

### Not proved

- Liveness (`JobsSettle`, `RunsEnd`, `DegradedReachesDefib`) and anything with
  ENABLED is out of the prover's reach.

## 6. Plan

Done: the queue with its abstraction, its consumer and its archives; the issue
database with its book; the runner with its schedule, and recovery; the ledgers, logs and markers;
the tools of sections "The tools a person or an agent calls" and "What stands
before an action"; the theorems above. Next, in this order:

1. An abstract ledger (entries are added, never removed) that a locked variant
   of `ChangeLedger` implements.
2. The options left out of the rule checkers (`--check-matrix`, `--health`).
3. The quarantine of lines that do not parse, in `MessageQueue`.

No module uses a RECURSIVE operator: recursion is written as a function or as steps.

## 7. Where the code differs from what it says

The first three are runs of the project; for 4 to 14 the statement is at the end
of its module and the change of a `.cfg` that shows it with TLC is given; the
others are modelled as the code has them and were seen while reading.

1. `mq_replay_loss`: `replay_dlq` rewrites the DLQ from a copy (`mq:709`); a dead
   letter that `nack` appended meanwhile is deleted. The defibrillator replays
   (`dev_recovery_defib.py:162`) while other consumers run. For the same
   reason `purge_dlq` (`mq:732`) and a second rewriter bring purged entries back
   (`MQReplay.cfg` with `RewriteOnlyRemoves`), a dead letter that a failing nested
   `enqueue` appends is overwritten, and two replays at a time run a job twice.
2. `mqc_self_lock`: the SIGTERM handler's `nack` (`consumer:64`) waits for a lock
   its own process holds, which blocks everybody else too.
3. `idb_recipe`: the validator's loop drops all marks but the last.
4. `requeue` removes a message from the archive before it adds it to the live
   file (`mq:667-670`); a crash in between loses it. `MQStorage.cfg` with
   `Calls = {"requeue"}` and `NoLoss`.
5. `_gc_old_pending` writes back a list without the messages in flight (`mq:936`,
   `mq:956`): they are deleted. `MQStorage.cfg` with `Calls = {"ttl"}` and
   `NoLoss`. So far only tests call the sweep.
6. The collector counts retries and never gives a message up (`mq:918`):
   `RetriesBounded` with `"gc"`. A job that kills its consumer comes back for ever.
7. `enqueue` does not count messages in flight (`mq:377`): `DepthBounded`.
8. `ack` gives up when the line has moved (`mq:488`) though its comment speaks of
   re-reading to avoid races: `AckFindsHeld`. The message is delivered again.
9. The consumer's guard: two consumers that start on an idle topic both run
   (`SingleConsumer`); the message of a crashed one keeps others out
   (`RefusedWhileActive`), as stale leases are collected after the check
   (`consumer:142`, `consumer:176`).
10. A SIGTERM between `consume` and the recording of the lease leaves the message
    in flight (`consumer:215`, `CleanExitHoldsNothing`); one after `nack` has
    returned gives it up again (`consumer:235`, `HandlerReleasesOwn`). Both are
    repaired later by the collector or cost one retry: `NoLoss` holds.
11. Exit code 0 without an ack when another consumer settled the message
    (`consumer:221`, `ZeroMeansAcked`).
12. Without the lock, two saves share `issue_db.json.tmp` (`db:317`): one renames
    what the other has just truncated (`Readable`), and a save undoes a
    permanent wontfix (`WontfixPermanent`): `IDBLocked.cfg` with `Spec`,
    `Locked = {}` and deadlock unchecked.
13. The bulk fixer's skill demands that a file that does not load after its
    modification is reverted (`.mase/skills/mas-engineer/bulk-findings-fixer/SKILL.md`, v2
    requirement 3); nothing reverts it: `Tools.cfg` with `FixedStillLoads`.
14. `cmd_uninstall` says that the MAS stays (`dev_workspace.py:553`), and removes
    the sub-agents: `Tools.cfg` with `Subs = {"s1"}` and `UninstallKeepsMas`.

Runner, recovery and records
- `main()` of the runner ignores the status of the run: a nested workflow or a
  recovery level that failed counts as passed. `stats()` of the queue compares
  the name of a file with the topic before `_sanitize_topic` (`mq:863`), so dead
  letters of dotted topics are not counted.
- `already_applied()` looks for a key of the ledger that is never written.

Generator, workspace, recipe manager
- `--refresh` reports findings as fixed, but changes only the settings, and
  overwrites the one `pre_refresh` back-up each time.
- `--scaffold` replaces `{BESCHREIBUNG}` and `{Titel}`; the template has
  `{DESCRIPTION}` and `{Title}`.
- A sub-recipe that `--create` enters as a string makes `--init-recovery` raise;
  entries of both forms can exist for one agent.
- The recipe manager writes to `~/.local/share/goose/_framework` while it says
  `recipes/_framework`, and removes either product without looking for the other.
- `dev_editor.py --validate` reports only the last practice of each category
  (lines 434-440 are outside the inner loop), and categories outside
  `best_practices` never.

Project initialization and generic rules
- `--repair-symlinks` and `--init` raise on a link whose target is gone; half
  files are never completed; dashboards and components overwrite although
  nothing is to be overwritten; `main` ignores results; `--status` calls a
  function that does not exist; the state component writes
  `.last_confirmation`, which counts as a confirmation by the user; the default
  `rules.yaml` is a mapping, on which the generic checker raises.
- The generic checker counts the actions it did NOT refuse, the rules it
  generates refuse nothing, `--undo` never finds anything, and
  `--require-tests-pass` raises UnboundLocalError.

Rule checker, gatekeeper, immune system
- The gatekeeper's R19 and R10 look at the last word of the arguments, which is
  the content of an edit; a failing R01 is logged first, so that R18 fails for
  the same command and the delegation is used up.
- In the rule checker R56 is never listed; R18 extends a list by a string, which
  refuses every write inside `mas-engineer/` and none above it; R02 looks at the
  source of a `cp` or `mv` and not at absolute or capitalised paths; R15 finds a
  tool only from inside; `--check` refuses what is a warning, `--all` does not,
  and skips R19; R09 reads another mode file than R14 and R110-31;
  `registry.yaml` and `special_agents.yaml` do not exist; R55's counter is
  never reset.
- `dev_yaml_immune.py`: a missing file exits with 1, the docstring says 2, which
  no path returns; `--path-check` without `--strict` never fails; the round trip
  cannot see duplicate keys though the docstring (line 80) says so; an empty
  `sub_recipes` hides `agents[].sub_recipes`; a `sub_recipes` that cannot be
  iterated raises. R10 never calls it, although its docstring says so.

## 8. Not modelled, and why

Evidence, metrics, cost and workload reports (readers that write one report),
dashboards (HTML of what the others wrote), templates and prompts (text), the
goose database reader (read-only SQL), scripts, installers and the start script,
commands that only print. The recipes are prompts: they appear where they
contain Python that changes shared state. Of modelled components: lines of the
queue that do not parse, R56, `--check-matrix`, `--health` and `--undo` of the
rule checkers, the tests they may run, `do_validate()` of the editor (no option
calls it), the text the tool and drift checks of the scanner look for. Depth of
the queue as a hazard (`mq:378`) has no property: the limit does not hold
(no. 7). Tests, documents and examples are references.

## 9. Running it

`tlc -config MQDelivery.cfg MCMessageQueue` (`MQ*.cfg`), `... MCMQConsumer`
(`MQC*.cfg`), `... MCIssueDB` (`IDB*.cfg`), `tlc -config Recovery.cfg
MCRecovery`, `tlc -config Records.cfg MCRecords`, `tlc -config Tools.cfg
MCTools`; each takes between a second and two minutes. `tlapm
M.tla` proves the theorems of each of the modules `MessageQueue_proofs`,
`Delivery_proofs`, `MQConsumer_proofs`, `IssueDB_proofs`, `Gatekeeper_proofs`,
`Recovery_proofs`, `Records_proofs` and `Tools_proofs`; the last two take some
minutes.
