---------------------------- MODULE MessageQueue ----------------------------
(***************************************************************************)
(* The file-backed message queue of tools/dev_message_queue.py.            *)
(*                                                                         *)
(* Processes share a directory: one live file per topic, one archive of    *)
(* completed messages per topic, and one dead-letter file for all topics.  *)
(* The flock of a topic covers its live file only.  An action is what a    *)
(* call does between two points where another process, or a crash, can     *)
(* come in between: a call that takes the lock, reads, and replaces the    *)
(* live file with one rename is one action, and a call that writes two     *)
(* files has one action per file.                                          *)
(*                                                                         *)
(* A file is a set of records.  A live record carries the position of its  *)
(* line ("pos"), so the order of the file, the head of the queue and the   *)
(* list index that ack() and nack() remember are all definable.  "job" is  *)
(* the payload: replaying a dead letter gives a new id to the same job.    *)
(*                                                                         *)
(* A timestamp is kept as what the code compares it with: in_flight_at is  *)
(* "none", "fresh" or "stale" (older than gc's max_age_sec), next_retry_at *)
(* is due or not, and enqueued_at is older than the TTL or not.            *)
(***************************************************************************)
EXTENDS Naturals, FiniteSets

CONSTANTS
    Procs,        \* processes that call the API
    NoProc,       \* nobody: a free lock, or a message without a consumer_id
    Topics,       \* topic names as callers write them
    Files,        \* topic names as they appear in file names
    FileOf,       \* _sanitize_topic: [Topics -> Files]
    Keys,         \* idempotency keys
    NoKey,        \* idempotency_key=None
    Calls,        \* which of the optional calls this deployment makes
    MaxRetries,   \* retry_policy["max"]
    MaxDepth,     \* MAS_MQ_MAX_DEPTH_PER_TOPIC
    MaxStamp,     \* bound of the model: lines ever appended to live files
    MaxSlow,      \* bound of the model: retries after which a held lease
                  \* no longer outlives its limit
    MaxCrashes,   \* bound of the model: process crashes and failing second writes
    SeedJobs      \* jobs whose dead letters an earlier session left behind

OptionalCalls ==
    {"nack", "fatal", "gc", "ttl", "requeue", "replay", "purge", "storage_error"}

ASSUME QueueAssumption ==
    /\ NoProc \notin Procs
    /\ NoKey \notin Keys
    /\ FileOf \in [Topics -> Files]
    /\ Calls \subseteq OptionalCalls
    /\ MaxRetries \in Nat \ {0}
    /\ MaxDepth \in Nat
    /\ MaxStamp \in Nat
    /\ MaxSlow \in Nat
    /\ MaxCrashes \in Nat
    /\ SeedJobs \subseteq Nat
    /\ \A j \in SeedJobs : j > MaxStamp

VARIABLES
    live,       \* <topic>.ndjson
    done,       \* <topic>.completed.ndjson
    dlq,        \* signals_dlq.ndjson
    dlqTmp,     \* signals_dlq.ndjson.tmp: {} when absent, else {its content}
    lock,       \* who holds the flock of a topic
    task,       \* the call a process is in the middle of
    held,       \* msg_id a process got from consume() and has not settled (0: none)
    stamp,      \* last position (and uuid) given out
    crashes,    \* crashes and failed second writes so far
    accepted,   \* history: jobs enqueue() has returned an id for
    delivered,  \* history: jobs consume() has returned
    purged      \* history: jobs purge_dlq() was asked to delete

files == <<live, done, dlq, dlqTmp>>
history == <<accepted, delivered, purged>>
vars == <<live, done, dlq, dlqTmp, lock, task, held, stamp, crashes,
          accepted, delivered, purged>>

-----------------------------------------------------------------------------
(* Records                                                                  *)

Msg == [id : Nat, pos : Nat, job : Nat, topic : Topics, key : Keys \cup {NoKey},
        status : {"pending", "in_flight"}, lease : {"none", "fresh", "stale"},
        due : BOOLEAN, old : BOOLEAN, retries : Nat, holder : Procs \cup {NoProc}]

\* A line of an archive or of the dead-letter file.
Entry == [id : Nat, job : Nat, topic : Topics, key : Keys \cup {NoKey}]

NewMsg(i, j, t, k) ==
    [id |-> i, pos |-> i, job |-> j, topic |-> t, key |-> k, status |-> "pending",
     lease |-> "none", due |-> TRUE, old |-> FALSE, retries |-> 0, holder |-> NoProc]

EntryOf(m) == [id |-> m.id, job |-> m.job, topic |-> m.topic, key |-> m.key]

JobsOf(S) == {m.job : m \in S}
IdsOf(S) == {m.id : m \in S}

(* What a process is in the middle of                                       *)

Idle == [at |-> "idle"]
Found(call, f, i) == [at |-> "found", call |-> call, file |-> f, idx |-> i]
Writing(f, msgs) == [at |-> "writing", file |-> f, msgs |-> msgs]
Replaying(todo, keep) == [at |-> "replaying", todo |-> todo, keep |-> keep]
Replacing == [at |-> "replacing"]

Task ==
    {Idle}
    \cup [at : {"found"}, call : {"ack", "nack", "fatal"}, file : Files, idx : Nat]
    \cup [at : {"writing"}, file : Files, msgs : SUBSET Msg]
    \cup [at : {"replaying"}, todo : SUBSET Entry, keep : SUBSET Entry]
    \cup {Replacing}

-----------------------------------------------------------------------------
(* Reading a live file                                                      *)

Pending(f) == {m \in live[f] : m.status = "pending"}

\* Mutation: the status is not looked at.
ReadyAnyStatus(f) == {m \in live[f] : m.due}

\* What consume() may hand out: pending, and not waiting for a retry time.
Ready(f) == {m \in Pending(f) : m.due}

\* Mutation: last in, first out.
IsLast(m, S) == m \in S /\ \A n \in S : m.pos >= n.pos

\* The first line of S in file order.
IsFirst(m, S) == m \in S /\ \A n \in S : m.pos =< n.pos

\* The list index of line m of file f.
IndexOf(f, m) == Cardinality({n \in live[f] : n.pos < m.pos})

\* Mutation: messages in flight are not compared.
KnownPending(f, k) == k # NoKey /\ \E m \in Pending(f) : m.key = k

\* enqueue() finds a live message with the same key and returns its id.
Known(f, k) == k # NoKey /\ \E m \in live[f] : m.key = k

\* enqueue() counts only the messages that are not in flight.
Full(f) == Cardinality(Pending(f)) >= MaxDepth

\* Only the TTL sweep looks at the age of a message.
Ageing == IF "ttl" \in Calls THEN BOOLEAN ELSE {FALSE}

\* Mutation: the lock of the topic is not taken.
Unlocked(f) == f \in Files

\* A process can start a critical section on file f.
CanLock(f) == lock[f] = NoProc

-----------------------------------------------------------------------------
(* enqueue                                                                  *)

\* Mutation: the error of the rename is swallowed.
AppendSwallowing(f, m) ==
    /\ stamp < MaxStamp
    /\ stamp' = stamp + 1
    /\ dlq' = dlq
    /\ \/ live' = [live EXCEPT ![f] = @ \cup {m}]
       \/ "storage_error" \in Calls /\ live' = live

\* The tail of a successful enqueue.  The rename may fail (disk full): the
\* message goes to the dead-letter file instead.
Append(f, m) ==
    /\ stamp < MaxStamp
    /\ stamp' = stamp + 1
    /\ \/ /\ live' = [live EXCEPT ![f] = @ \cup {m}]
          /\ dlq' = dlq
       \/ /\ "storage_error" \in Calls
          /\ dlq' = dlq \cup {EntryOf(m)}
          /\ live' = live

\* A call with a known key returns its id and a call on a full topic raises:
\* neither changes a file.
Enqueue(p, t, k) ==
    /\ task[p] = Idle
    /\ CanLock(FileOf[t])
    /\ ~Known(FileOf[t], k)
    /\ ~Full(FileOf[t])
    /\ Append(FileOf[t], NewMsg(stamp + 1, stamp + 1, t, k))
    /\ accepted' = accepted \cup {stamp + 1}
    /\ UNCHANGED <<done, dlqTmp, lock, task, held, crashes, delivered, purged>>

-----------------------------------------------------------------------------
(* consume                                                                  *)

\* Mutation: a misspelt status.
LeasedMisspelt(m, p) ==
    [m EXCEPT !.status = "in-flight", !.holder = p, !.lease = "fresh"]

Leased(m, p) == [m EXCEPT !.status = "in_flight", !.holder = p, !.lease = "fresh"]

Consume(p, f) ==
    /\ task[p] = Idle
    /\ held[p] = 0
    /\ CanLock(f)
    /\ \E m \in live[f] :
         /\ IsFirst(m, Ready(f))
         /\ live' = [live EXCEPT ![f] = (@ \ {m}) \cup {Leased(m, p)}]
         /\ held' = [held EXCEPT ![p] = m.id]
         /\ delivered' = delivered \cup {m.job}
    /\ UNCHANGED <<done, dlq, dlqTmp, lock, task, stamp, crashes, accepted, purged>>

-----------------------------------------------------------------------------
(* ack and nack: find the message, then lock its topic again                *)

Copies(f, i) == {m \in live[f] : m.id = i}

\* _find_msg: the first line with this id, read under the lock of its topic.
Find(p, call) ==
    /\ task[p] = Idle
    /\ held[p] # 0
    /\ call = "ack" \/ call \in Calls
    /\ \E f \in Files :
         /\ CanLock(f)
         /\ \E m \in live[f] :
              /\ IsFirst(m, Copies(f, held[p]))
              /\ task' = [task EXCEPT ![p] = Found(call, f, IndexOf(f, m))]
    /\ UNCHANGED <<live, done, dlq, dlqTmp, lock, held, stamp, crashes, history>>

\* No topic has the message: the call returns False.
FindMissing(p) ==
    /\ task[p] = Idle
    /\ held[p] # 0
    /\ \A f \in Files : CanLock(f) /\ Copies(f, held[p]) = {}
    /\ held' = [held EXCEPT ![p] = 0]
    /\ UNCHANGED <<files, lock, task, stamp, crashes, history>>

\* The line that is now at the index _find_msg returned is the message.
AtIndex(p, m) ==
    /\ m \in live[task[p].file]
    /\ IndexOf(task[p].file, m) = task[p].idx
    /\ m.id = held[p]

\* The file changed: the call returns False and leaves the message as it is.
FoundMoved(p) ==
    /\ task[p].at = "found"
    /\ CanLock(task[p].file)
    /\ \A m \in live[task[p].file] : ~AtIndex(p, m)
    /\ task' = [task EXCEPT ![p] = Idle]
    /\ held' = [held EXCEPT ![p] = 0]
    /\ UNCHANGED <<files, lock, stamp, crashes, history>>

\* Mutation: the message is not popped from the list that is written back.
StartWriteAll(p, f, msgs) ==
    /\ lock' = [lock EXCEPT ![f] = p]
    /\ task' = [task EXCEPT ![p] = Writing(f, msgs \cup live[f])]

\* p keeps the lock of f and is about to replace the live file by msgs.
StartWrite(p, f, msgs) ==
    /\ lock' = [lock EXCEPT ![f] = p]
    /\ task' = [task EXCEPT ![p] = Writing(f, msgs)]

\* Mutation: nothing is archived.
AckWithoutArchive(p) ==
    /\ task[p].at = "found"
    /\ task[p].call = "ack"
    /\ CanLock(task[p].file)
    /\ \E m \in live[task[p].file] :
         AtIndex(p, m) /\ StartWrite(p, task[p].file, live[task[p].file] \ {m})
    /\ held' = [held EXCEPT ![p] = 0]
    /\ UNCHANGED <<live, done, dlq, dlqTmp, stamp, crashes, history>>

\* ack, first step: append to the archive.
AckArchive(p) ==
    /\ task[p].at = "found"
    /\ task[p].call = "ack"
    /\ CanLock(task[p].file)
    /\ \E m \in live[task[p].file] :
         /\ AtIndex(p, m)
         /\ done' = [done EXCEPT ![task[p].file] = @ \cup {EntryOf(m)}]
         /\ StartWrite(p, task[p].file, live[task[p].file] \ {m})
    /\ held' = [held EXCEPT ![p] = 0]
    /\ UNCHANGED <<live, dlq, dlqTmp, stamp, crashes, history>>

\* Mutation: one retry too many.
GivesUpLate(call, m) == call = "fatal" \/ m.retries + 1 > MaxRetries

\* nack gives the message up: a fatal error, or no retry left.
GivesUp(call, m) == call = "fatal" \/ m.retries + 1 >= MaxRetries

\* Full jitter draws the delay from [0, expo]: the message may be due at once.
Rescheduled(m, d) ==
    [m EXCEPT !.status = "pending", !.retries = @ + 1, !.holder = NoProc, !.due = d]

NackRetry(p) ==
    /\ task[p].at = "found"
    /\ task[p].call # "ack"
    /\ CanLock(task[p].file)
    /\ \E m \in live[task[p].file], d \in BOOLEAN :
         /\ AtIndex(p, m)
         /\ ~GivesUp(task[p].call, m)
         /\ live' = [live EXCEPT ![task[p].file] = (@ \ {m}) \cup {Rescheduled(m, d)}]
    /\ task' = [task EXCEPT ![p] = Idle]
    /\ held' = [held EXCEPT ![p] = 0]
    /\ UNCHANGED <<done, dlq, dlqTmp, lock, stamp, crashes, history>>

\* nack, first step of giving up: append to the dead-letter file.
NackDead(p) ==
    /\ task[p].at = "found"
    /\ task[p].call # "ack"
    /\ CanLock(task[p].file)
    /\ \E m \in live[task[p].file] :
         /\ AtIndex(p, m)
         /\ GivesUp(task[p].call, m)
         /\ dlq' = dlq \cup {EntryOf(m)}
         /\ StartWrite(p, task[p].file, live[task[p].file] \ {m})
    /\ held' = [held EXCEPT ![p] = 0]
    /\ UNCHANGED <<live, done, dlqTmp, stamp, crashes, history>>

\* The second step of every call that writes two files: the rename of the live
\* file, and the release of its lock.
WriteTopic(p) ==
    /\ task[p].at = "writing"
    /\ live' = [live EXCEPT ![task[p].file] = task[p].msgs]
    /\ lock' = [lock EXCEPT ![task[p].file] = NoProc]
    /\ task' = [task EXCEPT ![p] = Idle]
    /\ UNCHANGED <<done, dlq, dlqTmp, held, stamp, crashes, history>>

\* The rename may fail (disk full): the call raises after its first write.
WriteFails(p) ==
    /\ "storage_error" \in Calls
    /\ crashes < MaxCrashes
    /\ task[p].at = "writing"
    /\ crashes' = crashes + 1
    /\ lock' = [lock EXCEPT ![task[p].file] = NoProc]
    /\ task' = [task EXCEPT ![p] = Idle]
    /\ UNCHANGED <<files, held, stamp, history>>

-----------------------------------------------------------------------------
(* gc_stale_in_flight and _gc_old_pending                                   *)

Stale(f) == {m \in live[f] : m.status = "in_flight" /\ m.lease = "stale"}

Recovered(m) ==
    [m EXCEPT !.status = "pending", !.lease = "none", !.retries = @ + 1,
              !.holder = NoProc, !.due = TRUE]

GcStale(f) ==
    /\ "gc" \in Calls
    /\ CanLock(f)
    /\ Stale(f) # {}
    /\ live' = [live EXCEPT ![f] = (@ \ Stale(f)) \cup {Recovered(m) : m \in Stale(f)}]
    /\ UNCHANGED <<done, dlq, dlqTmp, lock, task, held, stamp, crashes, history>>

\* The sweep reads the file without its in-flight messages and writes back what
\* it read.
TtlSweep(p, f) ==
    /\ "ttl" \in Calls
    /\ task[p] = Idle
    /\ CanLock(f)
    /\ LET expired == {m \in Pending(f) : m.old}
       IN  /\ expired # {}
           /\ dlq' = dlq \cup {EntryOf(m) : m \in expired}
           /\ StartWrite(p, f, Pending(f) \ expired)
    /\ UNCHANGED <<live, done, dlqTmp, held, stamp, crashes, history>>

-----------------------------------------------------------------------------
(* requeue of a done message: archive first, live file second               *)

\* The message keeps its id and its enqueued_at; it may be delayed.
Requeued(e, i, d, o) ==
    [NewMsg(e.id, e.job, e.topic, e.key) EXCEPT !.pos = i, !.due = d, !.old = o]

\* Mutation: the message stays in the archive.
RequeueCopies(p, f) ==
    /\ "requeue" \in Calls
    /\ task[p] = Idle
    /\ stamp < MaxStamp
    /\ CanLock(f)
    /\ \E e \in done[f], d \in BOOLEAN, o \in Ageing :
         StartWrite(p, f, live[f] \cup {Requeued(e, stamp + 1, d, o)})
    /\ stamp' = stamp + 1
    /\ UNCHANGED <<live, done, dlq, dlqTmp, held, crashes, history>>

RequeueDone(p, f) ==
    /\ "requeue" \in Calls
    /\ task[p] = Idle
    /\ stamp < MaxStamp
    /\ CanLock(f)
    /\ \E e \in done[f], d \in BOOLEAN, o \in Ageing :
         /\ done' = [done EXCEPT ![f] = @ \ {e}]
         /\ StartWrite(p, f, live[f] \cup {Requeued(e, stamp + 1, d, o)})
    /\ stamp' = stamp + 1
    /\ UNCHANGED <<live, dlq, dlqTmp, held, crashes, history>>

-----------------------------------------------------------------------------
(* requeue of a dead letter, replay_dlq, purge_dlq: no lock covers the DLQ *)

\* One entry (requeue), or all entries, of all topics or of one (replay_dlq).
Selections ==
    ({{e} : e \in dlq} \cup {{e \in dlq : e.topic = t} : t \in Topics} \cup {dlq}) \ {{}}

\* Read the dead-letter file and pick what to re-enqueue.
ReadForReplay(p) ==
    /\ "replay" \in Calls
    /\ task[p] = Idle
    /\ \E sel \in Selections : task' = [task EXCEPT ![p] = Replaying(sel, dlq \ sel)]
    /\ UNCHANGED <<files, lock, held, stamp, crashes, history>>

\* Read it and pick what to delete: the filters are a topic and an age.
ReadForPurge(p) ==
    /\ "purge" \in Calls
    /\ task[p] = Idle
    /\ \E sel \in SUBSET dlq \ {{}} :
         /\ task' = [task EXCEPT ![p] = Replaying({}, dlq \ sel)]
         /\ purged' = purged \cup JobsOf(sel)
    /\ UNCHANGED <<files, lock, held, stamp, crashes, accepted, delivered>>

\* The nested enqueue of one selected entry: a new message without a key.
ReplayOne(p) ==
    /\ task[p].at = "replaying"
    /\ \E e \in task[p].todo :
         /\ CanLock(FileOf[e.topic])
         /\ ~Full(FileOf[e.topic])
         /\ Append(FileOf[e.topic], NewMsg(stamp + 1, e.job, e.topic, NoKey))
         /\ task' = [task EXCEPT ![p] = Replaying(@.todo \ {e}, @.keep)]
    /\ UNCHANGED <<done, dlqTmp, lock, held, crashes, history>>

\* Mutation: a full topic counts as replayed.
ReplaySkips(p) ==
    /\ task[p].at = "replaying"
    /\ \E e \in task[p].todo :
         /\ CanLock(FileOf[e.topic])
         /\ Full(FileOf[e.topic])
         /\ task' = [task EXCEPT ![p] = Replaying(@.todo \ {e}, @.keep)]
    /\ UNCHANGED <<files, lock, held, stamp, crashes, history>>

\* The nested enqueue raises QueueFullError: the call ends, and the entries it
\* has already re-enqueued stay in the dead-letter file.
ReplayFull(p) ==
    /\ task[p].at = "replaying"
    /\ \E e \in task[p].todo : CanLock(FileOf[e.topic]) /\ Full(FileOf[e.topic])
    /\ task' = [task EXCEPT ![p] = Idle]
    /\ UNCHANGED <<files, lock, held, stamp, crashes, history>>

\* _rewrite_dlq, first step: the entries to keep go to the .tmp file, whose name
\* every rewriter shares.
RewriteDlq(p) ==
    /\ task[p].at = "replaying"
    /\ task[p].todo = {}
    /\ dlqTmp' = {task[p].keep}
    /\ task' = [task EXCEPT ![p] = Replacing]
    /\ UNCHANGED <<live, done, dlq, lock, held, stamp, crashes, history>>

\* Second step: the rename, which raises FileNotFoundError when another
\* rewriter has already renamed the .tmp file.
ReplaceDlq(p) ==
    /\ task[p].at = "replacing"
    /\ IF dlqTmp = {} THEN dlq' = dlq ELSE dlq' \in dlqTmp
    /\ dlqTmp' = {}
    /\ task' = [task EXCEPT ![p] = Idle]
    /\ UNCHANGED <<live, done, lock, held, stamp, crashes, history>>

-----------------------------------------------------------------------------
(* Crashes and time                                                         *)

\* The process dies: the kernel releases its locks, its memory is gone.
Crash(p) ==
    /\ crashes < MaxCrashes
    /\ task[p] # Idle \/ held[p] # 0
    /\ crashes' = crashes + 1
    /\ task' = [task EXCEPT ![p] = Idle]
    /\ held' = [held EXCEPT ![p] = 0]
    /\ lock' = [f \in Files |-> IF lock[f] = p THEN NoProc ELSE lock[f]]
    /\ UNCHANGED <<files, stamp, history>>

\* Time passes for one message.  Nobody reads a locked file, so its messages
\* may as well age when it is unlocked.
Ages(f, m, aged) ==
    /\ CanLock(f)
    /\ m # aged
    /\ live' = [live EXCEPT ![f] = (@ \ {m}) \cup {aged}]
    /\ UNCHANGED <<done, dlq, dlqTmp, lock, task, held, stamp, crashes, history>>

\* A lease outlives max_age_sec: its holder is gone, or slow.
LeaseAges(f) ==
    \E m \in live[f] :
        /\ m.status = "in_flight"
        /\ m.retries < MaxSlow \/ \A p \in Procs : held[p] # m.id
        /\ Ages(f, m, [m EXCEPT !.lease = "stale"])

BackoffElapses(f) ==
    \E m \in Pending(f) : Ages(f, m, [m EXCEPT !.due = TRUE])

MessageAges(f) ==
    \E m \in live[f], o \in Ageing : Ages(f, m, [m EXCEPT !.old = @ \/ o])

-----------------------------------------------------------------------------
Init ==
    /\ live = [f \in Files |-> {}]
    /\ done = [f \in Files |-> {}]
    /\ \E t \in Topics :
         dlq = {[id |-> j, job |-> j, topic |-> t, key |-> NoKey] : j \in SeedJobs}
    /\ dlqTmp = {}
    /\ lock = [f \in Files |-> NoProc]
    /\ task = [p \in Procs |-> Idle]
    /\ held = [p \in Procs |-> 0]
    /\ stamp = 0
    /\ crashes = 0
    /\ accepted = SeedJobs
    /\ delivered = {}
    /\ purged = {}

SettleStep(p) == AckArchive(p) \/ NackRetry(p) \/ NackDead(p) \/ FoundMoved(p)

Step(p) ==
    \/ \E t \in Topics, k \in Keys \cup {NoKey} : Enqueue(p, t, k)
    \/ \E f \in Files : Consume(p, f) \/ TtlSweep(p, f) \/ RequeueDone(p, f)
    \/ \E call \in {"ack", "nack", "fatal"} : Find(p, call)
    \/ FindMissing(p)
    \/ SettleStep(p)
    \/ WriteTopic(p) \/ WriteFails(p)
    \/ ReadForReplay(p) \/ ReadForPurge(p)
    \/ ReplayOne(p) \/ ReplayFull(p) \/ RewriteDlq(p) \/ ReplaceDlq(p)
    \/ Crash(p)

Tick(f) == GcStale(f) \/ LeaseAges(f) \/ BackoffElapses(f) \/ MessageAges(f)

Next == (\E p \in Procs : Step(p)) \/ (\E f \in Files : Tick(f))

Spec == Init /\ [][Next]_vars

-----------------------------------------------------------------------------
(* Properties                                                               *)

\* Every variable has its type.
TypeOK ==
    /\ live \in [Files -> SUBSET Msg]
    /\ done \in [Files -> SUBSET Entry]
    /\ dlq \in SUBSET Entry
    /\ dlqTmp \in SUBSET SUBSET Entry
    /\ lock \in [Files -> Procs \cup {NoProc}]
    /\ task \in [Procs -> Task]
    /\ held \in [Procs -> Nat]
    /\ stamp \in Nat
    /\ crashes \in Nat
    /\ accepted \in SUBSET Nat
    /\ delivered \in SUBSET Nat
    /\ purged \in SUBSET Nat

InHand(p) == IF task[p].at = "writing" THEN JobsOf(task[p].msgs) ELSE {}

\* Jobs that can still be delivered, and jobs that are archived or dead.
AvailableJobs == UNION ({JobsOf(live[f]) : f \in Files} \cup {InHand(p) : p \in Procs})
SettledJobs == JobsOf(dlq) \cup UNION {JobsOf(done[f]) : f \in Files}

\* A job that enqueue() accepted is always in some file, or in the hands of the
\* process that is about to write it, until purge_dlq() is asked to delete it.
NoLoss == accepted \ purged \subseteq AvailableJobs \cup SettledJobs

\* The same, for the jobs nobody has consumed yet: what a TTL sweep must keep.
UndeliveredKept == accepted \ (purged \cup delivered) \subseteq AvailableJobs \cup SettledJobs

\* The files, locks and processes implement a queue with at-least-once delivery:
\* a job leaves the live files only after it is in an archive or is dead.
Promise == INSTANCE AtLeastOnce WITH
               Jobs <- 1..MaxStamp \cup SeedJobs,
               submitted <- accepted,
               available <- AvailableJobs,
               settled <- SettledJobs

Implements == Promise!Spec

\* Two live messages of a topic never carry the same idempotency key.
KeyUnique ==
    \A f \in Files : \A m, n \in live[f] : m.key = n.key /\ m.key # NoKey => m = n

\* Without a crash or a failed write a message is settled once: it is not both archived and dead,
\* and it is live and settled only while the process that settles it is between
\* its two writes.
SettledOnce ==
    crashes = 0 =>
        \A f \in Files :
            /\ IdsOf(done[f]) \cap IdsOf(dlq) = {}
            /\ \A m \in live[f] : m.id \in IdsOf(done[f]) \cup IdsOf(dlq) =>
                 \E p \in Procs :
                    /\ task[p].at = "writing"
                    /\ task[p].file = f
                    /\ m.id \notin IdsOf(task[p].msgs)

\* Topics are FIFO: a message nobody has received yet stands behind all those
\* that were received, whatever was retried or recovered meanwhile.
DeliveredInOrder ==
    \A f \in Files : \A m, n \in live[f] :
        m.job \in delivered /\ n.job \notin delivered => m.pos < n.pos

\* Two processes work on one message only if it was given up in between: by a
\* nack, or by the collector because its lease ran out.
SharedOnlyAfterRecovery ==
    \A p, q \in Procs : p # q /\ held[p] = held[q] =>
        \A f \in Files : \A m \in live[f] : m.id = held[p] => m.retries >= 1

\* No live message has used up its retries.
RetriesBounded == \A f \in Files : \A m \in live[f] : m.retries < MaxRetries

-----------------------------------------------------------------------------
(* Stated by the code's comments, and not kept by it: see the README        *)

\* depth() stays within the limit of the topic.
DepthBounded == \A f \in Files : Cardinality(live[f]) =< MaxDepth

\* An ack returns False only for a message that is no longer in its live file.
AckFindsHeld ==
    [][\A p \in Procs : FoundMoved(p) => Copies(task[p].file, held[p]) = {}]_vars

\* Rewriting the dead-letter file only removes lines from it.
RewriteOnlyRemoves == [][(\E p \in Procs : ReplaceDlq(p)) => dlq' \subseteq dlq]_vars

=============================================================================
