--------------------------- MODULE Delivery_proofs ---------------------------
(***************************************************************************)
(* More theorems about MessageQueue: the order of delivery, who works on a *)
(* message, how often it is tried, and where it ends.                      *)
(***************************************************************************)
EXTENDS MessageQueue_proofs

-----------------------------------------------------------------------------
(* The retry counter of a live message                                      *)

FewRetries(S) == \A m \in S : m.retries < MaxRetries

\* What is about to be written has retries left, like what is in the files.
RetryInv ==
    /\ TypeInv
    /\ RetriesBounded
    /\ \A p \in Procs : task[p].at = "writing" => FewRetries(task[p].msgs)

\* A message that was in its file before the step has its retries left.
LEMMA RetryOfLive ==
    ASSUME RetryInv, NEW f \in Files, NEW m \in live[f]
    PROVE  m.retries < MaxRetries /\ m \in Msg
BY DEF RetryInv, RetriesBounded, TypeInv, TypeOK

\* Steps that start no write: a file may change if its messages have retries left.
LEMMA RetryQuiet ==
    ASSUME RetryInv, TypeInv',
           \A p \in Procs : task'[p] = task[p] \/ task'[p].at # "writing",
           \A g \in Files : live'[g] = live[g] \/ FewRetries(live'[g])
    PROVE  RetryInv'
BY DEF RetryInv, RetriesBounded, FewRetries

\* Steps that start to write messages with retries left.
LEMMA RetryBegins ==
    ASSUME RetryInv, TypeInv', NEW p \in Procs, NEW f \in Files, NEW S, FewRetries(S),
           StartWrite(p, f, S), live' = live
    PROVE  RetryInv'
<1>1. \A q \in Procs : task'[q] = IF q = p THEN Writing(f, S) ELSE task[q]
  BY DEF StartWrite, RetryInv, TypeInv, TypeOK
<1>. QED BY <1>1 DEF RetryInv, RetriesBounded, FewRetries, Writing

\* A new message has all its retries left.
LEMMA RetryAppend ==
    ASSUME RetryInv, NEW f \in Files, NEW n, Append(f, n), n.retries = 0, NEW g \in Files
    PROVE  live'[g] = live[g] \/ FewRetries(live'[g])
<1>1. CASE live' = [live EXCEPT ![f] = @ \cup {n}]
  <2>1. live'[g] = IF g = f THEN live[f] \cup {n} ELSE live[g]
    BY <1>1 DEF RetryInv, TypeInv, TypeOK
  <2>. QED BY <2>1, QueueAssumption DEF RetryInv, RetriesBounded, FewRetries
<1>2. CASE live' = live
  BY <1>2
<1>. QED BY <1>1, <1>2 DEF Append

\* Exchanging a message for one with a counter below the limit.
LEMMA RetryExchange ==
    ASSUME RetryInv, NEW f \in Files, NEW m, NEW n, n.retries < MaxRetries,
           live' = [live EXCEPT ![f] = (@ \ {m}) \cup {n}]
    PROVE  \A g \in Files : live'[g] = live[g] \/ FewRetries(live'[g])
BY DEF RetryInv, RetriesBounded, FewRetries, TypeInv, TypeOK

\* Every step keeps the retry counters below the limit.
LEMMA RetryNext == ASSUME "gc" \notin Calls, RetryInv, [Next]_vars PROVE RetryInv'
<1>. USE DEF files, history
<1>1. TypeInv'
  BY TypeNext DEF RetryInv
<1>2. ASSUME NEW p \in Procs, NEW t \in Topics, NEW k \in Keys \cup {NoKey}, Enqueue(p, t, k)
      PROVE  RetryInv'
  <2>1. PICK n : n = NewMsg(stamp + 1, stamp + 1, t, k)
    OBVIOUS
  <2>2. n.retries = 0 /\ Append(FileOf[t], n)
    BY <1>2, <2>1 DEF Enqueue, NewMsg
  <2>3. \A g \in Files : live'[g] = live[g] \/ FewRetries(live'[g])
    BY <2>2, FileOfType, RetryAppend
  <2>. QED BY <1>1, <1>2, <2>3, RetryQuiet DEF Enqueue
<1>3. ASSUME NEW p \in Procs, NEW f \in Files, Consume(p, f) PROVE RetryInv'
  <2>1. PICK m \in live[f] : live' = [live EXCEPT ![f] = (@ \ {m}) \cup {Leased(m, p)}]
    BY <1>3 DEF Consume
  <2>2. Leased(m, p).retries < MaxRetries
    BY RetryOfLive DEF Leased, Msg
  <2>3. \A g \in Files : live'[g] = live[g] \/ FewRetries(live'[g])
    BY <2>1, <2>2, RetryExchange
  <2>. QED BY <1>1, <1>3, <2>3, RetryQuiet DEF Consume
<1>4. ASSUME NEW p \in Procs, NEW call \in {"ack", "nack", "fatal"}, Find(p, call)
      PROVE  RetryInv'
  <2>1. \A q \in Procs : task'[q] = task[q] \/ task'[q].at = "found"
    BY <1>4 DEF Find, Found, RetryInv, TypeInv, TypeOK
  <2>. QED BY <1>1, <1>4, <2>1, RetryQuiet DEF Find
<1>5. ASSUME NEW p \in Procs, FindMissing(p) PROVE RetryInv'
  BY <1>1, <1>5, RetryQuiet DEF FindMissing
<1>6. ASSUME NEW p \in Procs, AckArchive(p) \/ NackDead(p) PROVE RetryInv'
  <2>. DEFINE f == task[p].file
  <2>1. f \in Files
    BY <1>6, TaskType DEF AckArchive, NackDead, RetryInv, TypeInv, TypeOK
  <2>2. PICK m \in live[f] : StartWrite(p, f, live[f] \ {m})
    BY <1>6 DEF AckArchive, NackDead
  <2>3. live' = live
    BY <1>6 DEF AckArchive, NackDead
  <2>4. FewRetries(live[f] \ {m})
    BY <2>1 DEF FewRetries, RetryInv, RetriesBounded
  <2>. QED BY <1>1, <2>1, <2>2, <2>3, <2>4, RetryBegins
<1>7. ASSUME NEW p \in Procs, NackRetry(p) PROVE RetryInv'
  <2>. DEFINE f == task[p].file
  <2>1. f \in Files
    BY <1>7, TaskType DEF NackRetry, RetryInv, TypeInv, TypeOK
  <2>2. PICK m \in live[f], d \in BOOLEAN :
          /\ ~GivesUp(task[p].call, m)
          /\ live' = [live EXCEPT ![f] = (@ \ {m}) \cup {Rescheduled(m, d)}]
    BY <1>7 DEF NackRetry
  <2>3. Rescheduled(m, d).retries = m.retries + 1 /\ m.retries \in Nat
    BY <2>1, RetryOfLive DEF Rescheduled, Msg
  <2>4. Rescheduled(m, d).retries < MaxRetries
    BY <2>2, <2>3, QueueAssumption DEF GivesUp
  <2>5. \A g \in Files : live'[g] = live[g] \/ FewRetries(live'[g])
    BY <2>1, <2>2, <2>4, RetryExchange
  <2>6. \A q \in Procs : task'[q] = task[q] \/ task'[q].at = "idle"
    BY <1>7 DEF NackRetry, Idle, RetryInv, TypeInv, TypeOK
  <2>. QED BY <1>1, <2>5, <2>6, RetryQuiet
<1>8. ASSUME NEW p \in Procs, WriteTopic(p) PROVE RetryInv'
  <2>1. \A g \in Files : live'[g] = live[g] \/ FewRetries(live'[g])
    BY <1>8 DEF WriteTopic, RetryInv, TypeInv, TypeOK
  <2>2. \A q \in Procs : task'[q] = task[q] \/ task'[q].at = "idle"
    BY <1>8 DEF WriteTopic, Idle, RetryInv, TypeInv, TypeOK
  <2>. QED BY <1>1, <2>1, <2>2, RetryQuiet
<1>9. ASSUME NEW p \in Procs,
             FoundMoved(p) \/ WriteFails(p) \/ Crash(p) \/ ReplayFull(p) \/ ReplaceDlq(p)
      PROVE  RetryInv'
  <2>1. live' = live /\ task' = [task EXCEPT ![p] = Idle]
    BY <1>9 DEF FoundMoved, WriteFails, Crash, ReplayFull, ReplaceDlq
  <2>2. \A q \in Procs : task'[q] = task[q] \/ task'[q].at = "idle"
    BY <2>1 DEF Idle, RetryInv, TypeInv, TypeOK
  <2>. QED BY <1>1, <2>1, <2>2, RetryQuiet
<1>10. ASSUME NEW f \in Files, GcStale(f) PROVE RetryInv'
  BY <1>10 DEF GcStale
<1>11. ASSUME NEW f \in Files, NEW m \in live[f], NEW aged, aged.retries = m.retries,
              Ages(f, m, aged)
       PROVE  RetryInv'
  <2>1. \A g \in Files : live'[g] = live[g] \/ FewRetries(live'[g])
    BY <1>11, RetryOfLive, RetryExchange DEF Ages
  <2>. QED BY <1>1, <1>11, <2>1, RetryQuiet DEF Ages
<1>12. ASSUME NEW f \in Files, LeaseAges(f) \/ BackoffElapses(f) \/ MessageAges(f)
       PROVE  RetryInv'
  <2>1. \A m \in live[f] : /\ [m EXCEPT !.lease = "stale"].retries = m.retries
                           /\ [m EXCEPT !.due = TRUE].retries = m.retries
                           /\ \A o : [m EXCEPT !.old = @ \/ o].retries = m.retries
    BY RetryOfLive DEF Msg
  <2>2. CASE LeaseAges(f)
    BY <1>11, <2>1, <2>2 DEF LeaseAges
  <2>3. CASE BackoffElapses(f)
    BY <1>11, <2>1, <2>3 DEF BackoffElapses, Pending
  <2>4. CASE MessageAges(f)
    BY <1>11, <2>1, <2>4 DEF MessageAges
  <2>. QED BY <1>12, <2>2, <2>3, <2>4
<1>13. ASSUME UNCHANGED vars PROVE RetryInv'
  BY <1>1, <1>13, RetryQuiet DEF vars
<1>14. ASSUME NEW p \in Procs, NEW f \in Files, TtlSweep(p, f) PROVE RetryInv'
  <2>1. live' = live /\ \E S \in SUBSET live[f] : StartWrite(p, f, S)
    BY <1>14 DEF TtlSweep, Pending
  <2>2. \A S \in SUBSET live[f] : FewRetries(S)
    BY DEF FewRetries, RetryInv, RetriesBounded
  <2>. QED BY <1>1, <2>1, <2>2, RetryBegins
<1>15. ASSUME NEW p \in Procs, NEW f \in Files, RequeueDone(p, f) PROVE RetryInv'
  <2>1. PICK n : n.retries = 0 /\ StartWrite(p, f, live[f] \cup {n})
    <3>1. PICK e \in done[f], d \in BOOLEAN, o \in Ageing :
            StartWrite(p, f, live[f] \cup {Requeued(e, stamp + 1, d, o)})
      BY <1>15 DEF RequeueDone
    <3>2. Requeued(e, stamp + 1, d, o).retries = 0
      BY DEF Requeued, NewMsg
    <3>. QED BY <3>1, <3>2
  <2>2. FewRetries(live[f] \cup {n})
    BY <2>1, QueueAssumption DEF FewRetries, RetryInv, RetriesBounded
  <2>3. live' = live
    BY <1>15 DEF RequeueDone
  <2>. QED BY <1>1, <2>1, <2>2, <2>3, RetryBegins
<1>16. ASSUME NEW p \in Procs, ReadForReplay(p) \/ ReadForPurge(p) \/ RewriteDlq(p)
       PROVE  RetryInv'
  <2>1. live' = live
    BY <1>16 DEF ReadForReplay, ReadForPurge, RewriteDlq
  <2>2. \A q \in Procs : task'[q] = task[q] \/ task'[q].at # "writing"
    BY <1>16 DEF ReadForReplay, ReadForPurge, RewriteDlq, Replaying, Replacing,
                 RetryInv, TypeInv, TypeOK
  <2>. QED BY <1>1, <2>1, <2>2, RetryQuiet
<1>17. ASSUME NEW p \in Procs, ReplayOne(p) PROVE RetryInv'
  <2>1. PICK e \in task[p].todo :
          /\ Append(FileOf[e.topic], NewMsg(stamp + 1, e.job, e.topic, NoKey))
          /\ task' = [task EXCEPT ![p] = Replaying(@.todo \ {e}, @.keep)]
    BY <1>17 DEF ReplayOne
  <2>2. FileOf[e.topic] \in Files
    BY <1>17, TaskType, FileOfType DEF ReplayOne, RetryInv, TypeInv, TypeOK, Entry
  <2>3. PICK n : n = NewMsg(stamp + 1, e.job, e.topic, NoKey)
    OBVIOUS
  <2>4. n.retries = 0 /\ Append(FileOf[e.topic], n)
    BY <2>1, <2>3 DEF NewMsg
  <2>5. \A g \in Files : live'[g] = live[g] \/ FewRetries(live'[g])
    BY <2>2, <2>4, RetryAppend
  <2>6. \A q \in Procs : task'[q] = task[q] \/ task'[q].at # "writing"
    BY <2>1 DEF Replaying, RetryInv, TypeInv, TypeOK
  <2>. QED BY <1>1, <2>5, <2>6, RetryQuiet
<1>18. ASSUME NEW p \in Procs, Step(p) PROVE RetryInv'
  BY <1>2, <1>3, <1>4, <1>5, <1>6, <1>7, <1>8, <1>9, <1>14, <1>15, <1>16, <1>17, <1>18
  DEF Step, SettleStep
<1>19. ASSUME NEW f \in Files, Tick(f) PROVE RetryInv'
  BY <1>10, <1>12, <1>19 DEF Tick
<1>. QED BY <1>13, <1>18, <1>19 DEF Next

\* No live message has used up its retries, whatever is requeued or replayed,
\* in a deployment without the collector: recovering an expired lease counts a
\* retry and does not look at the limit.
THEOREM RetriesLeft == ASSUME "gc" \notin Calls PROVE Spec => []RetriesBounded
<1>1. Init => RetryInv
  BY TypeInit DEF Init, RetryInv, RetriesBounded, Idle
<1>2. RetryInv /\ [Next]_vars => RetryInv'
  BY RetryNext
<1>3. RetryInv => RetriesBounded
  BY DEF RetryInv
<1>. QED BY <1>1, <1>2, <1>3, PTL DEF Spec

-----------------------------------------------------------------------------
(* Delivery, in a deployment that does not requeue archived messages        *)

\* What a step that neither adds, delivers nor changes a message may do.
OnlyRemoves ==
    /\ \A f \in Files : live'[f] \subseteq live[f]
    /\ \A p \in Procs : held'[p] \in {held[p], 0}
    /\ delivered' = delivered
    /\ stamp' \in {stamp, stamp + 1}

\* n is a new message, with job j, at the end of file f.
Adds(f, j, n) ==
    /\ live' = [live EXCEPT ![f] = @ \cup {n}]
    /\ n.id = stamp + 1 /\ n.pos = stamp + 1 /\ n.job = j
    /\ n.status = "pending" /\ n.due /\ n.retries = 0
    /\ j = stamp + 1 \/ "replay" \in Calls
    /\ stamp' = stamp + 1
    /\ held' = held
    /\ delivered' = delivered

\* Message m of file f becomes n, at the same place.
Becomes(f, m, n) ==
    /\ live' = [live EXCEPT ![f] = (@ \ {m}) \cup {n}]
    /\ n.id = m.id /\ n.pos = m.pos /\ n.job = m.job
    /\ stamp' = stamp

Delivers(p, f, m, n) ==
    /\ Becomes(f, m, n)
    /\ IsFirst(m, Ready(f))
    /\ n.status = "in_flight" /\ n.retries = m.retries
    /\ held' = [held EXCEPT ![p] = m.id]
    /\ delivered' = delivered \cup {m.job}

Retries(p, f, m, n) ==
    /\ Becomes(f, m, n)
    /\ m.id = held[p]
    /\ n.status = "pending" /\ n.retries = m.retries + 1
    /\ held' = [held EXCEPT ![p] = 0]
    /\ delivered' = delivered

GrowsOld(f, m, n) ==
    /\ Becomes(f, m, n)
    /\ n.status = m.status /\ n.retries = m.retries /\ (n.due = m.due \/ n.due = TRUE)
    /\ held' = held
    /\ delivered' = delivered

\* Every step does one of these things to the live messages.
Evolves ==
    \/ OnlyRemoves
    \/ \E f \in Files, j \in Nat, n \in Msg : Adds(f, j, n)
    \/ \E p \in Procs, f \in Files : \E m \in live[f], n \in Msg :
          Delivers(p, f, m, n) \/ Retries(p, f, m, n)
    \/ \E f \in Files : \E m \in live[f], n \in Msg : GrowsOld(f, m, n)
    \/ \E f \in Files : GcStale(f)

\* Only replay_dlq() and requeue() re-enqueue entries of the dead-letter file;
\* purge_dlq() has none to re-enqueue.
ReplaysAsked ==
    \A p \in Procs : task[p].at = "replaying" /\ task[p].todo # {} => "replay" \in Calls

\* Every step keeps that.
LEMMA AskedNext == ASSUME TypeInv, ReplaysAsked, [Next]_vars PROVE ReplaysAsked'
<1>1. task \in [Procs -> Task]
  BY DEF TypeInv, TypeOK
<1>2. ASSUME task' = task PROVE ReplaysAsked'
  BY <1>2 DEF ReplaysAsked
<1>3. ASSUME NEW p \in Procs, NEW T, task' = [task EXCEPT ![p] = T],
             T.at = "replaying" => T.todo = {} \/ "replay" \in Calls
      PROVE  ReplaysAsked'
  BY <1>1, <1>3 DEF ReplaysAsked
<1>4. ASSUME NEW p \in Procs, task' = [task EXCEPT ![p] = Idle] PROVE ReplaysAsked'
  BY <1>3, <1>4 DEF Idle
<1>5. ASSUME NEW p \in Procs, NEW f, NEW S, StartWrite(p, f, S) PROVE ReplaysAsked'
  BY <1>3, <1>5 DEF StartWrite, Writing
<1>6. ASSUME NEW p \in Procs, NEW call \in {"ack", "nack", "fatal"}, Find(p, call)
      PROVE  ReplaysAsked'
  BY <1>3, <1>6 DEF Find, Found
<1>7. ASSUME NEW p \in Procs, ReadForReplay(p) PROVE ReplaysAsked'
  BY <1>3, <1>7 DEF ReadForReplay, Replaying
<1>8. ASSUME NEW p \in Procs, ReadForPurge(p) PROVE ReplaysAsked'
  BY <1>3, <1>8 DEF ReadForPurge, Replaying
<1>9. ASSUME NEW p \in Procs, ReplayOne(p) PROVE ReplaysAsked'
  BY <1>1, <1>3, <1>9 DEF ReplayOne, Replaying, ReplaysAsked
<1>10. ASSUME NEW p \in Procs, RewriteDlq(p) PROVE ReplaysAsked'
  BY <1>3, <1>10 DEF RewriteDlq, Replacing
<1>11. ASSUME NEW p \in Procs, AckArchive(p) \/ NackDead(p) PROVE ReplaysAsked'
  BY <1>5, <1>11 DEF AckArchive, NackDead
<1>12. ASSUME NEW p \in Procs, NEW f \in Files, TtlSweep(p, f) \/ RequeueDone(p, f)
       PROVE  ReplaysAsked'
  BY <1>5, <1>12 DEF TtlSweep, RequeueDone
<1>13. ASSUME NEW p \in Procs,
              \/ NackRetry(p) \/ FoundMoved(p) \/ WriteTopic(p) \/ WriteFails(p)
              \/ ReplayFull(p) \/ ReplaceDlq(p) \/ Crash(p)
       PROVE  ReplaysAsked'
  BY <1>4, <1>13 DEF NackRetry, FoundMoved, WriteTopic, WriteFails, ReplayFull, ReplaceDlq, Crash
<1>14. ASSUME NEW p \in Procs,
              \/ \E t \in Topics, k \in Keys \cup {NoKey} : Enqueue(p, t, k)
              \/ \E f \in Files : Consume(p, f)
              \/ FindMissing(p)
       PROVE  ReplaysAsked'
  BY <1>2, <1>14 DEF Enqueue, Consume, FindMissing
<1>15. ASSUME NEW f \in Files, Tick(f) PROVE ReplaysAsked'
  BY <1>2, <1>15 DEF Tick, GcStale, LeaseAges, BackoffElapses, MessageAges, Ages
<1>16. CASE UNCHANGED vars
  BY <1>2, <1>16 DEF vars
<1>17. ASSUME NEW p \in Procs, Step(p) PROVE ReplaysAsked'
  BY <1>6, <1>7, <1>8, <1>9, <1>10, <1>11, <1>12, <1>13, <1>14, <1>17
  DEF Step, SettleStep
<1>. QED BY <1>15, <1>16, <1>17 DEF Next

\* An append that fails removes nothing, and one that succeeds adds a message.
LEMMA AppendEvolves ==
    ASSUME TypeInv, NEW f \in Files, NEW j \in Nat, NEW t \in Topics, NEW k \in Keys \cup {NoKey},
           j = stamp + 1 \/ "replay" \in Calls, Append(f, NewMsg(stamp + 1, j, t, k)),
           held' = held, delivered' = delivered
    PROVE  Evolves
<1>. DEFINE n == NewMsg(stamp + 1, j, t, k)
<1>1. n \in Msg
  BY MsgMake DEF TypeInv, TypeOK
<1>2. CASE live' = [live EXCEPT ![f] = @ \cup {n}]
  <2>1. /\ n.id = stamp + 1 /\ n.pos = stamp + 1 /\ n.job = j
        /\ n.status = "pending" /\ n.due /\ n.retries = 0
    BY DEF NewMsg
  <2>2. Adds(f, j, n)
    <3>. HIDE DEF n
    <3>. QED BY <1>2, <2>1 DEF Append, Adds
  <2>. QED BY <1>1, <2>2 DEF Evolves
<1>3. CASE live' = live
  BY <1>3 DEF Append, Evolves, OnlyRemoves
<1>. QED BY <1>2, <1>3 DEF Append

\* No call does anything else to the live messages.
LEMMA StepEvolves ==
    ASSUME "requeue" \notin Calls, KeyInv, ReplaysAsked, [Next]_vars PROVE Evolves
<1>. USE DEF files, history
<1>1. TypeInv /\ stamp \in Nat /\ \A f \in Files : live[f] \subseteq Msg
  BY DEF KeyInv, TypeInv, TypeOK
<1>2. ASSUME NEW p \in Procs, NEW t \in Topics, NEW k \in Keys \cup {NoKey}, Enqueue(p, t, k)
      PROVE  Evolves
  BY <1>1, <1>2, FileOfType, AppendEvolves DEF Enqueue
<1>3. ASSUME NEW p \in Procs, ReplayOne(p) PROVE Evolves
  <2>1. PICK e \in task[p].todo :
          /\ Append(FileOf[e.topic], NewMsg(stamp + 1, e.job, e.topic, NoKey))
          /\ task' = [task EXCEPT ![p] = Replaying(@.todo \ {e}, @.keep)]
    BY <1>3 DEF ReplayOne
  <2>2. e.topic \in Topics /\ e.job \in Nat
    BY <1>1, <1>3, TaskType DEF ReplayOne, TypeInv, TypeOK, Entry
  <2>3. "replay" \in Calls
    BY <1>3 DEF ReplayOne, ReplaysAsked
  <2>. QED BY <1>1, <1>3, <2>1, <2>2, <2>3, FileOfType, AppendEvolves DEF ReplayOne
<1>4. ASSUME NEW p \in Procs, WriteTopic(p) PROVE Evolves
  <2>1. task[p].msgs \subseteq live[task[p].file]
    BY <1>4 DEF WriteTopic, KeyInv, WriterShrinks
  <2>2. OnlyRemoves
    BY <1>1, <1>4, <2>1 DEF WriteTopic, OnlyRemoves, TypeInv, TypeOK
  <2>. QED BY <2>2 DEF Evolves
<1>5. ASSUME live' = live, delivered' = delivered, stamp' = stamp,
             \A p \in Procs : held'[p] \in {held[p], 0}
      PROVE  Evolves
  BY <1>5 DEF Evolves, OnlyRemoves
<1>6. ASSUME NEW p \in Procs, NEW call \in {"ack", "nack", "fatal"}, Find(p, call)
      PROVE  Evolves
  BY <1>5, <1>6 DEF Find
<1>7. ASSUME NEW p \in Procs,
             FindMissing(p) \/ FoundMoved(p) \/ AckArchive(p) \/ NackDead(p) \/ Crash(p)
      PROVE  Evolves
  <2>1. held' = [held EXCEPT ![p] = 0] /\ live' = live /\ delivered' = delivered /\ stamp' = stamp
    BY <1>7 DEF FindMissing, FoundMoved, AckArchive, NackDead, Crash
  <2>2. \A q \in Procs : held'[q] \in {held[q], 0}
    BY <1>1, <2>1 DEF TypeInv, TypeOK
  <2>. QED BY <1>5, <2>1, <2>2
<1>8. ASSUME NEW p \in Procs,
             \/ WriteFails(p) \/ ReadForReplay(p) \/ ReadForPurge(p) \/ ReplayFull(p)
             \/ RewriteDlq(p) \/ ReplaceDlq(p) \/ \E f \in Files : TtlSweep(p, f)
      PROVE  Evolves
  BY <1>5, <1>8 DEF WriteFails, ReadForReplay, ReadForPurge, ReplayFull, RewriteDlq,
                    ReplaceDlq, TtlSweep
<1>9. ASSUME NEW p \in Procs, NEW f \in Files PROVE ~RequeueDone(p, f)
  BY DEF RequeueDone
<1>10. ASSUME NEW p \in Procs, NEW f \in Files, Consume(p, f) PROVE Evolves
  <2>1. PICK m \in live[f] :
          /\ IsFirst(m, Ready(f))
          /\ live' = [live EXCEPT ![f] = (@ \ {m}) \cup {Leased(m, p)}]
          /\ held' = [held EXCEPT ![p] = m.id]
          /\ delivered' = delivered \cup {m.job}
    BY <1>10 DEF Consume
  <2>2. PICK n \in Msg : n = Leased(m, p)
    BY <1>1, MsgMake
  <2>3. /\ n.id = m.id /\ n.pos = m.pos /\ n.job = m.job
        /\ n.status = "in_flight" /\ n.retries = m.retries
    BY <1>1, <2>2 DEF Leased, Msg
  <2>4. Delivers(p, f, m, n)
    BY <1>10, <2>1, <2>2, <2>3 DEF Consume, Delivers, Becomes
  <2>. QED BY <2>4 DEF Evolves
<1>11. ASSUME NEW p \in Procs, NackRetry(p) PROVE Evolves
  <2>. DEFINE f == task[p].file
  <2>1. f \in Files
    BY <1>1, <1>11, TaskType DEF NackRetry, TypeInv, TypeOK
  <2>2. PICK m \in live[f], d \in BOOLEAN :
          /\ m.id = held[p]
          /\ live' = [live EXCEPT ![f] = (@ \ {m}) \cup {Rescheduled(m, d)}]
    BY <1>11 DEF NackRetry, AtIndex
  <2>3. PICK n \in Msg : n = Rescheduled(m, d)
    BY <1>1, <2>1, MsgMake
  <2>4. /\ n.id = m.id /\ n.pos = m.pos /\ n.job = m.job
        /\ n.status = "pending" /\ n.retries = m.retries + 1
    BY <1>1, <2>1, <2>3 DEF Rescheduled, Msg
  <2>5. Retries(p, f, m, n)
    BY <1>11, <2>2, <2>3, <2>4 DEF NackRetry, Retries, Becomes
  <2>. QED BY <2>1, <2>5 DEF Evolves
<1>12. ASSUME NEW f \in Files, LeaseAges(f) \/ BackoffElapses(f) \/ MessageAges(f)
       PROVE  Evolves
  <2>. DEFINE Older(m, n) ==
         /\ n \in Msg /\ n.id = m.id /\ n.pos = m.pos /\ n.job = m.job
         /\ n.status = m.status /\ n.retries = m.retries /\ (n.due = m.due \/ n.due = TRUE)
  <2>1. \A m \in live[f] : Older(m, [m EXCEPT !.lease = "stale"])
    BY <1>1 DEF Msg
  <2>2. \A m \in live[f] : Older(m, [m EXCEPT !.due = TRUE])
    BY <1>1 DEF Msg
  <2>3. \A m \in live[f], o \in Ageing : Older(m, [m EXCEPT !.old = @ \/ o])
    BY <1>1, Zenon DEF Msg, Ageing
  <2>4. PICK m, n : m \in live[f] /\ Older(m, n) /\ Ages(f, m, n)
    <3>. HIDE DEF Older
    <3>. QED BY <1>12, <2>1, <2>2, <2>3 DEF LeaseAges, BackoffElapses, MessageAges, Pending
  <2>. QED BY <2>4 DEF Evolves, GrowsOld, Becomes, Ages
<1>13. ASSUME NEW p \in Procs, Step(p) PROVE Evolves
  BY <1>2, <1>3, <1>4, <1>6, <1>7, <1>8, <1>9, <1>10, <1>11, <1>13 DEF Step, SettleStep
<1>14. ASSUME NEW f \in Files, Tick(f) PROVE Evolves
  BY <1>12, <1>14 DEF Tick, Evolves
<1>15. CASE UNCHANGED vars
  BY <1>5, <1>15 DEF vars
<1>. QED BY <1>13, <1>14, <1>15 DEF Next

\* Ids are given out in order, and no two live messages have the same.
IdsUnique ==
    /\ \A f \in Files : \A m \in live[f] : m.id \in 1..stamp
    /\ \A f, g \in Files : \A m \in live[f], n \in live[g] : m.id = n.id => f = g /\ m = n
    /\ \A p \in Procs : held[p] \in 0..stamp

\* What the collector does to the messages it recovers.
LEMMA RecoveredFields ==
    ASSUME TypeInv, NEW f \in Files, NEW m \in live[f]
    PROVE  /\ Recovered(m).id = m.id /\ Recovered(m).pos = m.pos /\ Recovered(m).job = m.job
           /\ Recovered(m).status = "pending" /\ Recovered(m).due = TRUE
           /\ Recovered(m).retries = m.retries + 1 /\ m.retries \in Nat
BY DEF Recovered, TypeInv, TypeOK, Msg

\* The messages after a collection are the old ones, some of them recovered.
LEMMA CollectedMessages ==
    ASSUME TypeInv, NEW f \in Files, GcStale(f)
    PROVE  /\ \A g \in Files : g # f => live'[g] = live[g]
           /\ \A n \in live'[f] : \E m \in live[f] :
                 n = IF m \in Stale(f) THEN Recovered(m) ELSE m
           /\ held' = held /\ delivered' = delivered /\ stamp' = stamp
BY DEF GcStale, history, Stale, TypeInv, TypeOK

\* The same for each file.
LEMMA CollectedFields ==
    ASSUME TypeInv, NEW f \in Files, GcStale(f), NEW g \in Files, NEW n \in live'[g]
    PROVE  \E m \in live[g] :
              /\ n.id = m.id /\ n.pos = m.pos /\ n.job = m.job
              /\ n = m \/ (n.status = "pending" /\ n.due = TRUE /\ n.retries # 0)
<1>1. CASE g = f
  <2>1. PICK m \in live[f] : n = m \/ n = Recovered(m)
    BY <1>1, CollectedMessages
  <2>2. CASE n = m
    BY <1>1, <2>1, <2>2
  <2>3. CASE n = Recovered(m)
    <3>1. /\ n.id = m.id /\ n.pos = m.pos /\ n.job = m.job
          /\ n.status = "pending" /\ n.due = TRUE
          /\ n.retries = m.retries + 1 /\ m.retries \in Nat
      BY <2>1, <2>3, RecoveredFields
    <3>2. n.retries # 0
      BY <3>1
    <3>. QED BY <1>1, <2>1, <3>1, <3>2
  <2>. QED BY <2>1, <2>2, <2>3
<1>2. CASE g # f
  BY <1>2, CollectedMessages
<1>. QED BY <1>1, <1>2

\* A step that changes one message in place.
LEMMA BecomesLive ==
    ASSUME TypeInv, NEW f \in Files, NEW m, NEW n, Becomes(f, m, n), NEW g \in Files
    PROVE  live'[g] = IF g = f THEN (live[f] \ {m}) \cup {n} ELSE live[g]
BY DEF Becomes, TypeInv, TypeOK

\* Every step keeps the ids unique.
LEMMA IdsNext == ASSUME TypeInv, IdsUnique, Evolves PROVE IdsUnique'
<1>1. stamp \in Nat /\ held \in [Procs -> Nat]
  BY DEF TypeInv, TypeOK
<1>2. CASE OnlyRemoves
  BY <1>1, <1>2 DEF OnlyRemoves, IdsUnique
<1>3. ASSUME NEW f \in Files, NEW j \in Nat, NEW n \in Msg, Adds(f, j, n) PROVE IdsUnique'
  <2>1. \A g \in Files : live'[g] = IF g = f THEN live[f] \cup {n} ELSE live[g]
    BY <1>3 DEF Adds, TypeInv, TypeOK
  <2>. QED BY <1>1, <1>3, <2>1 DEF Adds, IdsUnique
<1>4. ASSUME NEW f \in Files, NEW m \in live[f], NEW n \in Msg, Becomes(f, m, n),
             \A p \in Procs : held'[p] \in {held[p], 0, m.id}
      PROVE  IdsUnique'
  <2>1. \A g \in Files : live'[g] = IF g = f THEN (live[f] \ {m}) \cup {n} ELSE live[g]
    BY <1>4, BecomesLive
  <2>2. stamp' = stamp /\ n.id = m.id /\ m.id \in 1..stamp
    BY <1>4 DEF Becomes, IdsUnique
  <2>3. \A p \in Procs : held'[p] \in 0..stamp
    BY <1>1, <1>4, <2>2 DEF IdsUnique
  <2>. QED BY <2>1, <2>2, <2>3 DEF IdsUnique
<1>5. ASSUME NEW p \in Procs, NEW f \in Files, NEW m \in live[f], NEW n \in Msg,
             Delivers(p, f, m, n) \/ Retries(p, f, m, n)
      PROVE  IdsUnique'
  BY <1>1, <1>4, <1>5 DEF Delivers, Retries
<1>6. ASSUME NEW f \in Files, NEW m \in live[f], NEW n \in Msg, GrowsOld(f, m, n)
      PROVE  IdsUnique'
  BY <1>4, <1>6 DEF GrowsOld
<1>7. ASSUME NEW f \in Files, GcStale(f) PROVE IdsUnique'
  <2>1. \A g \in Files : \A n \in live'[g] : \E m \in live[g] :
            n.id = m.id /\ n = IF g = f /\ m \in Stale(f) THEN Recovered(m) ELSE m
    BY <1>7, CollectedMessages, RecoveredFields
  <2>. QED BY <1>7, <2>1, CollectedMessages DEF IdsUnique
<1>. QED BY <1>2, <1>3, <1>5, <1>6, <1>7 DEF Evolves

\* A message nobody gave up has one holder when it is in flight, and none when
\* it is pending.
FirstTry ==
    \A f \in Files : \A m \in live[f] : m.retries = 0 =>
        /\ m.status = "pending" => \A p \in Procs : held[p] # m.id
        /\ \A p, q \in Procs : held[p] = m.id /\ held[q] = m.id => p = q

ShareInv == KeyInv /\ ReplaysAsked /\ IdsUnique /\ FirstTry

\* Every step keeps the first try of a message in one hand.
LEMMA ShareNext == ASSUME TypeInv, IdsUnique, FirstTry, Evolves PROVE FirstTry'
<1>1. /\ stamp \in Nat /\ held \in [Procs -> Nat]
      /\ \A f \in Files : \A m \in live[f] : m.id \in 1..stamp /\ m.retries \in Nat
  BY DEF TypeInv, TypeOK, IdsUnique, Msg
<1>2. CASE OnlyRemoves
  BY <1>1, <1>2 DEF OnlyRemoves, FirstTry
<1>3. ASSUME NEW f \in Files, NEW j \in Nat, NEW n \in Msg, Adds(f, j, n) PROVE FirstTry'
  <2>1. \A g \in Files : live'[g] = IF g = f THEN live[f] \cup {n} ELSE live[g]
    BY <1>3 DEF Adds, TypeInv, TypeOK
  <2>2. held' = held /\ \A p \in Procs : held[p] # n.id
    BY <1>1, <1>3 DEF Adds, IdsUnique
  <2>. QED BY <2>1, <2>2 DEF FirstTry
<1>4. ASSUME NEW p \in Procs, NEW f \in Files, NEW m \in live[f], NEW n \in Msg,
             Delivers(p, f, m, n)
      PROVE  FirstTry'
  <2>1. \A g \in Files : live'[g] = IF g = f THEN (live[f] \ {m}) \cup {n} ELSE live[g]
    BY <1>4, BecomesLive DEF Delivers
  <2>2. \A q \in Procs : held'[q] = IF q = p THEN m.id ELSE held[q]
    BY <1>1, <1>4 DEF Delivers
  <2>3. n.id = m.id /\ n.retries = m.retries /\ n.status # "pending"
    BY <1>4 DEF Delivers, Becomes
  <2>4. m.status = "pending"
    BY <1>4 DEF Delivers, IsFirst, Ready, Pending
  <2>5. \A g \in Files : \A o \in live'[g] :
            o = n \/ (o \in live[g] /\ o.id # m.id)
    BY <2>1 DEF IdsUnique
  <2>6. n.retries = 0 => \A q, r \in Procs : held'[q] = n.id /\ held'[r] = n.id => q = r
    BY <2>2, <2>3, <2>4 DEF FirstTry
  <2>. QED BY <2>2, <2>3, <2>5, <2>6 DEF FirstTry
<1>5. ASSUME NEW p \in Procs, NEW f \in Files, NEW m \in live[f], NEW n \in Msg,
             Retries(p, f, m, n)
      PROVE  FirstTry'
  <2>1. \A g \in Files : live'[g] = IF g = f THEN (live[f] \ {m}) \cup {n} ELSE live[g]
    BY <1>5, BecomesLive DEF Retries
  <2>2. \A q \in Procs : held'[q] = IF q = p THEN 0 ELSE held[q]
    BY <1>1, <1>5 DEF Retries
  <2>3. n.retries # 0
    BY <1>1, <1>5 DEF Retries
  <2>. QED BY <1>1, <2>1, <2>2, <2>3 DEF FirstTry
<1>6. ASSUME NEW f \in Files, NEW m \in live[f], NEW n \in Msg, GrowsOld(f, m, n)
      PROVE  FirstTry'
  <2>1. \A g \in Files : live'[g] = IF g = f THEN (live[f] \ {m}) \cup {n} ELSE live[g]
    BY <1>6, BecomesLive DEF GrowsOld
  <2>2. n.id = m.id /\ n.status = m.status /\ n.retries = m.retries /\ held' = held
    BY <1>6 DEF GrowsOld, Becomes
  <2>. QED BY <2>1, <2>2 DEF FirstTry
<1>7. ASSUME NEW f \in Files, GcStale(f) PROVE FirstTry'
  <2>1. \A g \in Files : \A n \in live'[g] : n \in live[g] \/ n.retries # 0
    BY <1>7, CollectedFields
  <2>. QED BY <1>7, <2>1, CollectedMessages DEF FirstTry
<1>. QED BY <1>2, <1>3, <1>4, <1>5, <1>6, <1>7 DEF Evolves

\* The inductive invariant of the keys holds initially.
LEMMA KeyInit == ASSUME Init PROVE KeyInv
BY TypeInit DEF Init, KeyInv, WriterLocks, WriterShrinks, KeyUnique, Idle

\* Two processes work on one message only after a nack or an expired lease gave
\* it up, in any deployment that does not put archived messages back.
THEOREM SharedWhenRecovered ==
    ASSUME "requeue" \notin Calls PROVE Spec => []SharedOnlyAfterRecovery
<1>1. Init => ShareInv
  BY KeyInit DEF Init, ShareInv, ReplaysAsked, Idle, IdsUnique, FirstTry
<1>2. ShareInv /\ [Next]_vars => ShareInv'
  BY KeyNext, AskedNext, StepEvolves, IdsNext, ShareNext DEF ShareInv, KeyInv
<1>3. ShareInv => SharedOnlyAfterRecovery
  <2>1. ASSUME ShareInv, NEW f \in Files, NEW m \in live[f] PROVE m.retries \in Nat
    BY <2>1 DEF ShareInv, KeyInv, TypeInv, TypeOK, Msg
  <2>. QED BY <2>1 DEF ShareInv, FirstTry, SharedOnlyAfterRecovery
<1>. QED BY <1>1, <1>2, <1>3, PTL DEF Spec

\* Without replays a message keeps its first position, and only a message that
\* was delivered is in flight or waits for a retry.
FirstPlace ==
    /\ \A f \in Files : \A m \in live[f] :
         /\ m.pos = m.id /\ m.job = m.id
         /\ m.status = "in_flight" \/ ~m.due => m.job \in delivered
    /\ \A p \in Procs : held[p] # 0 => held[p] \in delivered
    /\ delivered \subseteq 1..stamp

OrderInv == KeyInv /\ ReplaysAsked /\ IdsUnique /\ FirstPlace /\ DeliveredInOrder

\* Every step delivers the oldest message that nobody has received.
LEMMA OrderNext ==
    ASSUME "replay" \notin Calls, TypeInv, IdsUnique, FirstPlace, DeliveredInOrder, Evolves
    PROVE  FirstPlace' /\ DeliveredInOrder'
<1>1. /\ stamp \in Nat /\ held \in [Procs -> Nat]
      /\ \A f \in Files : \A m \in live[f] : m.id \in 1..stamp
      /\ \A f \in Files : \A m \in live[f] : m \in Msg
  BY DEF TypeInv, TypeOK, IdsUnique
<1>2. CASE OnlyRemoves
  BY <1>1, <1>2 DEF OnlyRemoves, FirstPlace, DeliveredInOrder
<1>3. ASSUME NEW f \in Files, NEW j \in Nat, NEW n \in Msg, Adds(f, j, n)
      PROVE  FirstPlace' /\ DeliveredInOrder'
  <2>1. \A g \in Files : live'[g] = IF g = f THEN live[f] \cup {n} ELSE live[g]
    BY <1>3 DEF Adds, TypeInv, TypeOK
  <2>2. /\ n.id = stamp + 1 /\ n.pos = stamp + 1 /\ n.job = stamp + 1
        /\ n.status = "pending" /\ n.due
        /\ stamp' = stamp + 1 /\ held' = held /\ delivered' = delivered
    BY <1>3 DEF Adds
  <2>3. n.job \notin delivered
    BY <1>1, <2>2 DEF FirstPlace
  <2>4. \A g \in Files : \A m \in live[g] : m.pos < n.pos
    BY <1>1, <2>2 DEF FirstPlace
  <2>5. FirstPlace'
    BY <1>1, <2>1, <2>2 DEF FirstPlace
  <2>. QED BY <2>1, <2>2, <2>3, <2>4, <2>5 DEF DeliveredInOrder
<1>4. ASSUME NEW p \in Procs, NEW f \in Files, NEW m \in live[f], NEW n \in Msg,
             Delivers(p, f, m, n)
      PROVE  FirstPlace' /\ DeliveredInOrder'
  <2>1. \A g \in Files : live'[g] = IF g = f THEN (live[f] \ {m}) \cup {n} ELSE live[g]
    BY <1>4, BecomesLive DEF Delivers
  <2>2. \A q \in Procs : held'[q] = IF q = p THEN m.id ELSE held[q]
    BY <1>1, <1>4 DEF Delivers
  <2>3. /\ n.id = m.id /\ n.pos = m.pos /\ n.job = m.job
        /\ delivered' = delivered \cup {m.job} /\ stamp' = stamp
    BY <1>4 DEF Delivers, Becomes
  <2>4. FirstPlace'
    BY <1>1, <2>1, <2>2, <2>3 DEF FirstPlace
  <2>5. ASSUME NEW o \in live[f], o.job \notin delivered' PROVE m.pos < o.pos
    <3>1. o.job \notin delivered /\ o.job # m.job
      BY <2>3, <2>5
    <3>2. o \in Ready(f)
      BY <1>1, <3>1 DEF Ready, Pending, FirstPlace, Msg
    <3>3. m.pos =< o.pos
      BY <1>4, <3>2 DEF Delivers, IsFirst
    <3>. QED BY <1>1, <3>1, <3>3 DEF FirstPlace
  <2>6. \A g \in Files : \A o \in live'[g] :
            (g = f /\ o = n) \/ (o \in live[g] /\ o.job # m.job)
    BY <2>1 DEF FirstPlace, IdsUnique
  <2>7. DeliveredInOrder'
    BY <2>1, <2>3, <2>5, <2>6 DEF DeliveredInOrder
  <2>. QED BY <2>4, <2>7
<1>5. ASSUME NEW p \in Procs, NEW f \in Files, NEW m \in live[f], NEW n \in Msg,
             Retries(p, f, m, n)
      PROVE  FirstPlace' /\ DeliveredInOrder'
  <2>1. \A g \in Files : live'[g] = IF g = f THEN (live[f] \ {m}) \cup {n} ELSE live[g]
    BY <1>5, BecomesLive DEF Retries
  <2>2. \A q \in Procs : held'[q] = IF q = p THEN 0 ELSE held[q]
    BY <1>1, <1>5 DEF Retries
  <2>3. /\ n.id = m.id /\ n.pos = m.pos /\ n.job = m.job
        /\ delivered' = delivered /\ stamp' = stamp
    BY <1>5 DEF Retries, Becomes
  <2>4. m.job \in delivered
    BY <1>1, <1>5 DEF Retries, FirstPlace
  <2>. QED BY <1>1, <2>1, <2>2, <2>3, <2>4 DEF FirstPlace, DeliveredInOrder
<1>6. ASSUME NEW f \in Files, NEW m \in live[f], NEW n \in Msg, GrowsOld(f, m, n)
      PROVE  FirstPlace' /\ DeliveredInOrder'
  <2>1. \A g \in Files : live'[g] = IF g = f THEN (live[f] \ {m}) \cup {n} ELSE live[g]
    BY <1>6, BecomesLive DEF GrowsOld
  <2>2. /\ n.id = m.id /\ n.pos = m.pos /\ n.job = m.job
        /\ n.status = m.status /\ (n.due = m.due \/ n.due = TRUE)
        /\ held' = held /\ delivered' = delivered /\ stamp' = stamp
    BY <1>6 DEF GrowsOld, Becomes
  <2>. QED BY <2>1, <2>2 DEF FirstPlace, DeliveredInOrder
<1>7. ASSUME NEW f \in Files, GcStale(f) PROVE FirstPlace' /\ DeliveredInOrder'
  <2>1. \A g \in Files : \A n \in live'[g] : \E m \in live[g] :
            /\ n.id = m.id /\ n.pos = m.pos /\ n.job = m.job
            /\ n = m \/ (n.status = "pending" /\ n.due = TRUE)
    BY <1>7, CollectedFields
  <2>2. held' = held /\ delivered' = delivered /\ stamp' = stamp
    BY <1>7, CollectedMessages
  <2>. QED BY <2>1, <2>2 DEF FirstPlace, DeliveredInOrder
<1>. QED BY <1>2, <1>3, <1>4, <1>5, <1>6, <1>7 DEF Evolves

\* Topics are FIFO, with retries, expired leases, expired messages, failing
\* writes and crashes, as long as no settled message is put back in the queue.
THEOREM DeliveryInOrder ==
    ASSUME Calls \cap {"requeue", "replay"} = {} PROVE Spec => []DeliveredInOrder
<1>1. Init => OrderInv
  BY KeyInit DEF Init, OrderInv, ReplaysAsked, Idle, IdsUnique, FirstPlace, DeliveredInOrder
<1>2. OrderInv /\ [Next]_vars => OrderInv'
  BY KeyNext, AskedNext, StepEvolves, IdsNext, OrderNext DEF OrderInv, KeyInv
<1>3. OrderInv => DeliveredInOrder
  BY DEF OrderInv
<1>. QED BY <1>1, <1>2, <1>3, PTL DEF Spec

-----------------------------------------------------------------------------
(* Jobs nobody has received, in a deployment that does not rewrite the       *)
(* dead-letter file                                                          *)

InDlq(j) == \E e \in dlq : e.job = j

\* Messages that are their own job, and that were delivered when in flight.
Traced(S, received) ==
    \A m \in S : m.id # 0 /\ m.job = m.id /\ (m.status = "in_flight" => m.job \in received)

\* A job nobody has received is live or dead; what leaves a live file otherwise
\* was received.
FreshKept ==
    /\ \A f \in Files : Traced(live[f], delivered)
    /\ \A f \in Files : \A e \in done[f] : e.id # 0 /\ e.job = e.id /\ e.job \in delivered
    /\ \A p \in Procs : held[p] # 0 => held[p] \in delivered
    /\ \A p \in Procs : task[p].at = "writing" =>
         /\ Traced(task[p].msgs, delivered)
         /\ \A m \in live[task[p].file] :
              m \in task[p].msgs \/ m.job \in delivered \/ InDlq(m.job)
    /\ \A j \in accepted : j \in delivered \/ IsLive(j) \/ InDlq(j)

FreshInv == TypeInv /\ WriterLocks /\ NoDlqCall /\ FreshKept

\* Steps that start and end no write: an unlocked file may change if its jobs stay.
LEMMA FreshQuiet ==
    ASSUME FreshInv, TypeInv', lock' = lock, done' = done, dlq \subseteq dlq',
           delivered \subseteq delivered',
           \A j \in accepted' : j \in accepted \/ IsLive(j)' \/ InDlq(j)',
           \A p \in Procs : held'[p] \in {held[p], 0} \cup delivered',
           \A p \in Procs : task'[p] = task[p] \/ task'[p].at \in {"idle", "found"},
           \A g \in Files : live'[g] = live[g] \/
              (/\ CanLock(g)
               /\ \A m \in live[g] : \E n \in live'[g] : n.job = m.job
               /\ Traced(live'[g], delivered'))
    PROVE  FreshInv'
<1>1. /\ \A j : InDlq(j) => InDlq(j)'
      /\ \A j : IsLive(j) => IsLive(j)'
      /\ \A S : Traced(S, delivered) => Traced(S, delivered')
  BY DEF InDlq, IsLive, Traced
<1>2. WriterLocks' /\ NoDlqCall'
  BY DEF FreshInv, WriterLocks, NoDlqCall
<1>3. \A p \in Procs : task[p].at = "writing" => live'[task[p].file] = live[task[p].file]
  <2>1. \A p \in Procs : task[p].at = "writing" =>
            task[p].file \in Files /\ ~CanLock(task[p].file)
    BY QueueAssumption, TaskType DEF FreshInv, TypeInv, TypeOK, WriterLocks, CanLock
  <2>. QED BY <2>1
<1>4. \A f \in Files : Traced(live'[f], delivered')
  BY <1>1 DEF FreshInv, FreshKept
<1>5. \A p \in Procs : task'[p].at = "writing" =>
         /\ Traced(task'[p].msgs, delivered')
         /\ \A m \in live'[task'[p].file] :
              m \in task'[p].msgs \/ m.job \in delivered' \/ InDlq(m.job)'
  BY <1>1, <1>3 DEF FreshInv, FreshKept
<1>6. \A j \in accepted' : j \in delivered' \/ IsLive(j)' \/ InDlq(j)'
  BY <1>1 DEF FreshInv, FreshKept
<1>7. FreshKept'
  BY <1>4, <1>5, <1>6 DEF FreshInv, FreshKept
<1>. QED BY <1>2, <1>7 DEF FreshInv

\* A step that starts to write a file without messages that were received or die.
LEMMA FreshBegins ==
    ASSUME FreshInv, TypeInv', NEW p \in Procs, NEW f \in Files, NEW S,
           CanLock(f), StartWrite(p, f, S), live' = live, dlq \subseteq dlq',
           delivered' = delivered, accepted' = accepted,
           \A q \in Procs : held'[q] \in {held[q], 0},
           \A g \in Files : \A e \in done'[g] :
              e \in done[g] \/ (e.id # 0 /\ e.job = e.id /\ e.job \in delivered),
           Traced(S, delivered),
           \A m \in live[f] : m \in S \/ m.job \in delivered \/ InDlq(m.job)'
    PROVE  FreshInv'
<1>1. /\ \A q \in Procs : task'[q] = IF q = p THEN Writing(f, S) ELSE task[q]
      /\ \A g \in Files : lock'[g] = IF g = f THEN p ELSE lock[g]
  BY DEF StartWrite, FreshInv, TypeInv, TypeOK
<1>2. \A q \in Procs : task[q].at = "writing" => task[q].file \in Files /\ task[q].file # f
  BY QueueAssumption, TaskType DEF FreshInv, TypeInv, TypeOK, WriterLocks, CanLock
<1>3. WriterLocks' /\ NoDlqCall'
  BY <1>1, <1>2 DEF FreshInv, WriterLocks, NoDlqCall, Writing
<1>4. /\ \A j : InDlq(j) => InDlq(j)'
      /\ \A j : IsLive(j) => IsLive(j)'
  BY DEF InDlq, IsLive
<1>5. \A q \in Procs : task'[q].at = "writing" =>
         /\ Traced(task'[q].msgs, delivered)
         /\ \A m \in live[task'[q].file] :
              m \in task'[q].msgs \/ m.job \in delivered \/ InDlq(m.job)'
  BY <1>1, <1>4 DEF Writing, FreshInv, FreshKept
<1>6. FreshKept'
  BY <1>4, <1>5 DEF FreshInv, FreshKept
<1>. QED BY <1>3, <1>6 DEF FreshInv

\* A step that ends the call of a process, after its write or without one.
LEMMA FreshEnds ==
    ASSUME FreshInv, TypeInv', NEW p \in Procs, task' = [task EXCEPT ![p] = Idle],
           done' = done, dlq' = dlq, delivered' = delivered, accepted' = accepted,
           \A q \in Procs : held'[q] \in {held[q], 0},
           \A g \in Files : lock'[g] = lock[g] \/ lock[g] = p,
           \/ live' = live
           \/ task[p].at = "writing" /\ live' = [live EXCEPT ![task[p].file] = task[p].msgs]
    PROVE  FreshInv'
<1>1. \A q \in Procs : task'[q] = IF q = p THEN Idle ELSE task[q]
  BY DEF FreshInv, TypeInv, TypeOK
<1>2. \A q \in Procs : task[q].at = "writing" => task[q].file \in Files /\ lock[task[q].file] = q
  BY TaskType DEF FreshInv, TypeInv, TypeOK, WriterLocks
<1>3. WriterLocks' /\ NoDlqCall'
  BY <1>1, <1>2 DEF FreshInv, WriterLocks, NoDlqCall, Idle
<1>4. \A g \in Files : live'[g] = live[g] \/
         (task[p].at = "writing" /\ g = task[p].file /\ live'[g] = task[p].msgs)
  BY DEF FreshInv, TypeInv, TypeOK
<1>5. \A f \in Files : Traced(live'[f], delivered)
  BY <1>4 DEF FreshInv, FreshKept
<1>6. \A q \in Procs : task'[q].at = "writing" =>
         task'[q] = task[q] /\ live'[task[q].file] = live[task[q].file]
  BY <1>1, <1>2, <1>4 DEF Idle
<1>7. \A f \in Files : \A m \in live[f] :
         m \in live'[f] \/ m.job \in delivered \/ InDlq(m.job)
  BY <1>4 DEF FreshInv, FreshKept
<1>8. \A j \in accepted : j \in delivered \/ IsLive(j)' \/ InDlq(j)
  BY <1>7 DEF IsLive, FreshInv, FreshKept
<1>9. \A j : InDlq(j)' <=> InDlq(j)
  BY DEF InDlq
<1>10. FreshKept'
  BY <1>5, <1>6, <1>8, <1>9 DEF FreshInv, FreshKept
<1>. QED BY <1>3, <1>10 DEF FreshInv

\* Exchanging a message for one with the same id and job.
LEMMA FreshExchange ==
    ASSUME FreshInv, NEW f \in Files, NEW m \in live[f], NEW n, Becomes(f, m, n),
           n.status \in {m.status, "pending"}, NEW g \in Files
    PROVE  live'[g] = live[g] \/
              (/\ g = f
               /\ \A a \in live[g] : \E b \in live'[g] : b.job = a.job
               /\ Traced(live'[g], delivered))
<1>1. live'[g] = IF g = f THEN (live[f] \ {m}) \cup {n} ELSE live[g]
  BY BecomesLive DEF FreshInv
<1>2. Traced(live[f], delivered)
  BY DEF FreshInv, FreshKept
<1>3. Traced((live[f] \ {m}) \cup {n}, delivered) /\ n.job = m.job
  BY <1>2 DEF Traced, Becomes
<1>. QED BY <1>1, <1>3

\* Every step keeps the jobs nobody has received.
LEMMA FreshNext ==
    ASSUME Calls \cap {"replay", "purge"} = {}, FreshInv, [Next]_vars PROVE FreshInv'
<1>. USE DEF files, history
<1>1. TypeInv' /\ TypeInv
  BY TypeNext DEF FreshInv
<1>2. /\ held \in [Procs -> Nat] /\ task \in [Procs -> Task]
      /\ \A f \in Files : live[f] \subseteq Msg
  BY <1>1 DEF TypeInv, TypeOK
<1>3. ASSUME NEW p \in Procs, NEW t \in Topics, NEW k \in Keys \cup {NoKey}, Enqueue(p, t, k)
      PROVE  FreshInv'
  <2>1. PICK i, n : i = stamp + 1 /\ n = NewMsg(i, i, t, k)
    OBVIOUS
  <2>2. n.id = i /\ n.job = i /\ n.status = "pending" /\ i # 0 /\ accepted' = accepted \cup {i}
    BY <1>1, <1>3, <2>1 DEF Enqueue, NewMsg, TypeInv, TypeOK
  <2>3. PICK f \in Files : CanLock(f) /\ Append(f, n)
    BY <1>3, <2>1, FileOfType DEF Enqueue
  <2>4. CASE live' = [live EXCEPT ![f] = @ \cup {n}] /\ dlq' = dlq
    <3>1. \A g \in Files : live'[g] = IF g = f THEN live[f] \cup {n} ELSE live[g]
      BY <1>1, <2>4 DEF TypeInv, TypeOK
    <3>2. IsLive(i)'
      BY <2>2, <2>3, <3>1 DEF IsLive
    <3>3. Traced(live[f], delivered)
      BY DEF FreshInv, FreshKept
    <3>4. Traced(live[f] \cup {n}, delivered)
      BY <2>2, <3>3 DEF Traced
    <3>5. \A a \in live[f] : \E b \in live'[f] : b.job = a.job
      BY <3>1
    <3>. QED BY <1>1, <1>3, <2>2, <2>3, <2>4, <3>1, <3>2, <3>4, <3>5, FreshQuiet DEF Enqueue
  <2>5. CASE live' = live /\ dlq' = dlq \cup {EntryOf(n)}
    <3>1. EntryOf(n).job = i
      BY <2>2 DEF EntryOf
    <3>2. InDlq(i)'
      BY <2>5, <3>1 DEF InDlq
    <3>. QED BY <1>1, <1>3, <2>2, <2>5, <3>2, FreshQuiet DEF Enqueue
  <2>. QED BY <2>3, <2>4, <2>5 DEF Append
<1>4. ASSUME NEW p \in Procs, NEW f \in Files, Consume(p, f) PROVE FreshInv'
  <2>1. PICK m \in live[f] :
          /\ live' = [live EXCEPT ![f] = (@ \ {m}) \cup {Leased(m, p)}]
          /\ held' = [held EXCEPT ![p] = m.id]
          /\ delivered' = delivered \cup {m.job}
    BY <1>4 DEF Consume
  <2>2. PICK n : n = Leased(m, p)
    OBVIOUS
  <2>3. n.id = m.id /\ n.job = m.job
    BY <1>2, <2>2 DEF Leased, Msg
  <2>4. Traced(live[f], delivered)
    BY DEF FreshInv, FreshKept
  <2>5. m.id \in delivered' /\ Traced((live[f] \ {m}) \cup {n}, delivered')
    BY <2>1, <2>3, <2>4 DEF Traced
  <2>6. \A q \in Procs : held'[q] \in {held[q], 0} \cup delivered'
    BY <1>2, <2>1, <2>5
  <2>7. \A g \in Files : live'[g] = IF g = f THEN (live[f] \ {m}) \cup {n} ELSE live[g]
    BY <1>1, <2>1, <2>2 DEF TypeInv, TypeOK
  <2>8. \A a \in live[f] : \E b \in live'[f] : b.job = a.job
    BY <2>3, <2>7
  <2>. QED BY <1>1, <1>4, <2>1, <2>5, <2>6, <2>7, <2>8, FreshQuiet DEF Consume
<1>5. ASSUME NEW p \in Procs, NEW call \in {"ack", "nack", "fatal"}, Find(p, call)
      PROVE  FreshInv'
  <2>1. \A q \in Procs : task'[q] = task[q] \/ task'[q].at = "found"
    BY <1>2, <1>5 DEF Find, Found
  <2>. QED BY <1>1, <1>5, <2>1, FreshQuiet DEF Find
<1>6. ASSUME NEW p \in Procs, FindMissing(p) PROVE FreshInv'
  <2>1. \A q \in Procs : held'[q] \in {held[q], 0} \cup delivered'
    BY <1>2, <1>6 DEF FindMissing
  <2>. QED BY <1>1, <1>6, <2>1, FreshQuiet DEF FindMissing
<1>7. ASSUME NEW p \in Procs, FoundMoved(p) \/ Crash(p) PROVE FreshInv'
  <2>1. \A q \in Procs : held'[q] \in {held[q], 0}
    BY <1>2, <1>7 DEF FoundMoved, Crash
  <2>2. \A g \in Files : lock'[g] = lock[g] \/ lock[g] = p
    BY <1>7 DEF FoundMoved, Crash
  <2>. QED BY <1>1, <1>7, <2>1, <2>2, FreshEnds DEF FoundMoved, Crash
<1>8. ASSUME NEW p \in Procs, WriteTopic(p) \/ WriteFails(p) PROVE FreshInv'
  <2>1. task[p].at = "writing" /\ task[p].file \in Files /\ lock[task[p].file] = p
    BY <1>2, <1>8, TaskType DEF WriteTopic, WriteFails, FreshInv, WriterLocks
  <2>2. \A g \in Files : lock'[g] = lock[g] \/ lock[g] = p
    BY <1>1, <1>8, <2>1 DEF WriteTopic, WriteFails, TypeInv, TypeOK
  <2>. QED BY <1>1, <1>8, <2>1, <2>2, FreshEnds DEF WriteTopic, WriteFails
<1>9. ASSUME NEW p \in Procs, AckArchive(p) PROVE FreshInv'
  <2>. DEFINE f == task[p].file
  <2>1. f \in Files /\ CanLock(f) /\ held' = [held EXCEPT ![p] = 0]
    BY <1>2, <1>9, TaskType DEF AckArchive
  <2>2. PICK m \in live[f] :
          /\ m.id = held[p]
          /\ done' = [done EXCEPT ![f] = @ \cup {EntryOf(m)}]
          /\ StartWrite(p, f, live[f] \ {m})
    BY <1>9 DEF AckArchive, AtIndex
  <2>3. Traced(live[f], delivered) /\ (held[p] # 0 => held[p] \in delivered)
    BY <2>1 DEF FreshInv, FreshKept
  <2>4. m.id # 0 /\ m.job = m.id /\ m.job \in delivered /\ Traced(live[f] \ {m}, delivered)
    BY <2>2, <2>3 DEF Traced
  <2>5. \A g \in Files : \A e \in done'[g] :
            e \in done[g] \/ (e.id # 0 /\ e.job = e.id /\ e.job \in delivered)
    <3>1. EntryOf(m).id = m.id /\ EntryOf(m).job = m.job
      BY DEF EntryOf
    <3>2. \A g \in Files : done'[g] = IF g = f THEN done[f] \cup {EntryOf(m)} ELSE done[g]
      BY <1>1, <2>1, <2>2 DEF TypeInv, TypeOK
    <3>. QED BY <2>4, <3>1, <3>2
  <2>6. \A q \in Procs : held'[q] \in {held[q], 0}
    BY <1>2, <2>1
  <2>7. live' = live /\ dlq' = dlq /\ delivered' = delivered /\ accepted' = accepted
    BY <1>9 DEF AckArchive
  <2>. QED BY <1>1, <2>1, <2>2, <2>4, <2>5, <2>6, <2>7, FreshBegins
<1>10. ASSUME NEW p \in Procs, NackRetry(p) PROVE FreshInv'
  <2>. DEFINE f == task[p].file
  <2>1. f \in Files /\ CanLock(f) /\ held' = [held EXCEPT ![p] = 0]
    BY <1>2, <1>10, TaskType DEF NackRetry
  <2>2. PICK m \in live[f], d \in BOOLEAN :
          live' = [live EXCEPT ![f] = (@ \ {m}) \cup {Rescheduled(m, d)}]
    BY <1>10 DEF NackRetry
  <2>3. PICK n : n = Rescheduled(m, d)
    OBVIOUS
  <2>4. Becomes(f, m, n) /\ n.status \in {m.status, "pending"}
    <3>1. n.id = m.id /\ n.pos = m.pos /\ n.job = m.job /\ n.status = "pending"
      BY <1>2, <2>1, <2>3 DEF Rescheduled, Msg
    <3>. QED BY <1>10, <2>2, <2>3, <3>1 DEF NackRetry, Becomes
  <2>5. \A g \in Files : live'[g] = live[g] \/
          (/\ CanLock(g)
           /\ \A a \in live[g] : \E b \in live'[g] : b.job = a.job
           /\ Traced(live'[g], delivered))
    BY <2>1, <2>4, FreshExchange
  <2>6. \A q \in Procs : held'[q] \in {held[q], 0} \cup delivered'
    BY <1>2, <2>1
  <2>7. \A q \in Procs : task'[q] = task[q] \/ task'[q].at = "idle"
    BY <1>2, <1>10 DEF NackRetry, Idle
  <2>. QED BY <1>1, <1>10, <2>5, <2>6, <2>7, FreshQuiet DEF NackRetry
<1>11. ASSUME NEW p \in Procs, NackDead(p) PROVE FreshInv'
  <2>. DEFINE f == task[p].file
  <2>1. f \in Files /\ CanLock(f) /\ held' = [held EXCEPT ![p] = 0]
    BY <1>2, <1>11, TaskType DEF NackDead
  <2>2. PICK m \in live[f] :
          dlq' = dlq \cup {EntryOf(m)} /\ StartWrite(p, f, live[f] \ {m})
    BY <1>11 DEF NackDead
  <2>3. InDlq(m.job)'
    <3>1. EntryOf(m).job = m.job /\ EntryOf(m) \in dlq'
      BY <2>2 DEF EntryOf
    <3>. QED BY <3>1 DEF InDlq
  <2>4. Traced(live[f] \ {m}, delivered)
    BY <2>1 DEF FreshInv, FreshKept, Traced
  <2>5. \A q \in Procs : held'[q] \in {held[q], 0}
    BY <1>2, <2>1
  <2>6. live' = live /\ done' = done /\ delivered' = delivered /\ accepted' = accepted
    BY <1>11 DEF NackDead
  <2>. QED BY <1>1, <2>1, <2>2, <2>3, <2>4, <2>5, <2>6, FreshBegins
<1>12. ASSUME NEW f \in Files, GcStale(f) PROVE FreshInv'
  <2>1. \A g \in Files : live'[g] = live[g] \/ g = f
    BY <1>1, <1>12, CollectedMessages
  <2>2. Traced(live[f], delivered)
    BY DEF FreshInv, FreshKept
  <2>3. Traced(live'[f], delivered)
    <3>1. \A n \in live'[f] : \E m \in live[f] :
             n.id = m.id /\ n.job = m.job /\ (n = m \/ n.status = "pending")
      BY <1>1, <1>12, CollectedFields
    <3>. QED BY <2>2, <3>1 DEF Traced
  <2>4. \A m \in live[f] : \E n \in live'[f] : n.job = m.job
    <3>1. live'[f] = (live[f] \ Stale(f)) \cup {Recovered(m) : m \in Stale(f)}
      BY <1>1, <1>12 DEF GcStale, TypeInv, TypeOK
    <3>. QED BY <1>1, <3>1, RecoveredFields
  <2>. QED BY <1>1, <1>12, <2>1, <2>3, <2>4, FreshQuiet DEF GcStale
<1>13. ASSUME NEW p \in Procs, NEW f \in Files, TtlSweep(p, f) PROVE FreshInv'
  <2>. DEFINE expired == {m \in Pending(f) : m.old}
  <2>1. /\ CanLock(f) /\ StartWrite(p, f, Pending(f) \ expired)
        /\ dlq' = dlq \cup {EntryOf(m) : m \in expired}
        /\ live' = live /\ done' = done /\ held' = held
        /\ delivered' = delivered /\ accepted' = accepted
    BY <1>13 DEF TtlSweep
  <2>2. Traced(live[f], delivered)
    BY DEF FreshInv, FreshKept
  <2>3. Traced(Pending(f) \ expired, delivered)
    BY <2>2 DEF Pending, Traced
  <2>4. \A m \in expired : InDlq(m.job)'
    <3>1. \A m : EntryOf(m).job = m.job
      BY DEF EntryOf
    <3>. QED BY <2>1, <3>1 DEF InDlq
  <2>5. \A m \in live[f] : m \in Pending(f) \ expired \/ m.job \in delivered \/ InDlq(m.job)'
    BY <1>2, <2>2, <2>4 DEF Pending, Traced, Msg
  <2>. QED BY <1>1, <2>1, <2>3, <2>5, FreshBegins
<1>14. ASSUME NEW p \in Procs, NEW f \in Files, RequeueDone(p, f) PROVE FreshInv'
  <2>1. PICK e \in done[f], d \in BOOLEAN, o \in Ageing :
          /\ done' = [done EXCEPT ![f] = @ \ {e}]
          /\ StartWrite(p, f, live[f] \cup {Requeued(e, stamp + 1, d, o)})
    BY <1>14 DEF RequeueDone
  <2>2. PICK n : n = Requeued(e, stamp + 1, d, o)
    OBVIOUS
  <2>3. n.id = e.id /\ n.job = e.job /\ n.status = "pending"
    BY <2>2 DEF Requeued, NewMsg
  <2>4. Traced(live[f], delivered) /\ e.id # 0 /\ e.job = e.id
    BY DEF FreshInv, FreshKept
  <2>5. Traced(live[f] \cup {n}, delivered)
    BY <2>3, <2>4 DEF Traced
  <2>6. \A g \in Files : done'[g] \subseteq done[g]
    BY <1>1, <2>1 DEF TypeInv, TypeOK
  <2>7. /\ CanLock(f) /\ live' = live /\ dlq' = dlq /\ held' = held
        /\ delivered' = delivered /\ accepted' = accepted
    BY <1>14 DEF RequeueDone
  <2>. QED BY <1>1, <2>1, <2>2, <2>5, <2>6, <2>7, FreshBegins
<1>15. ASSUME NEW f \in Files, LeaseAges(f) \/ BackoffElapses(f) \/ MessageAges(f)
       PROVE  FreshInv'
  <2>. DEFINE Same(m, n) ==
         n.id = m.id /\ n.pos = m.pos /\ n.job = m.job /\ n.status = m.status
  <2>1. \A m \in live[f] : /\ Same(m, [m EXCEPT !.lease = "stale"])
                           /\ Same(m, [m EXCEPT !.due = TRUE])
                           /\ \A o : Same(m, [m EXCEPT !.old = @ \/ o])
    BY <1>2 DEF Msg
  <2>2. PICK m, n : m \in live[f] /\ Same(m, n) /\ Ages(f, m, n)
    <3>. HIDE DEF Same
    <3>. QED BY <1>15, <2>1 DEF LeaseAges, BackoffElapses, MessageAges, Pending
  <2>3. m \in live[f] /\ CanLock(f) /\ Becomes(f, m, n) /\ n.status \in {m.status, "pending"}
    BY <2>2 DEF Ages, Becomes
  <2>4. \A g \in Files : live'[g] = live[g] \/
          (/\ CanLock(g)
           /\ \A a \in live[g] : \E b \in live'[g] : b.job = a.job
           /\ Traced(live'[g], delivered))
    BY <2>3, FreshExchange
  <2>. QED BY <1>1, <2>2, <2>4, FreshQuiet DEF Ages
<1>16. CASE UNCHANGED vars
  BY <1>1, <1>16, FreshQuiet DEF vars
<1>17. ASSUME NEW p \in Procs
       PROVE  /\ ~ReadForReplay(p) /\ ~ReadForPurge(p)
              /\ ~ReplayOne(p) /\ ~ReplayFull(p) /\ ~RewriteDlq(p) /\ ~ReplaceDlq(p)
  BY DEF FreshInv, NoDlqCall, ReadForReplay, ReadForPurge, ReplayOne, ReplayFull,
         RewriteDlq, ReplaceDlq
<1>18. ASSUME NEW p \in Procs, Step(p) PROVE FreshInv'
  BY <1>3, <1>4, <1>5, <1>6, <1>7, <1>8, <1>9, <1>10, <1>11, <1>13, <1>14, <1>17, <1>18
  DEF Step, SettleStep
<1>19. ASSUME NEW f \in Files, Tick(f) PROVE FreshInv'
  BY <1>12, <1>15, <1>19 DEF Tick
<1>. QED BY <1>16, <1>18, <1>19 DEF Next

\* A job that was accepted and that no process has received yet is never lost,
\* although the TTL sweep drops messages in flight and requeue() takes a message
\* out of the archive before it is back in its live file.
THEOREM UndeliveredNotLost ==
    ASSUME Calls \cap {"replay", "purge"} = {} PROVE Spec => []UndeliveredKept
<1>1. Init => FreshInv
  <2>. SUFFICES ASSUME Init PROVE FreshInv
    OBVIOUS
  <2>1. \A j \in accepted : InDlq(j)
    <3>1. PICK t \in Topics :
            dlq = {[id |-> j, job |-> j, topic |-> t, key |-> NoKey] : j \in SeedJobs}
      BY DEF Init
    <3>2. \A j \in SeedJobs : [id |-> j, job |-> j, topic |-> t, key |-> NoKey] \in dlq
      BY <3>1
    <3>. QED BY <3>2 DEF Init, InDlq
  <2>2. FreshKept
    BY <2>1 DEF Init, FreshKept, Traced, Idle
  <2>. QED BY <2>2, TypeInit DEF Init, FreshInv, WriterLocks, NoDlqCall, Idle
<1>2. FreshInv /\ [Next]_vars => FreshInv'
  BY FreshNext
<1>3. FreshInv => UndeliveredKept
  <2>1. \A j : IsLive(j) => j \in AvailableJobs
    <3>1. \A j : IsLive(j) => \E f \in Files : j \in JobsOf(live[f])
      BY DEF IsLive, JobsOf
    <3>. QED BY <3>1 DEF AvailableJobs
  <2>2. \A j : InDlq(j) => j \in SettledJobs
    BY DEF InDlq, SettledJobs, JobsOf
  <2>. QED BY <2>1, <2>2 DEF FreshInv, FreshKept, UndeliveredKept
<1>. QED BY <1>1, <1>2, <1>3, PTL DEF Spec

-----------------------------------------------------------------------------
(* Where a message ends                                                      *)

UniqueIds(S) == \A m, n \in S : m.id = n.id => m = n

\* What the dead-letter file holds, or may be replaced by.
Dead(i) ==
    \/ \E e \in dlq : e.id = i
    \/ \E T \in dlqTmp : \E e \in T : e.id = i
    \/ \E p \in Procs : task[p].at = "replaying" /\ \E e \in task[p].keep : e.id = i

Archived(f, i) == \E e \in done[f] : e.id = i

\* The ids that are, or are about to be, in the live file or the archive of f.
Writes(p, f) == task[p].at = "writing" /\ task[p].file = f
Here(f, i) ==
    \/ \E m \in live[f] : m.id = i
    \/ Archived(f, i)
    \/ \E p \in Procs : Writes(p, f) /\ \E m \in task[p].msgs : m.id = i

IdsPlaced ==
    /\ stamp =< MaxStamp
    /\ \A f \in Files : \A i : Here(f, i) => i \in Nat /\ i # 0 /\ i =< stamp
    /\ \A i : Dead(i) => i \in Nat /\ (i =< stamp \/ i > MaxStamp)
    /\ \A f, g \in Files : \A i : Here(f, i) /\ Here(g, i) => f = g

Clean ==
    /\ \A f \in Files : UniqueIds(live[f]) /\ UniqueIds(done[f])
    /\ \A f \in Files : \A i : ~(Archived(f, i) /\ Dead(i))
    /\ \A f \in Files : \A m \in live[f] : Archived(f, m.id) \/ Dead(m.id) =>
         \E p \in Procs : Writes(p, f) /\ \A n \in task[p].msgs : n.id # m.id
    /\ \A p \in Procs : \A f \in Files : Writes(p, f) =>
         /\ UniqueIds(task[p].msgs)
         /\ \A m \in task[p].msgs : ~Archived(f, m.id) /\ ~Dead(m.id)

OnceInv == TypeInv /\ WriterLocks /\ IdsPlaced /\ (crashes = 0 => Clean)

\* An unlocked file has no writer, so nothing in it is settled.
LEMMA UnlockedFile ==
    ASSUME OnceInv, NEW f \in Files, CanLock(f)
    PROVE  /\ \A p \in Procs : ~Writes(p, f)
           /\ crashes = 0 => \A m \in live[f] : ~Archived(f, m.id) /\ ~Dead(m.id)
<1>1. \A p \in Procs : ~Writes(p, f)
  BY QueueAssumption DEF OnceInv, WriterLocks, CanLock, Writes
<1>. QED BY <1>1 DEF OnceInv, Clean

\* Steps that do not touch the dead letters.
LEMMA DeadSame ==
    ASSUME dlq' = dlq, dlqTmp' = dlqTmp,
           \A p \in Procs : task'[p] = task[p] \/ task'[p].at # "replaying"
    PROVE  \A i : Dead(i)' => Dead(i)
BY DEF Dead

\* Steps that start and end no write and settle nothing: an unlocked file may
\* change if its ids stay.
LEMMA OnceQuiet ==
    ASSUME OnceInv, TypeInv', lock' = lock, done' = done, stamp' = stamp, crashes' = crashes,
           \A i : Dead(i)' => Dead(i),
           \A p \in Procs : task'[p] = task[p] \/
              (task[p].at # "writing" /\ task'[p].at # "writing"),
           \A g \in Files : live'[g] = live[g] \/
              (/\ CanLock(g)
               /\ \A n \in live'[g] : \E m \in live[g] : n.id = m.id
               /\ UniqueIds(live[g]) => UniqueIds(live'[g]))
    PROVE  OnceInv'
<1>1. /\ \A f, i : Archived(f, i)' <=> Archived(f, i)
      /\ \A p \in Procs : \A f : Writes(p, f)' <=> Writes(p, f)
      /\ \A p \in Procs : \A f : Writes(p, f) => task'[p] = task[p]
  BY DEF Archived, Writes
<1>2. \A f \in Files : \A i : Here(f, i)' => Here(f, i)
  BY <1>1 DEF Here
<1>3. IdsPlaced'
  BY <1>2 DEF OnceInv, IdsPlaced
<1>4. WriterLocks'
  BY DEF OnceInv, WriterLocks
<1>5. ASSUME crashes = 0 PROVE Clean'
  <2>1. Clean
    BY <1>5 DEF OnceInv
  <2>2. \A f \in Files : UniqueIds(live'[f]) /\ UniqueIds(done'[f])
    BY <2>1 DEF Clean
  <2>3. \A f \in Files : \A m \in live'[f] : Archived(f, m.id)' \/ Dead(m.id)' =>
          \E p \in Procs : Writes(p, f)' /\ \A n \in task'[p].msgs : n.id # m.id
    <3>. SUFFICES ASSUME NEW f \in Files, NEW m \in live'[f],
                         Archived(f, m.id) \/ Dead(m.id)
                  PROVE  \E p \in Procs : Writes(p, f)' /\ \A n \in task'[p].msgs : n.id # m.id
      BY <1>1
    <3>1. CASE live'[f] = live[f]
      BY <1>1, <2>1, <3>1 DEF Clean
    <3>2. CASE CanLock(f) /\ \E o \in live[f] : m.id = o.id
      BY <1>5, <3>2, UnlockedFile
    <3>. QED BY <3>1, <3>2
  <2>4. \A p \in Procs : \A f \in Files : Writes(p, f)' =>
          /\ UniqueIds(task'[p].msgs)
          /\ \A m \in task'[p].msgs : ~Archived(f, m.id)' /\ ~Dead(m.id)'
    BY <1>1, <2>1 DEF Clean
  <2>5. \A f \in Files : \A i : ~(Archived(f, i)' /\ Dead(i)')
    BY <1>1, <2>1 DEF Clean
  <2>. QED BY <2>2, <2>3, <2>4, <2>5 DEF Clean
<1>. QED BY <1>3, <1>4, <1>5 DEF OnceInv

\* A new message, in its file or in the dead-letter file when the write fails.
LEMMA OnceAppend ==
    ASSUME OnceInv, TypeInv', NEW f \in Files, NEW n \in Msg, n.id = stamp + 1, Append(f, n),
           lock' = lock, done' = done, dlqTmp' = dlqTmp, crashes' = crashes,
           \A p \in Procs : task'[p] = task[p] \/
              (/\ task[p].at = "replaying" /\ task'[p].at = "replaying"
               /\ task'[p].keep = task[p].keep)
    PROVE  OnceInv'
<1>1. /\ \A g, i : Archived(g, i)' <=> Archived(g, i)
      /\ \A p \in Procs : \A g : Writes(p, g)' <=> Writes(p, g)
      /\ \A p \in Procs : \A g : Writes(p, g) => task'[p] = task[p]
      /\ stamp \in Nat /\ stamp' = stamp + 1 /\ stamp + 1 =< MaxStamp /\ MaxStamp \in Nat
  BY QueueAssumption DEF Archived, Writes, Append, OnceInv, TypeInv, TypeOK
<1>2. WriterLocks'
  BY DEF OnceInv, WriterLocks
<1>3. /\ \A g \in Files : \A i : Archived(g, i) => i # n.id
      /\ \A g \in Files : \A m \in live[g] : m.id # n.id
      /\ \A p \in Procs, g \in Files : Writes(p, g) => \A m \in task[p].msgs : m.id # n.id
      /\ ~Dead(n.id)
  BY <1>1 DEF OnceInv, IdsPlaced, Here
<1>4. CASE live' = [live EXCEPT ![f] = @ \cup {n}] /\ dlq' = dlq
  <2>1. \A g \in Files : live'[g] = IF g = f THEN live[f] \cup {n} ELSE live[g]
    BY <1>4 DEF OnceInv, TypeInv, TypeOK
  <2>2. \A i : Dead(i)' => Dead(i)
    BY <1>4 DEF Dead
  <2>3. \A g \in Files : \A i : Here(g, i)' => Here(g, i) \/ (g = f /\ i = n.id)
    BY <1>1, <2>1 DEF Here
  <2>4. IdsPlaced'
    BY <1>1, <2>2, <2>3 DEF OnceInv, IdsPlaced
  <2>5. ASSUME crashes = 0 PROVE Clean'
    <3>1. \A g \in Files : UniqueIds(live'[g]) /\ UniqueIds(done'[g])
      BY <1>3, <2>1, <2>5 DEF OnceInv, Clean, UniqueIds
    <3>2. \A g \in Files : \A m \in live'[g] : Archived(g, m.id)' \/ Dead(m.id)' =>
            \E p \in Procs : Writes(p, g)' /\ \A o \in task'[p].msgs : o.id # m.id
      BY <1>1, <1>3, <2>1, <2>2, <2>5 DEF OnceInv, Clean
    <3>3. \A p \in Procs : \A g \in Files : Writes(p, g)' =>
            /\ UniqueIds(task'[p].msgs)
            /\ \A m \in task'[p].msgs : ~Archived(g, m.id)' /\ ~Dead(m.id)'
      BY <1>1, <2>2, <2>5 DEF OnceInv, Clean
    <3>4. \A g \in Files : \A i : ~(Archived(g, i)' /\ Dead(i)')
      BY <1>1, <2>2, <2>5 DEF OnceInv, Clean
    <3>. QED BY <3>1, <3>2, <3>3, <3>4 DEF Clean
  <2>. QED BY <1>2, <2>4, <2>5 DEF OnceInv
<1>5. CASE live' = live /\ dlq' = dlq \cup {EntryOf(n)}
  <2>1. \A i : Dead(i)' => Dead(i) \/ i = n.id
    <3>1. EntryOf(n).id = n.id
      BY DEF EntryOf
    <3>. QED BY <1>5, <3>1 DEF Dead
  <2>2. \A g \in Files : \A i : Here(g, i)' => Here(g, i)
    BY <1>1, <1>5 DEF Here
  <2>3. IdsPlaced'
    BY <1>1, <2>1, <2>2 DEF OnceInv, IdsPlaced
  <2>4. ASSUME crashes = 0 PROVE Clean'
    <3>1. \A g \in Files : UniqueIds(live'[g]) /\ UniqueIds(done'[g])
      BY <1>5, <2>4 DEF OnceInv, Clean
    <3>2. \A g \in Files : \A m \in live'[g] : Archived(g, m.id)' \/ Dead(m.id)' =>
            \E p \in Procs : Writes(p, g)' /\ \A o \in task'[p].msgs : o.id # m.id
      BY <1>1, <1>3, <1>5, <2>1, <2>4 DEF OnceInv, Clean
    <3>3. \A p \in Procs : \A g \in Files : Writes(p, g)' =>
            /\ UniqueIds(task'[p].msgs)
            /\ \A m \in task'[p].msgs : ~Archived(g, m.id)' /\ ~Dead(m.id)'
      BY <1>1, <1>3, <2>1, <2>4 DEF OnceInv, Clean
    <3>4. \A g \in Files : \A i : ~(Archived(g, i)' /\ Dead(i)')
      BY <1>1, <1>3, <2>1, <2>4 DEF OnceInv, Clean
    <3>. QED BY <3>1, <3>2, <3>3, <3>4 DEF Clean
  <2>. QED BY <1>2, <2>3, <2>4 DEF OnceInv
<1>. QED BY <1>4, <1>5 DEF Append

\* A step that settles messages of an unlocked file, or takes one out of its
\* archive, and starts to write the file.
LEMMA OnceBegins ==
    ASSUME OnceInv, TypeInv', NEW p \in Procs, NEW f \in Files, NEW S,
           CanLock(f), task[p].at # "writing", StartWrite(p, f, S),
           live' = live, crashes' = crashes,
           stamp' = stamp \/ (stamp' = stamp + 1 /\ stamp' =< MaxStamp),
           \A g \in Files : g # f => done'[g] = done[g],
           \A n \in S : Archived(f, n.id) \/ \E m \in live[f] : n.id = m.id,
           \A i : Archived(f, i)' => Archived(f, i) \/ \E m \in live[f] : m.id = i,
           \A i : Dead(i)' => Dead(i) \/ \E m \in live[f] : m.id = i,
           crashes = 0 =>
              /\ UniqueIds(S) /\ UniqueIds(done'[f])
              /\ \A n \in S : ~Archived(f, n.id)' /\ ~Dead(n.id)'
              /\ \A i : ~(Archived(f, i)' /\ Dead(i)')
    PROVE  OnceInv'
<1>1. /\ \A q \in Procs : task'[q] = IF q = p THEN Writing(f, S) ELSE task[q]
      /\ \A g \in Files : lock'[g] = IF g = f THEN p ELSE lock[g]
      /\ stamp \in Nat /\ stamp' \in Nat /\ stamp =< stamp'
  BY DEF StartWrite, OnceInv, TypeInv, TypeOK
<1>2. \A q \in Procs : ~Writes(q, f)
  BY UnlockedFile
<1>3. \A q \in Procs : task[q].at = "writing" => task[q].file \in Files /\ task[q].file # f
  BY <1>2, TaskType DEF Writes, OnceInv, TypeInv, TypeOK
<1>4. WriterLocks'
  BY <1>1, <1>3 DEF OnceInv, WriterLocks, Writing
<1>5. /\ \A g \in Files : \A i : g # f => (Archived(g, i)' <=> Archived(g, i))
      /\ \A q \in Procs : \A g : Writes(q, g)' <=> (q = p /\ g = f) \/ Writes(q, g)
      /\ \A q \in Procs : \A g : Writes(q, g) => q # p /\ task'[q] = task[q]
      /\ task'[p].msgs = S
  BY <1>1 DEF Archived, Writes, Writing
<1>6. \A g \in Files : \A i : Here(g, i)' => Here(g, i)
  BY <1>5 DEF Here
<1>7. \A i : Dead(i)' => Dead(i) \/ Here(f, i)
  BY DEF Here
<1>8. IdsPlaced'
  BY <1>1, <1>6, <1>7 DEF OnceInv, IdsPlaced
<1>9. \A g \in Files : \A i : g # f /\ Here(g, i) => (Dead(i)' => Dead(i))
  BY <1>7 DEF OnceInv, IdsPlaced
<1>10. ASSUME crashes = 0 PROVE Clean'
  <2>1. Clean
    BY <1>10 DEF OnceInv
  <2>2. \A g \in Files : UniqueIds(live'[g]) /\ UniqueIds(done'[g])
    BY <1>10, <2>1 DEF Clean
  <2>3. \A g \in Files : \A m \in live'[g] : Archived(g, m.id)' \/ Dead(m.id)' =>
          \E q \in Procs : Writes(q, g)' /\ \A n \in task'[q].msgs : n.id # m.id
    <3>. SUFFICES ASSUME NEW g \in Files, NEW m \in live[g], Archived(g, m.id)' \/ Dead(m.id)'
                  PROVE  \E q \in Procs : Writes(q, g)' /\ \A n \in task'[q].msgs : n.id # m.id
      OBVIOUS
    <3>1. CASE g = f
      BY <1>5, <1>10, <3>1
    <3>2. CASE g # f
      <4>1. Here(g, m.id)
        BY DEF Here
      <4>2. Archived(g, m.id) \/ Dead(m.id)
        BY <1>5, <1>9, <3>2, <4>1
      <4>. QED BY <1>5, <2>1, <4>2 DEF Clean
    <3>. QED BY <3>1, <3>2
  <2>4. \A q \in Procs : \A g \in Files : Writes(q, g)' =>
          /\ UniqueIds(task'[q].msgs)
          /\ \A m \in task'[q].msgs : ~Archived(g, m.id)' /\ ~Dead(m.id)'
    <3>. SUFFICES ASSUME NEW q \in Procs, NEW g \in Files, Writes(q, g)'
                  PROVE  /\ UniqueIds(task'[q].msgs)
                         /\ \A m \in task'[q].msgs : ~Archived(g, m.id)' /\ ~Dead(m.id)'
      OBVIOUS
    <3>1. CASE q = p /\ g = f
      BY <1>5, <1>10, <3>1
    <3>2. CASE Writes(q, g)
      <4>1. g # f /\ task'[q] = task[q] /\ \A m \in task[q].msgs : Here(g, m.id)
        BY <1>2, <1>5, <3>2 DEF Here
      <4>. QED BY <1>5, <1>9, <2>1, <3>2, <4>1 DEF Clean
    <3>. QED BY <1>5, <3>1, <3>2
  <2>5. \A g \in Files : \A i : ~(Archived(g, i)' /\ Dead(i)')
    <3>1. \A g \in Files : \A i : Archived(g, i) => Here(g, i)
      BY DEF Here
    <3>. QED BY <1>5, <1>9, <1>10, <2>1, <3>1 DEF Clean
  <2>. QED BY <2>2, <2>3, <2>4, <2>5 DEF Clean
<1>. QED BY <1>4, <1>8, <1>10 DEF OnceInv

\* The second step of a call that writes two files.
LEMMA OnceWrites == ASSUME OnceInv, TypeInv', NEW p \in Procs, WriteTopic(p) PROVE OnceInv'
<1>. DEFINE f == task[p].file
<1>1. /\ task[p].at = "writing" /\ f \in Files /\ lock[f] = p /\ Writes(p, f)
      /\ done' = done /\ stamp' = stamp /\ crashes' = crashes
      /\ dlq' = dlq /\ dlqTmp' = dlqTmp
  BY TaskType DEF WriteTopic, Writes, OnceInv, TypeInv, TypeOK, WriterLocks
<1>2. /\ \A q \in Procs : task'[q] = IF q = p THEN Idle ELSE task[q]
      /\ \A g \in Files : live'[g] = IF g = f THEN task[p].msgs ELSE live[g]
      /\ \A g \in Files : lock'[g] = IF g = f THEN NoProc ELSE lock[g]
  BY <1>1 DEF WriteTopic, OnceInv, TypeInv, TypeOK
<1>. HIDE DEF f
<1>3. WriterLocks'
  BY <1>1, <1>2, TaskType DEF OnceInv, WriterLocks, Idle, TypeInv, TypeOK
<1>4. /\ \A g, i : Archived(g, i)' <=> Archived(g, i)
      /\ \A q \in Procs : \A g : Writes(q, g)' <=> (q # p /\ Writes(q, g))
      /\ \A g : Writes(p, g) => g = f
  BY <1>1, <1>2 DEF Archived, Writes, Idle, f
<1>5. \A i : Dead(i)' => Dead(i)
  BY <1>1, <1>2 DEF Dead, Idle
<1>6. \A g \in Files : \A i : Here(g, i)' => Here(g, i)
  BY <1>1, <1>2, <1>4 DEF Here
<1>7. IdsPlaced'
  BY <1>1, <1>5, <1>6 DEF OnceInv, IdsPlaced
<1>8. ASSUME crashes = 0 PROVE Clean'
  <2>1. Clean
    BY <1>8 DEF OnceInv
  <2>2. \A g \in Files : UniqueIds(live'[g]) /\ UniqueIds(done'[g])
    BY <1>1, <1>2, <2>1 DEF Clean
  <2>3. \A g \in Files : \A m \in live'[g] : Archived(g, m.id)' \/ Dead(m.id)' =>
          \E q \in Procs : Writes(q, g)' /\ \A n \in task'[q].msgs : n.id # m.id
    <3>. SUFFICES ASSUME NEW g \in Files, NEW m \in live'[g], Archived(g, m.id) \/ Dead(m.id)
                  PROVE  \E q \in Procs : Writes(q, g)' /\ \A n \in task'[q].msgs : n.id # m.id
      BY <1>4, <1>5
    <3>1. CASE g = f
      BY <1>1, <1>2, <2>1, <3>1 DEF Clean
    <3>2. CASE g # f
      BY <1>2, <1>4, <2>1, <3>2 DEF Clean
    <3>. QED BY <3>1, <3>2
  <2>4. \A q \in Procs : \A g \in Files : Writes(q, g)' =>
          /\ UniqueIds(task'[q].msgs)
          /\ \A m \in task'[q].msgs : ~Archived(g, m.id)' /\ ~Dead(m.id)'
    BY <1>2, <1>4, <1>5, <2>1 DEF Clean
  <2>5. \A g \in Files : \A i : ~(Archived(g, i)' /\ Dead(i)')
    BY <1>4, <1>5, <2>1 DEF Clean
  <2>. QED BY <2>2, <2>3, <2>4, <2>5 DEF Clean
<1>. QED BY <1>1, <1>3, <1>7, <1>8 DEF OnceInv

\* A crash or a failing write: the promise is off, but the ids stay in their places.
LEMMA OnceFails ==
    ASSUME OnceInv, TypeInv', NEW p \in Procs, WriteFails(p) \/ Crash(p) PROVE OnceInv'
<1>. USE DEF files, history
<1>1. /\ \A q \in Procs : task'[q] = IF q = p THEN Idle ELSE task[q]
      /\ live' = live /\ done' = done /\ dlq' = dlq /\ dlqTmp' = dlqTmp
      /\ stamp' = stamp /\ crashes' # 0
  BY DEF WriteFails, Crash, OnceInv, TypeInv, TypeOK
<1>2. \A q \in Procs : task[q].at = "writing" => task[q].file \in Files /\ lock[task[q].file] = q
  BY TaskType DEF OnceInv, TypeInv, TypeOK, WriterLocks
<1>3. \A g \in Files : lock'[g] = lock[g] \/ lock[g] = p
  <2>1. CASE WriteFails(p)
    BY <1>2, <2>1 DEF WriteFails, OnceInv, TypeInv, TypeOK
  <2>2. CASE Crash(p)
    BY <2>2 DEF Crash
  <2>. QED BY <2>1, <2>2
<1>4. WriterLocks'
  BY <1>1, <1>2, <1>3 DEF OnceInv, WriterLocks, Idle
<1>5. /\ \A i : Dead(i)' => Dead(i)
      /\ \A g \in Files : \A i : Here(g, i)' => Here(g, i)
  BY <1>1 DEF Dead, Here, Archived, Writes, Idle
<1>. QED BY <1>1, <1>4, <1>5 DEF OnceInv, IdsPlaced

\* Every step keeps the ids in their places and settles a message once.
LEMMA OnceNext == ASSUME OnceInv, [Next]_vars PROVE OnceInv'
<1>. USE DEF files, history
<1>1. TypeInv /\ TypeInv'
  BY TypeNext DEF OnceInv
<1>2. /\ held \in [Procs -> Nat] /\ task \in [Procs -> Task]
      /\ \A f \in Files : live[f] \subseteq Msg /\ done[f] \subseteq Entry
      /\ stamp \in Nat /\ stamp =< MaxStamp
  BY <1>1 DEF TypeInv, TypeOK, OnceInv, IdsPlaced
<1>3. \A m : EntryOf(m).id = m.id
  BY DEF EntryOf
<1>4. ASSUME NEW p \in Procs, NEW t \in Topics, NEW k \in Keys \cup {NoKey}, Enqueue(p, t, k)
      PROVE  OnceInv'
  <2>1. PICK n \in Msg : n = NewMsg(stamp + 1, stamp + 1, t, k)
    BY <1>2, MsgMake
  <2>2. n.id = stamp + 1
    BY <2>1 DEF NewMsg
  <2>3. FileOf[t] \in Files /\ Append(FileOf[t], n)
    BY <1>4, <2>1, FileOfType DEF Enqueue
  <2>4. lock' = lock /\ done' = done /\ dlqTmp' = dlqTmp /\ crashes' = crashes /\ task' = task
    BY <1>4 DEF Enqueue
  <2>. QED BY <1>1, <2>2, <2>3, <2>4, OnceAppend
<1>5. ASSUME NEW p \in Procs, ReplayOne(p) PROVE OnceInv'
  <2>1. PICK e \in task[p].todo :
          /\ Append(FileOf[e.topic], NewMsg(stamp + 1, e.job, e.topic, NoKey))
          /\ task' = [task EXCEPT ![p] = Replaying(@.todo \ {e}, @.keep)]
    BY <1>5 DEF ReplayOne
  <2>2. e \in Entry
    BY <1>2, <1>5, TaskType DEF ReplayOne
  <2>3. FileOf[e.topic] \in Files /\ e.topic \in Topics /\ e.job \in Nat
    BY <2>2, FileOfType DEF Entry
  <2>4. PICK n \in Msg : n = NewMsg(stamp + 1, e.job, e.topic, NoKey)
    BY <1>2, <2>3, MsgMake
  <2>5. n.id = stamp + 1 /\ Append(FileOf[e.topic], n)
    BY <2>1, <2>4 DEF NewMsg
  <2>6. \A q \in Procs : task'[q] = task[q] \/
           (/\ task[q].at = "replaying" /\ task'[q].at = "replaying"
            /\ task'[q].keep = task[q].keep)
    BY <1>2, <1>5, <2>1 DEF ReplayOne, Replaying
  <2>7. lock' = lock /\ done' = done /\ dlqTmp' = dlqTmp /\ crashes' = crashes
    BY <1>5 DEF ReplayOne
  <2>. QED BY <1>1, <2>3, <2>5, <2>6, <2>7, OnceAppend
<1>6. ASSUME NEW f \in Files, NEW m \in live[f], NEW n, Becomes(f, m, n), CanLock(f),
             lock' = lock, done' = done, crashes' = crashes, dlq' = dlq, dlqTmp' = dlqTmp,
             \A q \in Procs : task'[q] = task[q] \/
                (task[q].at = "found" /\ task'[q].at = "idle")
      PROVE  OnceInv'
  <2>1. \A g \in Files : live'[g] = IF g = f THEN (live[f] \ {m}) \cup {n} ELSE live[g]
    BY <1>1, <1>6, BecomesLive
  <2>2. n.id = m.id /\ stamp' = stamp
    BY <1>6 DEF Becomes
  <2>3. UniqueIds(live[f]) => UniqueIds(live'[f])
    BY <2>1, <2>2 DEF UniqueIds
  <2>4. \A o \in live'[f] : \E a \in live[f] : o.id = a.id
    BY <2>1, <2>2
  <2>5. \A i : Dead(i)' => Dead(i)
    BY <1>6, DeadSame
  <2>. QED BY <1>1, <1>6, <2>1, <2>2, <2>3, <2>4, <2>5, OnceQuiet
<1>7. ASSUME NEW p \in Procs, NEW f \in Files, Consume(p, f) PROVE OnceInv'
  <2>1. PICK m \in live[f] : live' = [live EXCEPT ![f] = (@ \ {m}) \cup {Leased(m, p)}]
    BY <1>7 DEF Consume
  <2>2. PICK n : n = Leased(m, p)
    OBVIOUS
  <2>3. n.id = m.id /\ n.pos = m.pos /\ n.job = m.job
    BY <1>2, <2>2 DEF Leased, Msg
  <2>4. Becomes(f, m, n)
    BY <1>7, <2>1, <2>2, <2>3 DEF Becomes, Consume
  <2>. QED BY <1>6, <1>7, <2>4 DEF Consume
<1>8. ASSUME NEW p \in Procs, NackRetry(p) PROVE OnceInv'
  <2>1. PICK f \in Files : f = task[p].file
    BY <1>2, <1>8, TaskType DEF NackRetry
  <2>2. PICK m \in live[f], d \in BOOLEAN :
           live' = [live EXCEPT ![f] = (@ \ {m}) \cup {Rescheduled(m, d)}]
    BY <1>8, <2>1 DEF NackRetry
  <2>3. PICK n : n = Rescheduled(m, d)
    OBVIOUS
  <2>4. n.id = m.id /\ n.pos = m.pos /\ n.job = m.job
    BY <1>2, <2>3 DEF Rescheduled, Msg
  <2>5. Becomes(f, m, n)
    BY <1>8, <2>2, <2>3, <2>4 DEF Becomes, NackRetry
  <2>6. \A q \in Procs : task'[q] = task[q] \/ (task[q].at = "found" /\ task'[q].at = "idle")
    BY <1>2, <1>8 DEF NackRetry, Idle
  <2>. QED BY <1>6, <1>8, <2>1, <2>5, <2>6 DEF NackRetry
<1>9. ASSUME NEW f \in Files, LeaseAges(f) \/ BackoffElapses(f) \/ MessageAges(f)
      PROVE  OnceInv'
  <2>. DEFINE Same(m, n) == n.id = m.id /\ n.pos = m.pos /\ n.job = m.job
  <2>1. \A m \in live[f] : /\ Same(m, [m EXCEPT !.lease = "stale"])
                           /\ Same(m, [m EXCEPT !.due = TRUE])
                           /\ \A o : Same(m, [m EXCEPT !.old = @ \/ o])
    BY <1>2 DEF Msg
  <2>2. PICK m, n : m \in live[f] /\ Same(m, n) /\ Ages(f, m, n)
    <3>. HIDE DEF Same
    <3>. QED BY <1>9, <2>1 DEF LeaseAges, BackoffElapses, MessageAges, Pending
  <2>3. Becomes(f, m, n)
    BY <2>2 DEF Ages, Becomes
  <2>. QED BY <1>6, <2>2, <2>3 DEF Ages
<1>10. ASSUME NEW f \in Files, GcStale(f) PROVE OnceInv'
  <2>1. /\ CanLock(f) /\ lock' = lock /\ done' = done /\ dlq' = dlq /\ dlqTmp' = dlqTmp
        /\ task' = task /\ stamp' = stamp /\ crashes' = crashes
    BY <1>10 DEF GcStale
  <2>2. /\ \A g \in Files : g # f => live'[g] = live[g]
        /\ \A n \in live'[f] : \E m \in live[f] :
              n.id = m.id /\ n = IF m \in Stale(f) THEN Recovered(m) ELSE m
    BY <1>1, <1>10, CollectedMessages, RecoveredFields
  <2>3. UniqueIds(live[f]) => UniqueIds(live'[f])
    BY <2>2 DEF UniqueIds
  <2>4. \A n \in live'[f] : \E m \in live[f] : n.id = m.id
    BY <2>2
  <2>5. \A i : Dead(i)' => Dead(i)
    BY <2>1, DeadSame
  <2>. QED BY <1>1, <2>1, <2>2, <2>3, <2>4, <2>5, OnceQuiet
<1>11. ASSUME live' = live, lock' = lock, done' = done, stamp' = stamp, crashes' = crashes,
              \A i : Dead(i)' => Dead(i),
              \A p \in Procs : task'[p] = task[p] \/
                 (task[p].at # "writing" /\ task'[p].at # "writing")
       PROVE  OnceInv'
  BY <1>1, <1>11, OnceQuiet
<1>12. ASSUME NEW p \in Procs, NEW call \in {"ack", "nack", "fatal"}, Find(p, call)
       PROVE  OnceInv'
  <2>1. /\ live' = live /\ lock' = lock /\ done' = done /\ dlq' = dlq /\ dlqTmp' = dlqTmp
        /\ stamp' = stamp /\ crashes' = crashes
    BY <1>12 DEF Find
  <2>2. \A q \in Procs : task'[q] = task[q] \/ (task[q].at = "idle" /\ task'[q].at = "found")
    BY <1>2, <1>12 DEF Find, Found, Idle
  <2>3. \A i : Dead(i)' => Dead(i)
    BY <2>1, <2>2, DeadSame
  <2>. QED BY <1>11, <2>1, <2>2, <2>3
<1>13. ASSUME NEW p \in Procs, FindMissing(p) PROVE OnceInv'
  <2>1. \A i : Dead(i)' => Dead(i)
    BY <1>13, DeadSame DEF FindMissing
  <2>. QED BY <1>11, <1>13, <2>1 DEF FindMissing
<1>14. ASSUME NEW p \in Procs, FoundMoved(p) \/ ReplayFull(p) PROVE OnceInv'
  <2>1. \A q \in Procs : task'[q] = task[q] \/ (task[q].at # "writing" /\ task'[q].at = "idle")
    BY <1>2, <1>14 DEF FoundMoved, ReplayFull, Idle
  <2>2. /\ live' = live /\ lock' = lock /\ done' = done /\ dlq' = dlq /\ dlqTmp' = dlqTmp
        /\ stamp' = stamp /\ crashes' = crashes
    BY <1>14 DEF FoundMoved, ReplayFull
  <2>3. \A i : Dead(i)' => Dead(i)
    BY <2>1, <2>2, DeadSame
  <2>. QED BY <1>11, <2>1, <2>2, <2>3
<1>15. ASSUME NEW p \in Procs, ReadForReplay(p) \/ ReadForPurge(p) PROVE OnceInv'
  <2>1. /\ live' = live /\ lock' = lock /\ done' = done /\ dlq' = dlq /\ dlqTmp' = dlqTmp
        /\ stamp' = stamp /\ crashes' = crashes /\ task[p] = Idle
    BY <1>15 DEF ReadForReplay, ReadForPurge
  <2>2. PICK todo, keep : task' = [task EXCEPT ![p] = Replaying(todo, keep)] /\ keep \subseteq dlq
    <3>1. CASE ReadForReplay(p)
      <4>1. PICK sel \in Selections : task' = [task EXCEPT ![p] = Replaying(sel, dlq \ sel)]
        BY <3>1 DEF ReadForReplay
      <4>. QED BY <4>1
    <3>2. CASE ReadForPurge(p)
      <4>1. PICK sel : task' = [task EXCEPT ![p] = Replaying({}, dlq \ sel)]
        BY <3>2 DEF ReadForPurge
      <4>. QED BY <4>1
    <3>. QED BY <1>15, <3>1, <3>2
  <2>3. \A q \in Procs : task'[q] = task[q] \/
           (/\ task[q].at = "idle" /\ task'[q].at = "replaying"
            /\ task'[q].keep \subseteq dlq)
    BY <1>2, <2>1, <2>2 DEF Replaying, Idle
  <2>4. \A i : Dead(i)' => Dead(i)
    BY <2>1, <2>3 DEF Dead
  <2>. QED BY <1>11, <2>1, <2>3, <2>4
<1>16. ASSUME NEW p \in Procs, RewriteDlq(p) PROVE OnceInv'
  <2>1. /\ live' = live /\ lock' = lock /\ done' = done /\ dlq' = dlq
        /\ stamp' = stamp /\ crashes' = crashes
        /\ task[p].at = "replaying" /\ dlqTmp' = {task[p].keep}
    BY <1>16 DEF RewriteDlq
  <2>2. \A q \in Procs : task'[q] = task[q] \/
           (task[q].at = "replaying" /\ task'[q].at = "replacing")
    BY <1>2, <1>16 DEF RewriteDlq, Replacing
  <2>3. \A i : Dead(i)' => Dead(i)
    BY <2>1, <2>2 DEF Dead
  <2>. QED BY <1>11, <2>1, <2>2, <2>3
<1>17. ASSUME NEW p \in Procs, ReplaceDlq(p) PROVE OnceInv'
  <2>1. /\ live' = live /\ lock' = lock /\ done' = done
        /\ stamp' = stamp /\ crashes' = crashes
        /\ dlqTmp' = {} /\ (dlq' = dlq \/ dlq' \in dlqTmp)
    BY <1>17 DEF ReplaceDlq
  <2>2. \A q \in Procs : task'[q] = task[q] \/
           (task[q].at = "replacing" /\ task'[q].at = "idle")
    BY <1>2, <1>17 DEF ReplaceDlq, Idle
  <2>3. \A i : Dead(i)' => Dead(i)
    BY <2>1, <2>2 DEF Dead
  <2>. QED BY <1>11, <2>1, <2>2, <2>3
<1>18. CASE UNCHANGED vars
  <2>1. \A i : Dead(i)' => Dead(i)
    BY <1>18, DeadSame DEF vars
  <2>. QED BY <1>11, <1>18, <2>1 DEF vars
<1>19. ASSUME NEW p \in Procs, AckArchive(p) PROVE OnceInv'
  <2>1. PICK f \in Files : f = task[p].file /\ CanLock(f)
    BY <1>2, <1>19, TaskType DEF AckArchive
  <2>2. PICK m \in live[f] :
          /\ done' = [done EXCEPT ![f] = @ \cup {EntryOf(m)}]
          /\ StartWrite(p, f, live[f] \ {m})
    BY <1>19, <2>1 DEF AckArchive
  <2>3. /\ live' = live /\ crashes' = crashes /\ stamp' = stamp
        /\ dlq' = dlq /\ dlqTmp' = dlqTmp /\ task[p].at = "found"
    BY <1>19 DEF AckArchive
  <2>4. \A g \in Files : done'[g] = IF g = f THEN done[f] \cup {EntryOf(m)} ELSE done[g]
    BY <1>1, <2>2 DEF TypeInv, TypeOK
  <2>5. \A i : Dead(i)' => Dead(i)
    BY <1>2, <2>2, <2>3, DeadSame DEF StartWrite, Writing
  <2>6. \A i : Archived(f, i)' => Archived(f, i) \/ i = m.id
    BY <1>3, <2>4 DEF Archived
  <2>7. ASSUME crashes = 0
        PROVE  /\ UniqueIds(live[f] \ {m}) /\ UniqueIds(done'[f])
               /\ \A n \in live[f] \ {m} : ~Archived(f, n.id)' /\ ~Dead(n.id)'
               /\ \A i : ~(Archived(f, i)' /\ Dead(i)')
    <3>1. /\ \A n \in live[f] : ~Archived(f, n.id) /\ ~Dead(n.id)
          /\ UniqueIds(live[f]) /\ UniqueIds(done[f])
          /\ \A i : ~(Archived(f, i) /\ Dead(i))
      BY <2>1, <2>7, UnlockedFile DEF OnceInv, Clean
    <3>2. UniqueIds(live[f] \ {m}) /\ \A n \in live[f] \ {m} : n.id # m.id
      BY <3>1 DEF UniqueIds
    <3>3. UniqueIds(done'[f])
      BY <1>3, <2>4, <3>1 DEF UniqueIds, Archived
    <3>. QED BY <2>5, <2>6, <3>1, <3>2, <3>3
  <2>. QED BY <1>1, <2>1, <2>2, <2>3, <2>4, <2>5, <2>6, <2>7, OnceBegins
<1>20. ASSUME NEW p \in Procs, NackDead(p) PROVE OnceInv'
  <2>1. PICK f \in Files : f = task[p].file /\ CanLock(f)
    BY <1>2, <1>20, TaskType DEF NackDead
  <2>2. PICK m \in live[f] :
          /\ dlq' = dlq \cup {EntryOf(m)}
          /\ StartWrite(p, f, live[f] \ {m})
    BY <1>20, <2>1 DEF NackDead
  <2>3. /\ live' = live /\ crashes' = crashes /\ stamp' = stamp
        /\ done' = done /\ dlqTmp' = dlqTmp /\ task[p].at = "found"
    BY <1>20 DEF NackDead
  <2>4. \A q \in Procs : task'[q] = task[q] \/ task'[q].at = "writing"
    BY <1>2, <2>2 DEF StartWrite, Writing
  <2>5. \A i : Dead(i)' => Dead(i) \/ i = m.id
    BY <1>3, <2>2, <2>3, <2>4 DEF Dead
  <2>6. \A i : Archived(f, i)' <=> Archived(f, i)
    BY <2>3 DEF Archived
  <2>7. ASSUME crashes = 0
        PROVE  /\ UniqueIds(live[f] \ {m}) /\ UniqueIds(done'[f])
               /\ \A n \in live[f] \ {m} : ~Archived(f, n.id)' /\ ~Dead(n.id)'
               /\ \A i : ~(Archived(f, i)' /\ Dead(i)')
    <3>1. /\ \A n \in live[f] : ~Archived(f, n.id) /\ ~Dead(n.id)
          /\ UniqueIds(live[f]) /\ UniqueIds(done[f])
          /\ \A i : ~(Archived(f, i) /\ Dead(i))
      BY <2>1, <2>7, UnlockedFile DEF OnceInv, Clean
    <3>2. UniqueIds(live[f] \ {m}) /\ \A n \in live[f] \ {m} : n.id # m.id
      BY <3>1 DEF UniqueIds
    <3>. QED BY <2>3, <2>5, <2>6, <3>1, <3>2
  <2>. QED BY <1>1, <2>1, <2>2, <2>3, <2>5, <2>6, <2>7, OnceBegins
<1>21. ASSUME NEW p \in Procs, NEW f \in Files, TtlSweep(p, f) PROVE OnceInv'
  <2>1. PICK expired : expired = {m \in Pending(f) : m.old}
    OBVIOUS
  <2>2. /\ CanLock(f) /\ StartWrite(p, f, Pending(f) \ expired)
        /\ dlq' = dlq \cup {EntryOf(m) : m \in expired}
        /\ live' = live /\ crashes' = crashes /\ stamp' = stamp
        /\ done' = done /\ dlqTmp' = dlqTmp /\ task[p] = Idle
    BY <1>21, <2>1 DEF TtlSweep
  <2>3. expired \subseteq live[f] /\ Pending(f) \subseteq live[f]
    BY <2>1 DEF Pending
  <2>4. \A q \in Procs : task'[q] = task[q] \/ task'[q].at = "writing"
    BY <1>2, <2>2 DEF StartWrite, Writing
  <2>5. \A i : Dead(i)' => Dead(i) \/ \E m \in expired : m.id = i
    BY <1>3, <2>2, <2>4 DEF Dead
  <2>6. \A i : Archived(f, i)' <=> Archived(f, i)
    BY <2>2 DEF Archived
  <2>7. ASSUME crashes = 0
        PROVE  /\ UniqueIds(Pending(f) \ expired) /\ UniqueIds(done'[f])
               /\ \A n \in Pending(f) \ expired : ~Archived(f, n.id)' /\ ~Dead(n.id)'
               /\ \A i : ~(Archived(f, i)' /\ Dead(i)')
    <3>1. /\ \A n \in live[f] : ~Archived(f, n.id) /\ ~Dead(n.id)
          /\ UniqueIds(live[f]) /\ UniqueIds(done[f])
          /\ \A i : ~(Archived(f, i) /\ Dead(i))
      BY <2>2, <2>7, UnlockedFile DEF OnceInv, Clean
    <3>2. /\ UniqueIds(Pending(f) \ expired)
          /\ \A n \in Pending(f) \ expired : \A m \in expired : n.id # m.id
      BY <2>3, <3>1 DEF UniqueIds
    <3>3. \A n \in Pending(f) \ expired : ~Archived(f, n.id)' /\ ~Dead(n.id)'
      BY <2>3, <2>5, <2>6, <3>1, <3>2
    <3>4. \A i : ~(Archived(f, i)' /\ Dead(i)')
      BY <2>3, <2>5, <2>6, <3>1
    <3>. QED BY <2>2, <3>1, <3>2, <3>3, <3>4
  <2>8. /\ \A i : Dead(i)' => Dead(i) \/ \E m \in live[f] : m.id = i
        /\ \A n \in Pending(f) \ expired : Archived(f, n.id) \/ \E m \in live[f] : n.id = m.id
        /\ task[p].at # "writing"
    BY <2>2, <2>3, <2>5 DEF Idle
  <2>. QED BY <1>1, <2>2, <2>6, <2>7, <2>8, OnceBegins
<1>22. ASSUME NEW p \in Procs, NEW f \in Files, RequeueDone(p, f) PROVE OnceInv'
  <2>1. PICK e \in done[f], d \in BOOLEAN, o \in Ageing :
          /\ done' = [done EXCEPT ![f] = @ \ {e}]
          /\ StartWrite(p, f, live[f] \cup {Requeued(e, stamp + 1, d, o)})
    BY <1>22 DEF RequeueDone
  <2>2. PICK r : r = Requeued(e, stamp + 1, d, o)
    OBVIOUS
  <2>3. r.id = e.id
    BY <2>2 DEF Requeued, NewMsg
  <2>4. /\ CanLock(f) /\ StartWrite(p, f, live[f] \cup {r})
        /\ live' = live /\ crashes' = crashes /\ stamp' = stamp + 1 /\ stamp < MaxStamp
        /\ dlq' = dlq /\ dlqTmp' = dlqTmp /\ task[p] = Idle
    BY <1>22, <2>1, <2>2 DEF RequeueDone
  <2>5. \A g \in Files : done'[g] = IF g = f THEN done[f] \ {e} ELSE done[g]
    BY <1>1, <2>1 DEF TypeInv, TypeOK
  <2>6. \A i : Dead(i)' => Dead(i)
    BY <1>2, <2>4, DeadSame DEF StartWrite, Writing
  <2>7. Archived(f, r.id) /\ \A i : Archived(f, i)' => Archived(f, i)
    BY <2>3, <2>5 DEF Archived
  <2>8. ASSUME crashes = 0
        PROVE  /\ UniqueIds(live[f] \cup {r}) /\ UniqueIds(done'[f])
               /\ \A n \in live[f] \cup {r} : ~Archived(f, n.id)' /\ ~Dead(n.id)'
               /\ \A i : ~(Archived(f, i)' /\ Dead(i)')
    <3>1. /\ \A n \in live[f] : ~Archived(f, n.id) /\ ~Dead(n.id)
          /\ UniqueIds(live[f]) /\ UniqueIds(done[f])
          /\ \A i : ~(Archived(f, i) /\ Dead(i))
      BY <2>4, <2>8, UnlockedFile DEF OnceInv, Clean
    <3>2. UniqueIds(live[f] \cup {r}) /\ UniqueIds(done'[f])
      BY <2>5, <2>7, <3>1 DEF UniqueIds
    <3>3. ~Archived(f, r.id)'
      BY <2>3, <2>5, <3>1 DEF Archived, UniqueIds
    <3>. QED BY <2>6, <2>7, <3>1, <3>2, <3>3
  <2>9. /\ \A n \in live[f] \cup {r} : Archived(f, n.id) \/ \E m \in live[f] : n.id = m.id
        /\ task[p].at # "writing" /\ stamp' =< MaxStamp
    BY <1>2, <2>4, <2>7, QueueAssumption DEF Idle
  <2>. QED BY <1>1, <2>4, <2>5, <2>6, <2>7, <2>8, <2>9, OnceBegins
<1>23. ASSUME NEW p \in Procs, Step(p) PROVE OnceInv'
  BY <1>1, <1>4, <1>5, <1>7, <1>8, <1>12, <1>13, <1>14, <1>15, <1>16, <1>17, <1>19, <1>20,
     <1>21, <1>22, <1>23, OnceWrites, OnceFails
  DEF Step, SettleStep
<1>24. ASSUME NEW f \in Files, Tick(f) PROVE OnceInv'
  BY <1>9, <1>10, <1>24 DEF Tick
<1>. QED BY <1>18, <1>23, <1>24 DEF Next

\* Nothing is settled twice in the initial files.
LEMMA OnceInit == ASSUME Init PROVE OnceInv
<1>1. /\ \A f \in Files : live[f] = {} /\ done[f] = {}
      /\ \A p \in Procs : task[p].at = "idle"
      /\ dlqTmp = {} /\ stamp = 0 /\ MaxStamp \in Nat
  BY QueueAssumption DEF Init, Idle
<1>2. \A f \in Files : \A i : ~Here(f, i) /\ ~Archived(f, i)
  BY <1>1 DEF Here, Archived, Writes
<1>3. \A i : Dead(i) => i \in Nat /\ i > MaxStamp
  <2>1. \A e \in dlq : e.id \in SeedJobs
    <3>1. PICK t \in Topics :
            dlq = {[id |-> j, job |-> j, topic |-> t, key |-> NoKey] : j \in SeedJobs}
      BY DEF Init
    <3>. QED BY <3>1
  <2>. QED BY <1>1, <2>1, QueueAssumption DEF Dead
<1>4. IdsPlaced
  BY <1>1, <1>2, <1>3 DEF IdsPlaced
<1>5. Clean
  BY <1>1, <1>2 DEF Clean, UniqueIds, Writes
<1>. QED BY <1>1, <1>4, <1>5, TypeInit DEF OnceInv, WriterLocks

\* The invariant says what it was made for.
LEMMA OnceSettles == ASSUME OnceInv PROVE SettledOnce
<1>. SUFFICES ASSUME crashes = 0, NEW f \in Files
              PROVE  /\ IdsOf(done[f]) \cap IdsOf(dlq) = {}
                     /\ \A m \in live[f] : m.id \in IdsOf(done[f]) \cup IdsOf(dlq) =>
                          \E p \in Procs :
                             /\ task[p].at = "writing"
                             /\ task[p].file = f
                             /\ m.id \notin IdsOf(task[p].msgs)
  BY DEF SettledOnce
<1>1. /\ \A i : i \in IdsOf(done[f]) => Archived(f, i)
      /\ \A i : i \in IdsOf(dlq) => Dead(i)
      /\ \A p \in Procs : \A i : i \in IdsOf(task[p].msgs) <=> \E n \in task[p].msgs : n.id = i
  BY DEF IdsOf, Archived, Dead
<1>. QED BY <1>1 DEF OnceInv, Clean, Writes

\* Without a crash or a failing write a message is settled once, whatever calls
\* the processes make and however they interleave.
THEOREM MessageSettledOnce == Spec => []SettledOnce
<1>. QED BY OnceInit, OnceNext, OnceSettles, PTL DEF Spec

-----------------------------------------------------------------------------
(* Replaying and purging dead letters, in a deployment that buries none      *)

Undertaker == Calls \subseteq {"gc", "replay", "purge"}

InDone(j) == \E f \in Files : \E e \in done[f] : e.job = j

\* A rewrite of the dead-letter file in progress does not forget job j.
Remembered(j) ==
    /\ \A p \in Procs : task[p].at = "replaying" =>
         \E e \in task[p].todo \cup task[p].keep : e.job = j
    /\ \A T \in dlqTmp : \E e \in T : e.job = j

KeptJob(j) == IsLive(j) \/ InDone(j) \/ (InDlq(j) /\ Remembered(j))

\* Every job is live, or archived, or in the dead-letter file and in whatever may
\* replace that file; what a writer leaves out is archived.
ReplayKept ==
    /\ \A p \in Procs : task[p].at = "found" => task[p].call = "ack"
    /\ \A p \in Procs : task[p].at = "writing" =>
         \A m \in live[task[p].file] : m \in task[p].msgs \/ InDone(m.job)
    /\ \A j \in accepted \ purged : KeptJob(j)

ReplayInv == TypeInv /\ WriterLocks /\ ReplayKept

\* Steps that start and end no write: a file may change if its jobs stay.
LEMMA ReplayQuiet ==
    ASSUME ReplayInv, TypeInv', lock' = lock, done' = done,
           \A p \in Procs : task'[p] = task[p] \/
              (task'[p].at # "writing" /\ (task'[p].at = "found" => task'[p].call = "ack")),
           \A g \in Files : live'[g] = live[g] \/
              (CanLock(g) /\ \A m \in live[g] : \E n \in live'[g] : n.job = m.job),
           \A j \in accepted' \ purged' : IsLive(j)' \/
              (j \in accepted \ purged /\ (InDlq(j) /\ Remembered(j) => InDlq(j)' /\ Remembered(j)'))
    PROVE  ReplayInv'
<1>1. /\ \A j : InDone(j)' <=> InDone(j)
      /\ \A j : IsLive(j) => IsLive(j)'
  BY DEF InDone, IsLive
<1>2. WriterLocks'
  BY DEF ReplayInv, WriterLocks
<1>3. \A p \in Procs : task[p].at = "writing" => live'[task[p].file] = live[task[p].file]
  <2>1. \A p \in Procs : task[p].at = "writing" =>
            task[p].file \in Files /\ ~CanLock(task[p].file)
    BY QueueAssumption, TaskType DEF ReplayInv, TypeInv, TypeOK, WriterLocks, CanLock
  <2>. QED BY <2>1
<1>4. \A j \in accepted' \ purged' : KeptJob(j)'
  BY <1>1 DEF ReplayInv, ReplayKept, KeptJob
<1>5. ReplayKept'
  BY <1>1, <1>3, <1>4 DEF ReplayInv, ReplayKept
<1>. QED BY <1>2, <1>5 DEF ReplayInv

\* Steps that do not touch the dead letters forget no job.
LEMMA RememberSame ==
    ASSUME dlq' = dlq, dlqTmp' = dlqTmp,
           \A p \in Procs : task'[p] = task[p] \/ task'[p].at # "replaying"
    PROVE  \A j : InDlq(j) /\ Remembered(j) => InDlq(j)' /\ Remembered(j)'
BY DEF InDlq, Remembered

\* A step that adds a message to an unlocked file.
LEMMA ReplayAppend ==
    ASSUME Undertaker, TypeInv, NEW f \in Files, NEW n, Append(f, n)
    PROVE  /\ dlq' = dlq /\ IsLive(n.job)'
           /\ \A g \in Files : live'[g] = live[g] \/
                (g = f /\ \A a \in live[g] : \E b \in live'[g] : b.job = a.job)
<1>1. live' = [live EXCEPT ![f] = @ \cup {n}] /\ dlq' = dlq
  BY DEF Append, Undertaker
<1>2. \A g \in Files : live'[g] = IF g = f THEN live[f] \cup {n} ELSE live[g]
  BY <1>1 DEF TypeInv, TypeOK
<1>. QED BY <1>1, <1>2 DEF IsLive

\* Every step keeps every job that purge_dlq() was not asked to delete.
LEMMA ReplayNext == ASSUME Undertaker, ReplayInv, [Next]_vars PROVE ReplayInv'
<1>. USE DEF files, history
<1>1. TypeInv /\ TypeInv'
  BY TypeNext DEF ReplayInv
<1>2. /\ task \in [Procs -> Task]
      /\ \A f \in Files : live[f] \subseteq Msg
  BY <1>1 DEF TypeInv, TypeOK
<1>3. ASSUME NEW p \in Procs, NEW t \in Topics, NEW k \in Keys \cup {NoKey}, Enqueue(p, t, k)
      PROVE  ReplayInv'
  <2>1. PICK i, n : i = stamp + 1 /\ n = NewMsg(i, i, t, k)
    OBVIOUS
  <2>2. n.job = i /\ FileOf[t] \in Files
    BY <2>1, FileOfType DEF NewMsg
  <2>3. /\ CanLock(FileOf[t]) /\ Append(FileOf[t], n) /\ accepted' = accepted \cup {i}
        /\ lock' = lock /\ done' = done /\ dlqTmp' = dlqTmp /\ task' = task /\ purged' = purged
    BY <1>3, <2>1 DEF Enqueue
  <2>4. /\ dlq' = dlq /\ IsLive(i)'
        /\ \A g \in Files : live'[g] = live[g] \/
             (CanLock(g) /\ \A a \in live[g] : \E b \in live'[g] : b.job = a.job)
    BY <1>1, <2>2, <2>3, ReplayAppend
  <2>5. \A j : InDlq(j) /\ Remembered(j) => InDlq(j)' /\ Remembered(j)'
    BY <2>3, <2>4, RememberSame
  <2>. QED BY <1>1, <2>3, <2>4, <2>5, ReplayQuiet
<1>4. ASSUME NEW p \in Procs, ReplayOne(p) PROVE ReplayInv'
  <2>1. PICK e \in task[p].todo :
          /\ CanLock(FileOf[e.topic])
          /\ Append(FileOf[e.topic], NewMsg(stamp + 1, e.job, e.topic, NoKey))
          /\ task' = [task EXCEPT ![p] = Replaying(@.todo \ {e}, @.keep)]
    BY <1>4 DEF ReplayOne
  <2>2. e \in Entry
    BY <1>2, <1>4, TaskType DEF ReplayOne
  <2>3. FileOf[e.topic] \in Files
    BY <2>2, FileOfType DEF Entry
  <2>4. PICK n : n = NewMsg(stamp + 1, e.job, e.topic, NoKey)
    OBVIOUS
  <2>5. n.job = e.job /\ Append(FileOf[e.topic], n)
    BY <2>1, <2>4 DEF NewMsg
  <2>6. /\ dlq' = dlq /\ IsLive(e.job)'
        /\ \A g \in Files : live'[g] = live[g] \/
             (CanLock(g) /\ \A a \in live[g] : \E b \in live'[g] : b.job = a.job)
    BY <1>1, <2>1, <2>3, <2>5, ReplayAppend
  <2>7. \A q \in Procs : task'[q] = task[q] \/
           (/\ task[q].at = "replaying" /\ task'[q].at = "replaying"
            /\ task'[q].todo = task[q].todo \ {e} /\ task'[q].keep = task[q].keep)
    BY <1>2, <1>4, <2>1 DEF ReplayOne, Replaying
  <2>8. /\ lock' = lock /\ done' = done /\ dlqTmp' = dlqTmp
        /\ accepted' = accepted /\ purged' = purged
    BY <1>4 DEF ReplayOne
  <2>9. \A j : j # e.job /\ InDlq(j) /\ Remembered(j) => InDlq(j)' /\ Remembered(j)'
    <3>1. \A j : InDlq(j) => InDlq(j)'
      BY <2>6 DEF InDlq
    <3>2. \A j : j # e.job /\ Remembered(j) => Remembered(j)'
      BY <2>7, <2>8 DEF Remembered
    <3>. QED BY <3>1, <3>2
  <2>. QED BY <1>1, <2>6, <2>7, <2>8, <2>9, ReplayQuiet
<1>5. ASSUME lock' = lock, done' = done, dlq' = dlq, dlqTmp' = dlqTmp,
             accepted' = accepted, purged' = purged,
             \A p \in Procs : task'[p] = task[p] \/ task'[p].at = "idle" \/
                (task'[p].at = "found" /\ task'[p].call = "ack"),
             \A g \in Files : live'[g] = live[g] \/
                (CanLock(g) /\ \A a \in live[g] : \E b \in live'[g] : b.job = a.job)
      PROVE  ReplayInv'
  <2>1. \A j : InDlq(j) /\ Remembered(j) => InDlq(j)' /\ Remembered(j)'
    BY <1>5, RememberSame
  <2>. QED BY <1>1, <1>5, <2>1, ReplayQuiet
<1>6. ASSUME NEW p \in Procs, NEW f \in Files, Consume(p, f) PROVE ReplayInv'
  <2>1. PICK m \in live[f] : live' = [live EXCEPT ![f] = (@ \ {m}) \cup {Leased(m, p)}]
    BY <1>6 DEF Consume
  <2>2. Leased(m, p).job = m.job
    BY <1>2 DEF Leased, Msg
  <2>3. \A g \in Files : live'[g] = IF g = f THEN (live[f] \ {m}) \cup {Leased(m, p)} ELSE live[g]
    BY <1>1, <2>1 DEF TypeInv, TypeOK
  <2>4. \A a \in live[f] : \E b \in live'[f] : b.job = a.job
    BY <2>2, <2>3
  <2>. QED BY <1>5, <1>6, <2>3, <2>4 DEF Consume
<1>7. ASSUME NEW p \in Procs, NEW call \in {"ack", "nack", "fatal"}, Find(p, call)
      PROVE  ReplayInv'
  <2>1. call = "ack"
    BY <1>7 DEF Find, Undertaker
  <2>2. \A q \in Procs : task'[q] = task[q] \/ (task'[q].at = "found" /\ task'[q].call = "ack")
    BY <1>2, <1>7, <2>1 DEF Find, Found
  <2>. QED BY <1>5, <1>7, <2>2 DEF Find
<1>8. ASSUME NEW p \in Procs, FindMissing(p) PROVE ReplayInv'
  BY <1>5, <1>8 DEF FindMissing
<1>9. ASSUME NEW p \in Procs, FoundMoved(p) \/ ReplayFull(p) PROVE ReplayInv'
  <2>1. \A q \in Procs : task'[q] = task[q] \/ task'[q].at = "idle"
    BY <1>2, <1>9 DEF FoundMoved, ReplayFull, Idle
  <2>. QED BY <1>5, <1>9, <2>1 DEF FoundMoved, ReplayFull
<1>10. ASSUME NEW f \in Files, GcStale(f) PROVE ReplayInv'
  <2>1. \A g \in Files : live'[g] = live[g] \/ g = f
    BY <1>1, <1>10, CollectedMessages
  <2>2. live'[f] = (live[f] \ Stale(f)) \cup {Recovered(m) : m \in Stale(f)}
    BY <1>1, <1>10 DEF GcStale, TypeInv, TypeOK
  <2>3. \A a \in live[f] : \E b \in live'[f] : b.job = a.job
    BY <1>1, <2>2, RecoveredFields
  <2>. QED BY <1>5, <1>10, <2>1, <2>3 DEF GcStale
<1>11. ASSUME NEW f \in Files, LeaseAges(f) \/ BackoffElapses(f) \/ MessageAges(f)
       PROVE  ReplayInv'
  <2>. DEFINE Same(m, n) == n.id = m.id /\ n.pos = m.pos /\ n.job = m.job
  <2>1. \A m \in live[f] : /\ Same(m, [m EXCEPT !.lease = "stale"])
                           /\ Same(m, [m EXCEPT !.due = TRUE])
                           /\ \A o : Same(m, [m EXCEPT !.old = @ \/ o])
    BY <1>2 DEF Msg
  <2>2. PICK m, n : m \in live[f] /\ Same(m, n) /\ Ages(f, m, n)
    <3>. HIDE DEF Same
    <3>. QED BY <1>11, <2>1 DEF LeaseAges, BackoffElapses, MessageAges, Pending
  <2>3. Becomes(f, m, n)
    BY <2>2 DEF Ages, Becomes
  <2>4. \A g \in Files : live'[g] = IF g = f THEN (live[f] \ {m}) \cup {n} ELSE live[g]
    BY <1>1, <2>3, BecomesLive
  <2>5. \A a \in live[f] : \E b \in live'[f] : b.job = a.job
    BY <2>2, <2>4
  <2>. QED BY <1>5, <2>2, <2>4, <2>5 DEF Ages
<1>12. CASE UNCHANGED vars
  BY <1>5, <1>12 DEF vars
<1>. DEFINE Listed(todo, keep) ==
       \A j \in accepted \ purged' : InDlq(j) => \E e \in todo \cup keep : e.job = j
<1>. HIDE DEF Listed
<1>13. ASSUME NEW p \in Procs, NEW todo, NEW keep, Listed(todo, keep),
              task' = [task EXCEPT ![p] = Replaying(todo, keep)],
              purged \subseteq purged', accepted' = accepted,
              live' = live, lock' = lock, done' = done, dlq' = dlq, dlqTmp' = dlqTmp
       PROVE  ReplayInv'
  <2>1. \A q \in Procs : task'[q] = IF q = p THEN Replaying(todo, keep) ELSE task[q]
    BY <1>2, <1>13
  <2>2. \A j \in accepted \ purged' : InDlq(j) /\ Remembered(j) => InDlq(j)' /\ Remembered(j)'
    <3>. SUFFICES ASSUME NEW j \in accepted \ purged', InDlq(j), Remembered(j)
                  PROVE  InDlq(j)' /\ Remembered(j)'
      OBVIOUS
    <3>1. InDlq(j)'
      BY <1>13 DEF InDlq
    <3>2. Remembered(j)'
      BY <1>13, <2>1 DEF Remembered, Replaying, Listed
    <3>. QED BY <3>1, <3>2
  <2>3. \A q \in Procs : task'[q] = task[q] \/ task'[q].at = "replaying"
    BY <2>1 DEF Replaying
  <2>. QED BY <1>1, <1>13, <2>2, <2>3, ReplayQuiet
<1>14. ASSUME NEW p \in Procs, ReadForReplay(p) PROVE ReplayInv'
  <2>1. PICK sel \in Selections : task' = [task EXCEPT ![p] = Replaying(sel, dlq \ sel)]
    BY <1>14 DEF ReadForReplay
  <2>2. Listed(sel, dlq \ sel)
    BY DEF InDlq, Listed
  <2>3. /\ purged \subseteq purged' /\ accepted' = accepted
        /\ live' = live /\ lock' = lock /\ done' = done /\ dlq' = dlq /\ dlqTmp' = dlqTmp
    BY <1>14 DEF ReadForReplay
  <2>. QED BY <1>13, <2>1, <2>2, <2>3
<1>15. ASSUME NEW p \in Procs, ReadForPurge(p) PROVE ReplayInv'
  <2>1. PICK sel : /\ task' = [task EXCEPT ![p] = Replaying({}, dlq \ sel)]
                   /\ purged' = purged \cup JobsOf(sel)
    BY <1>15 DEF ReadForPurge
  <2>2. Listed({}, dlq \ sel)
    BY <2>1 DEF InDlq, JobsOf, Listed
  <2>3. /\ purged \subseteq purged' /\ accepted' = accepted
        /\ live' = live /\ lock' = lock /\ done' = done /\ dlq' = dlq /\ dlqTmp' = dlqTmp
    BY <1>15 DEF ReadForPurge
  <2>. QED BY <1>13, <2>1, <2>2, <2>3
<1>16. ASSUME NEW p \in Procs, RewriteDlq(p) PROVE ReplayInv'
  <2>1. \A q \in Procs : task'[q] = task[q] \/ task'[q].at = "replacing"
    BY <1>2, <1>16 DEF RewriteDlq, Replacing
  <2>2. \A j : InDlq(j) /\ Remembered(j) => InDlq(j)' /\ Remembered(j)'
    <3>1. \A j : InDlq(j) => InDlq(j)'
      BY <1>16 DEF RewriteDlq, InDlq
    <3>2. \A j : Remembered(j) => Remembered(j)'
      BY <1>16, <2>1 DEF RewriteDlq, Remembered
    <3>. QED BY <3>1, <3>2
  <2>. QED BY <1>1, <1>16, <2>1, <2>2, ReplayQuiet DEF RewriteDlq
<1>17. ASSUME NEW p \in Procs, ReplaceDlq(p) PROVE ReplayInv'
  <2>1. \A q \in Procs : task'[q] = task[q] \/ task'[q].at = "idle"
    BY <1>2, <1>17 DEF ReplaceDlq, Idle
  <2>2. /\ live' = live /\ lock' = lock /\ done' = done /\ dlqTmp' = {}
        /\ dlq' = dlq \/ dlq' \in dlqTmp
        /\ accepted' = accepted /\ purged' = purged
    BY <1>17 DEF ReplaceDlq
  <2>3. \A j : InDlq(j) /\ Remembered(j) => InDlq(j)' /\ Remembered(j)'
    <3>1. \A j : InDlq(j) /\ Remembered(j) => InDlq(j)'
      BY <2>2 DEF InDlq, Remembered
    <3>2. \A j : Remembered(j) => Remembered(j)'
      BY <2>1, <2>2 DEF Remembered
    <3>. QED BY <3>1, <3>2
  <2>. QED BY <1>1, <2>1, <2>2, <2>3, ReplayQuiet
<1>18. ASSUME NEW p \in Procs, AckArchive(p) PROVE ReplayInv'
  <2>1. PICK f \in Files : f = task[p].file /\ CanLock(f)
    BY <1>2, <1>18, TaskType DEF AckArchive
  <2>2. PICK m \in live[f] :
          /\ done' = [done EXCEPT ![f] = @ \cup {EntryOf(m)}]
          /\ StartWrite(p, f, live[f] \ {m})
    BY <1>18, <2>1 DEF AckArchive
  <2>3. /\ \A q \in Procs : task'[q] = IF q = p THEN Writing(f, live[f] \ {m}) ELSE task[q]
        /\ \A g \in Files : lock'[g] = IF g = f THEN p ELSE lock[g]
        /\ \A g \in Files : done'[g] = IF g = f THEN done[f] \cup {EntryOf(m)} ELSE done[g]
    BY <1>1, <2>2 DEF StartWrite, TypeInv, TypeOK
  <2>4. /\ live' = live /\ dlq' = dlq /\ dlqTmp' = dlqTmp
        /\ accepted' = accepted /\ purged' = purged
    BY <1>18 DEF AckArchive
  <2>5. \A q \in Procs : task[q].at = "writing" => task[q].file \in Files \ {f}
    BY <1>2, <2>1, QueueAssumption, TaskType DEF ReplayInv, WriterLocks, CanLock
  <2>6. WriterLocks'
    BY <2>3, <2>5 DEF ReplayInv, WriterLocks, Writing
  <2>7. (\A j : InDone(j) => InDone(j)') /\ InDone(m.job)'
    <3>1. EntryOf(m).job = m.job
      BY DEF EntryOf
    <3>. QED BY <2>3, <3>1 DEF InDone
  <2>8. \A q \in Procs : task'[q].at = "writing" =>
           \A n \in live'[task'[q].file] : n \in task'[q].msgs \/ InDone(n.job)'
    BY <2>3, <2>4, <2>7 DEF ReplayInv, ReplayKept, Writing
  <2>9. \A j : InDlq(j) /\ Remembered(j) => InDlq(j)' /\ Remembered(j)'
    BY <2>3, <2>4, RememberSame DEF Writing
  <2>10. \A j \in accepted' \ purged' : KeptJob(j)'
    BY <2>4, <2>7, <2>9 DEF ReplayInv, ReplayKept, KeptJob, IsLive
  <2>11. \A q \in Procs : task'[q].at = "found" => task'[q].call = "ack"
    BY <2>3 DEF ReplayInv, ReplayKept, Writing
  <2>. QED BY <1>1, <2>6, <2>8, <2>10, <2>11 DEF ReplayInv, ReplayKept
<1>19. ASSUME NEW p \in Procs, WriteTopic(p) \/ Crash(p) PROVE ReplayInv'
  <2>1. /\ \A q \in Procs : task'[q] = IF q = p THEN Idle ELSE task[q]
        /\ done' = done /\ dlq' = dlq /\ dlqTmp' = dlqTmp
        /\ accepted' = accepted /\ purged' = purged
    BY <1>2, <1>19 DEF WriteTopic, Crash
  <2>2. \A q \in Procs : task[q].at = "writing" => task[q].file \in Files /\ lock[task[q].file] = q
    BY <1>2, TaskType DEF ReplayInv, WriterLocks
  <2>3. \A g \in Files :
          /\ lock'[g] = lock[g] \/ lock[g] = p
          /\ live'[g] = live[g] \/
               (lock[g] = p /\ \A m \in live[g] : m \in live'[g] \/ InDone(m.job))
    <3>1. CASE WriteTopic(p)
      BY <1>1, <2>2, <3>1 DEF WriteTopic, ReplayInv, ReplayKept, TypeInv, TypeOK
    <3>2. CASE Crash(p)
      BY <3>2 DEF Crash
    <3>. QED BY <1>19, <3>1, <3>2
  <2>4. WriterLocks'
    BY <2>1, <2>2, <2>3 DEF ReplayInv, WriterLocks, Idle
  <2>5. \A j : InDone(j)' <=> InDone(j)
    BY <2>1 DEF InDone
  <2>6. \A q \in Procs : task'[q].at = "writing" =>
           \A n \in live'[task'[q].file] : n \in task'[q].msgs \/ InDone(n.job)'
    BY <2>1, <2>2, <2>3, <2>5 DEF ReplayInv, ReplayKept, Idle
  <2>7. \A j : InDlq(j) /\ Remembered(j) => InDlq(j)' /\ Remembered(j)'
    BY <2>1, RememberSame DEF Idle
  <2>8. \A j : IsLive(j) => IsLive(j)' \/ InDone(j)
    BY <2>3 DEF IsLive
  <2>9. \A j \in accepted' \ purged' : KeptJob(j)'
    BY <2>1, <2>5, <2>7, <2>8 DEF ReplayInv, ReplayKept, KeptJob
  <2>10. \A q \in Procs : task'[q].at = "found" => task'[q].call = "ack"
    BY <2>1 DEF ReplayInv, ReplayKept, Idle
  <2>. QED BY <1>1, <2>4, <2>6, <2>9, <2>10 DEF ReplayInv, ReplayKept
<1>20. ASSUME NEW p \in Procs
       PROVE  /\ ~NackRetry(p) /\ ~NackDead(p) /\ ~WriteFails(p)
              /\ \A f \in Files : ~TtlSweep(p, f) /\ ~RequeueDone(p, f)
  BY DEF Undertaker, ReplayInv, ReplayKept, NackRetry, NackDead, WriteFails, TtlSweep,
         RequeueDone
<1>21. ASSUME NEW p \in Procs, Step(p) PROVE ReplayInv'
  BY <1>3, <1>4, <1>6, <1>7, <1>8, <1>9, <1>14, <1>15, <1>16, <1>17, <1>18, <1>19, <1>20, <1>21
  DEF Step, SettleStep
<1>22. ASSUME NEW f \in Files, Tick(f) PROVE ReplayInv'
  BY <1>10, <1>11, <1>22 DEF Tick
<1>. QED BY <1>12, <1>21, <1>22 DEF Next

\* Replays and purges that read and rewrite the dead-letter file without a lock,
\* any number at a time, and crash anywhere, lose no job except those purge_dlq()
\* was asked to delete - as long as nothing is added to the file meanwhile.
THEOREM ReplayLosesNothing == ASSUME Undertaker PROVE Spec => []NoLoss
<1>1. Init => ReplayInv
  <2>. SUFFICES ASSUME Init PROVE ReplayInv
    OBVIOUS
  <2>1. \A j \in accepted : InDlq(j)
    <3>1. PICK t \in Topics :
            dlq = {[id |-> j, job |-> j, topic |-> t, key |-> NoKey] : j \in SeedJobs}
      BY DEF Init
    <3>2. \A j \in SeedJobs : [id |-> j, job |-> j, topic |-> t, key |-> NoKey] \in dlq
      BY <3>1
    <3>. QED BY <3>2 DEF Init, InDlq
  <2>2. \A j : Remembered(j)
    BY DEF Init, Remembered, Idle
  <2>3. ReplayKept
    BY <2>1, <2>2 DEF Init, ReplayKept, KeptJob, Idle
  <2>. QED BY <2>3, TypeInit DEF Init, ReplayInv, WriterLocks, Idle
<1>2. ReplayInv /\ [Next]_vars => ReplayInv'
  BY ReplayNext
<1>3. ReplayInv => NoLoss
  <2>1. \A j : IsLive(j) => j \in AvailableJobs
    <3>1. \A j : IsLive(j) => \E f \in Files : j \in JobsOf(live[f])
      BY DEF IsLive, JobsOf
    <3>. QED BY <3>1 DEF AvailableJobs
  <2>2. \A j : InDlq(j) => j \in SettledJobs
    BY DEF InDlq, SettledJobs, JobsOf
  <2>3. \A j : InDone(j) => j \in SettledJobs
    <3>1. \A j : InDone(j) => \E f \in Files : j \in JobsOf(done[f])
      BY DEF InDone, JobsOf
    <3>. QED BY <3>1 DEF SettledJobs
  <2>. QED BY <2>1, <2>2, <2>3 DEF ReplayInv, ReplayKept, KeptJob, NoLoss
<1>. QED BY <1>1, <1>2, <1>3, PTL DEF Spec

=============================================================================
