------------------------ MODULE MessageQueue_proofs ------------------------
(***************************************************************************)
(* Theorems about MessageQueue, for any number of processes, topics,       *)
(* messages, retries and crashes.                                          *)
(***************************************************************************)
EXTENDS MessageQueue, FiniteSetTheorems, TLAPS

\* The live files, and what is about to replace one of them, are finite: a list
\* index is a number.
Finite ==
    /\ \A f \in Files : IsFiniteSet(live[f])
    /\ \A p \in Procs : task[p].at = "writing" => IsFiniteSet(task[p].msgs)

TypeInv == TypeOK /\ Finite

\* A call in progress, by its kind.
LEMMA TaskType ==
    ASSUME NEW T \in Task
    PROVE  /\ T.at \in {"idle", "found", "writing", "replaying", "replacing"}
           /\ T.at = "found" => T.file \in Files /\ T.idx \in Nat
                                /\ T.call \in {"ack", "nack", "fatal"}
           /\ T.at = "writing" => T.file \in Files /\ T.msgs \in SUBSET Msg
           /\ T.at = "replaying" => T.todo \in SUBSET Entry /\ T.keep \in SUBSET Entry
BY DEF Task, Idle, Replacing

\* The task constructors build tasks.
LEMMA TaskMake ==
    /\ Idle \in Task
    /\ Replacing \in Task
    /\ \A c \in {"ack", "nack", "fatal"}, f \in Files, i \in Nat : Found(c, f, i) \in Task
    /\ \A f \in Files, ms \in SUBSET Msg : Writing(f, ms) \in Task
    /\ \A s, k \in SUBSET Entry : Replaying(s, k) \in Task
BY DEF Task, Idle, Replacing, Found, Writing, Replaying

\* _sanitize_topic maps every topic to the name of a file.
LEMMA FileOfType == \A t \in Topics : FileOf[t] \in Files
BY QueueAssumption

\* The record constructors build messages and entries.
LEMMA MsgMake ==
    /\ \A i, j \in Nat, t \in Topics, k \in Keys \cup {NoKey} : NewMsg(i, j, t, k) \in Msg
    /\ \A m \in Msg : EntryOf(m) \in Entry
    /\ \A m \in Msg, p \in Procs : Leased(m, p) \in Msg
    /\ \A m \in Msg, d \in BOOLEAN : Rescheduled(m, d) \in Msg
    /\ \A m \in Msg : Recovered(m) \in Msg
<1>1. \A i, j \in Nat, t \in Topics, k \in Keys \cup {NoKey} : NewMsg(i, j, t, k) \in Msg
  BY DEF NewMsg, Msg
<1>2. \A m \in Msg : EntryOf(m) \in Entry
  BY DEF EntryOf, Entry, Msg
<1>3. \A m \in Msg, p \in Procs : Leased(m, p) \in Msg
  BY DEF Leased, Msg
<1>4. \A m \in Msg, d \in BOOLEAN : Rescheduled(m, d) \in Msg
  <2>1. \A m \in Msg : m.retries + 1 \in Nat
    BY DEF Msg
  <2>. QED BY <2>1, Zenon DEF Rescheduled, Msg
<1>5. \A m \in Msg : Recovered(m) \in Msg
  <2>1. \A m \in Msg : m.retries + 1 \in Nat
    BY DEF Msg
  <2>. QED BY <2>1, Zenon DEF Recovered, Msg
<1>. QED BY <1>1, <1>2, <1>3, <1>4, <1>5

\* An index is a natural number.
LEMMA IndexNat ==
    ASSUME TypeInv, NEW f \in Files, NEW m
    PROVE  IndexOf(f, m) \in Nat
<1>1. IsFiniteSet({n \in live[f] : n.pos < m.pos})
  BY FS_Subset DEF TypeInv, Finite
<1>. QED BY <1>1, FS_CardinalityType DEF IndexOf

-----------------------------------------------------------------------------
(* Type correctness                                                         *)

\* The type invariant holds initially.
LEMMA TypeInit == ASSUME Init PROVE TypeInv
<1>1. live \in [Files -> SUBSET Msg] /\ done \in [Files -> SUBSET Entry]
  BY DEF Init
<1>2. dlq \in SUBSET Entry
  BY QueueAssumption DEF Init, Entry
<1>3. lock \in [Files -> Procs \cup {NoProc}] /\ task \in [Procs -> Task]
      /\ held \in [Procs -> Nat]
  BY TaskMake DEF Init
<1>4. accepted \in SUBSET Nat
  BY QueueAssumption DEF Init
<1>5. TypeOK
  BY <1>1, <1>2, <1>3, <1>4 DEF Init, TypeOK
<1>6. Finite
  BY FS_EmptySet DEF Init, Finite, Idle
<1>. QED BY <1>5, <1>6 DEF TypeInv

\* Replacing one live file by a finite set of messages keeps the types.
LEMMA LiveUpdate ==
    ASSUME TypeInv, NEW f \in Files, NEW S \in SUBSET Msg, IsFiniteSet(S),
           live' = [live EXCEPT ![f] = S]
    PROVE  /\ live' \in [Files -> SUBSET Msg]
           /\ \A g \in Files : IsFiniteSet(live'[g])
BY DEF TypeInv, TypeOK, Finite

\* Exchanging one message for another, adding one and removing one do, too.
LEMMA Exchange ==
    ASSUME TypeInv, NEW f \in Files, NEW m, NEW n \in Msg
    PROVE  /\ (live[f] \ {m}) \cup {n} \in SUBSET Msg
           /\ IsFiniteSet((live[f] \ {m}) \cup {n})
BY FS_AddElement, FS_RemoveElement DEF TypeInv, TypeOK, Finite

\* One more message.
LEMMA Adding ==
    ASSUME TypeInv, NEW f \in Files, NEW n \in Msg
    PROVE  live[f] \cup {n} \in SUBSET Msg /\ IsFiniteSet(live[f] \cup {n})
BY FS_AddElement DEF TypeInv, TypeOK, Finite

\* One message fewer.
LEMMA Removing ==
    ASSUME TypeInv, NEW f \in Files, NEW m
    PROVE  live[f] \ {m} \in SUBSET Msg /\ IsFiniteSet(live[f] \ {m})
BY FS_RemoveElement DEF TypeInv, TypeOK, Finite

\* A step that changes no task keeps the finiteness of what is being written.
LEMMA SameTasks ==
    ASSUME TypeInv, task' = task, \A g \in Files : IsFiniteSet(live'[g])
    PROVE  Finite'
BY DEF TypeInv, Finite

\* A task that is not a write keeps it as well.
LEMMA NotWriting ==
    ASSUME TypeInv, NEW p \in Procs, NEW T \in Task, T.at # "writing",
           task' = [task EXCEPT ![p] = T], \A g \in Files : IsFiniteSet(live'[g])
    PROVE  /\ task' \in [Procs -> Task]
           /\ Finite'
BY DEF TypeInv, TypeOK, Finite

\* Starting to write a finite set of messages keeps the types.
LEMMA WriteType ==
    ASSUME TypeInv, NEW p \in Procs, NEW f \in Files, NEW S \in SUBSET Msg,
           IsFiniteSet(S), StartWrite(p, f, S), live' = live
    PROVE  /\ task' \in [Procs -> Task]
           /\ lock' \in [Files -> Procs \cup {NoProc}]
           /\ Finite'
<1>1. Writing(f, S) \in Task /\ Writing(f, S).msgs = S
  BY TaskMake DEF Writing
<1>2. task' = [task EXCEPT ![p] = Writing(f, S)]
  BY DEF StartWrite
<1>3. task' \in [Procs -> Task] /\ lock' \in [Files -> Procs \cup {NoProc}]
  BY <1>1 DEF StartWrite, TypeInv, TypeOK
<1>4. \A q \in Procs : task'[q] = IF q = p THEN Writing(f, S) ELSE task[q]
  BY <1>2 DEF TypeInv, TypeOK
<1>5. Finite'
  BY <1>1, <1>4 DEF TypeInv, Finite
<1>. QED BY <1>3, <1>5

\* A successful append keeps the types.
LEMMA AppendType ==
    ASSUME TypeInv, NEW f \in Files, NEW m \in Msg, Append(f, m)
    PROVE  /\ live' \in [Files -> SUBSET Msg]
           /\ \A g \in Files : IsFiniteSet(live'[g])
           /\ dlq' \in SUBSET Entry
           /\ stamp' \in Nat
<1>1. stamp' \in Nat
  BY DEF Append, TypeInv, TypeOK
<1>2. CASE live' = [live EXCEPT ![f] = @ \cup {m}] /\ dlq' = dlq
  BY <1>1, <1>2, Adding, LiveUpdate DEF TypeInv, TypeOK
<1>3. CASE dlq' = dlq \cup {EntryOf(m)} /\ live' = live
  BY <1>1, <1>3, MsgMake DEF TypeInv, TypeOK, Finite
<1>. QED BY <1>2, <1>3 DEF Append

\* Every step of every call keeps the type invariant.
LEMMA TypeNext == ASSUME TypeInv, [Next]_vars PROVE TypeInv'
<1>. USE DEF files, history
<1>1. ASSUME NEW p \in Procs, NEW t \in Topics, NEW k \in Keys \cup {NoKey}, Enqueue(p, t, k)
      PROVE  TypeInv'
  <2>1. FileOf[t] \in Files /\ NewMsg(stamp + 1, stamp + 1, t, k) \in Msg /\ stamp + 1 \in Nat
    BY FileOfType, MsgMake DEF TypeInv, TypeOK
  <2>2. Append(FileOf[t], NewMsg(stamp + 1, stamp + 1, t, k))
    BY <1>1 DEF Enqueue
  <2>3. /\ live' \in [Files -> SUBSET Msg] /\ dlq' \in SUBSET Entry /\ stamp' \in Nat
        /\ \A g \in Files : IsFiniteSet(live'[g])
    BY <2>1, <2>2, AppendType
  <2>4. Finite'
    BY <1>1, <2>3, SameTasks DEF Enqueue
  <2>5. TypeOK'
    BY <1>1, <2>1, <2>3 DEF Enqueue, TypeInv, TypeOK
  <2>. QED BY <2>4, <2>5 DEF TypeInv
<1>2. ASSUME NEW p \in Procs, NEW f \in Files, Consume(p, f)
      PROVE  TypeInv'
  <2>1. PICK m \in live[f] :
           /\ live' = [live EXCEPT ![f] = (@ \ {m}) \cup {Leased(m, p)}]
           /\ held' = [held EXCEPT ![p] = m.id]
           /\ delivered' = delivered \cup {m.job}
    BY <1>2 DEF Consume
  <2>2. m \in Msg /\ m.id \in Nat /\ m.job \in Nat /\ Leased(m, p) \in Msg
    BY MsgMake DEF TypeInv, TypeOK, Msg
  <2>3. live' \in [Files -> SUBSET Msg] /\ \A g \in Files : IsFiniteSet(live'[g])
    BY <2>1, <2>2, Exchange, LiveUpdate
  <2>4. Finite'
    BY <1>2, <2>3, SameTasks DEF Consume
  <2>5. TypeOK'
    BY <1>2, <2>1, <2>2, <2>3 DEF Consume, TypeInv, TypeOK
  <2>. QED BY <2>4, <2>5 DEF TypeInv
<1>3. ASSUME NEW p \in Procs, NEW call \in {"ack", "nack", "fatal"}, Find(p, call)
      PROVE  TypeInv'
  <2>1. PICK f \in Files : \E m \in live[f] :
           task' = [task EXCEPT ![p] = Found(call, f, IndexOf(f, m))]
    BY <1>3 DEF Find
  <2>2. \A m : /\ Found(call, f, IndexOf(f, m)) \in Task
               /\ Found(call, f, IndexOf(f, m)).at # "writing"
    BY IndexNat, TaskMake DEF Found
  <2>3. live' = live /\ \A g \in Files : IsFiniteSet(live'[g])
    BY <1>3 DEF Find, TypeInv, Finite
  <2>4. task' \in [Procs -> Task] /\ Finite'
    BY <2>1, <2>2, <2>3, NotWriting
  <2>5. TypeOK'
    BY <1>3, <2>4 DEF Find, TypeInv, TypeOK
  <2>. QED BY <2>4, <2>5 DEF TypeInv
<1>4. ASSUME NEW p \in Procs, FindMissing(p) PROVE TypeInv'
  BY <1>4 DEF FindMissing, TypeInv, TypeOK, Finite
<1>5. ASSUME NEW p \in Procs, FoundMoved(p) PROVE TypeInv'
  <2>1. Idle \in Task /\ Idle.at # "writing" /\ \A g \in Files : IsFiniteSet(live'[g])
    BY <1>5, TaskMake DEF FoundMoved, Idle, TypeInv, Finite
  <2>2. task' \in [Procs -> Task] /\ Finite'
    BY <1>5, <2>1, NotWriting DEF FoundMoved
  <2>. QED BY <1>5, <2>2 DEF FoundMoved, TypeInv, TypeOK
<1>6. ASSUME NEW p \in Procs, AckArchive(p) PROVE TypeInv'
  <2>1. task[p].file \in Files
    BY <1>6, TaskType DEF AckArchive, TypeInv, TypeOK
  <2>2. PICK m \in live[task[p].file] :
           /\ done' = [done EXCEPT ![task[p].file] = @ \cup {EntryOf(m)}]
           /\ StartWrite(p, task[p].file, live[task[p].file] \ {m})
    BY <1>6 DEF AckArchive
  <2>3. m \in Msg /\ EntryOf(m) \in Entry
    BY <2>1, MsgMake DEF TypeInv, TypeOK
  <2>4. /\ live[task[p].file] \ {m} \in SUBSET Msg
        /\ IsFiniteSet(live[task[p].file] \ {m})
    BY <2>1, <2>3, Removing
  <2>5. task' \in [Procs -> Task] /\ lock' \in [Files -> Procs \cup {NoProc}] /\ Finite'
    BY <1>6, <2>1, <2>2, <2>4, WriteType DEF AckArchive
  <2>. QED BY <1>6, <2>1, <2>2, <2>3, <2>5 DEF AckArchive, TypeInv, TypeOK
<1>7. ASSUME NEW p \in Procs, NackRetry(p) PROVE TypeInv'
  <2>1. task[p].file \in Files
    BY <1>7, TaskType DEF NackRetry, TypeInv, TypeOK
  <2>2. PICK m \in live[task[p].file], d \in BOOLEAN :
           live' = [live EXCEPT ![task[p].file] = (@ \ {m}) \cup {Rescheduled(m, d)}]
    BY <1>7 DEF NackRetry
  <2>3. m \in Msg /\ Rescheduled(m, d) \in Msg
    BY <2>1, MsgMake DEF TypeInv, TypeOK
  <2>4. live' \in [Files -> SUBSET Msg] /\ \A g \in Files : IsFiniteSet(live'[g])
    BY <2>1, <2>2, <2>3, Exchange, LiveUpdate
  <2>5. Idle \in Task /\ Idle.at # "writing"
    BY TaskMake DEF Idle
  <2>6. task' \in [Procs -> Task] /\ Finite'
    BY <1>7, <2>4, <2>5, NotWriting DEF NackRetry
  <2>. QED BY <1>7, <2>4, <2>6 DEF NackRetry, TypeInv, TypeOK
<1>8. ASSUME NEW p \in Procs, NackDead(p) PROVE TypeInv'
  <2>1. task[p].file \in Files
    BY <1>8, TaskType DEF NackDead, TypeInv, TypeOK
  <2>2. PICK m \in live[task[p].file] :
           /\ dlq' = dlq \cup {EntryOf(m)}
           /\ StartWrite(p, task[p].file, live[task[p].file] \ {m})
    BY <1>8 DEF NackDead
  <2>3. m \in Msg /\ EntryOf(m) \in Entry
    BY <2>1, MsgMake DEF TypeInv, TypeOK
  <2>4. /\ live[task[p].file] \ {m} \in SUBSET Msg
        /\ IsFiniteSet(live[task[p].file] \ {m})
    BY <2>1, <2>3, Removing
  <2>5. task' \in [Procs -> Task] /\ lock' \in [Files -> Procs \cup {NoProc}] /\ Finite'
    BY <1>8, <2>1, <2>2, <2>4, WriteType DEF NackDead
  <2>. QED BY <1>8, <2>2, <2>3, <2>5 DEF NackDead, TypeInv, TypeOK
<1>9. ASSUME NEW p \in Procs, WriteTopic(p) PROVE TypeInv'
  <2>1. /\ task[p].file \in Files
        /\ task[p].msgs \in SUBSET Msg
        /\ IsFiniteSet(task[p].msgs)
    BY <1>9, TaskType DEF WriteTopic, TypeInv, TypeOK, Finite
  <2>2. live' \in [Files -> SUBSET Msg] /\ \A g \in Files : IsFiniteSet(live'[g])
    BY <1>9, <2>1, LiveUpdate DEF WriteTopic
  <2>3. Idle \in Task /\ Idle.at # "writing"
    BY TaskMake DEF Idle
  <2>4. task' \in [Procs -> Task] /\ Finite'
    BY <1>9, <2>2, <2>3, NotWriting DEF WriteTopic
  <2>. QED BY <1>9, <2>2, <2>4 DEF WriteTopic, TypeInv, TypeOK
<1>10. ASSUME NEW f \in Files, GcStale(f) PROVE TypeInv'
  <2>1. Stale(f) \subseteq live[f] /\ IsFiniteSet(Stale(f)) /\ IsFiniteSet(live[f] \ Stale(f))
    BY FS_Subset DEF Stale, TypeInv, Finite
  <2>2. /\ {Recovered(m) : m \in Stale(f)} \in SUBSET Msg
        /\ (live[f] \ Stale(f)) \cup {Recovered(m) : m \in Stale(f)} \in SUBSET Msg
    BY <2>1, MsgMake DEF TypeInv, TypeOK
  <2>3. IsFiniteSet({Recovered(m) : m \in Stale(f)})
    <3>1. [m \in Stale(f) |-> Recovered(m)]
              \in Surjection(Stale(f), {Recovered(m) : m \in Stale(f)})
      BY DEF Surjection
    <3>. QED BY <2>1, <3>1, FS_Surjection
  <2>4. IsFiniteSet((live[f] \ Stale(f)) \cup {Recovered(m) : m \in Stale(f)})
    BY <2>1, <2>3, FS_Union
  <2>5. live' \in [Files -> SUBSET Msg] /\ \A g \in Files : IsFiniteSet(live'[g])
    BY <1>10, <2>2, <2>4, LiveUpdate DEF GcStale
  <2>6. Finite'
    BY <1>10, <2>5, SameTasks DEF GcStale
  <2>. QED BY <1>10, <2>5, <2>6 DEF GcStale, TypeInv, TypeOK
<1>11. ASSUME NEW p \in Procs, NEW f \in Files, TtlSweep(p, f) PROVE TypeInv'
  <2>. DEFINE expired == {m \in Pending(f) : m.old}
  <2>1. /\ expired \subseteq live[f]
        /\ Pending(f) \ expired \in SUBSET Msg
        /\ IsFiniteSet(Pending(f) \ expired)
    BY FS_Subset DEF Pending, TypeInv, TypeOK, Finite
  <2>2. {EntryOf(m) : m \in expired} \in SUBSET Entry
    BY <2>1, MsgMake DEF TypeInv, TypeOK
  <2>3. /\ dlq' = dlq \cup {EntryOf(m) : m \in expired}
        /\ StartWrite(p, f, Pending(f) \ expired)
        /\ live' = live
    BY <1>11 DEF TtlSweep
  <2>4. task' \in [Procs -> Task] /\ lock' \in [Files -> Procs \cup {NoProc}] /\ Finite'
    BY <2>1, <2>3, WriteType
  <2>5. dlq' \in SUBSET Entry
    BY <2>2, <2>3 DEF TypeInv, TypeOK
  <2>. QED BY <1>11, <2>3, <2>4, <2>5 DEF TtlSweep, TypeInv, TypeOK
<1>12. ASSUME NEW p \in Procs, NEW f \in Files, RequeueDone(p, f) PROVE TypeInv'
  <2>1. PICK e \in done[f], d \in BOOLEAN, o \in Ageing :
          /\ done' = [done EXCEPT ![f] = @ \ {e}]
          /\ StartWrite(p, f, live[f] \cup {Requeued(e, stamp + 1, d, o)})
    BY <1>12 DEF RequeueDone
  <2>2. /\ NewMsg(e.id, e.job, e.topic, e.key) \in Msg
        /\ stamp + 1 \in Nat
        /\ o \in BOOLEAN
    <3>1. e.id \in Nat /\ e.job \in Nat /\ e.topic \in Topics /\ e.key \in Keys \cup {NoKey}
      BY DEF TypeInv, TypeOK, Entry
    <3>2. stamp + 1 \in Nat
      BY DEF TypeInv, TypeOK
    <3>3. o \in BOOLEAN
      BY DEF Ageing
    <3>. QED BY <3>1, <3>2, <3>3, MsgMake
  <2>3. Requeued(e, stamp + 1, d, o) \in Msg
    BY <2>2, Zenon DEF Msg, Requeued
  <2>4. /\ live[f] \cup {Requeued(e, stamp + 1, d, o)} \in SUBSET Msg
        /\ IsFiniteSet(live[f] \cup {Requeued(e, stamp + 1, d, o)})
    BY <2>3, Adding
  <2>5. task' \in [Procs -> Task] /\ lock' \in [Files -> Procs \cup {NoProc}] /\ Finite'
    BY <1>12, <2>1, <2>4, WriteType DEF RequeueDone
  <2>. QED BY <1>12, <2>1, <2>2, <2>5 DEF RequeueDone, TypeInv, TypeOK
<1>13. ASSUME NEW p \in Procs, ReadForReplay(p) PROVE TypeInv'
  <2>1. PICK sel \in Selections : task' = [task EXCEPT ![p] = Replaying(sel, dlq \ sel)]
    BY <1>13 DEF ReadForReplay
  <2>2. sel \in SUBSET Entry /\ dlq \ sel \in SUBSET Entry
    BY DEF Selections, TypeInv, TypeOK
  <2>3. Replaying(sel, dlq \ sel) \in Task /\ Replaying(sel, dlq \ sel).at # "writing"
    BY <2>2, TaskMake DEF Replaying
  <2>4. live' = live /\ \A g \in Files : IsFiniteSet(live'[g])
    BY <1>13 DEF ReadForReplay, TypeInv, Finite
  <2>5. task' \in [Procs -> Task] /\ Finite'
    BY <2>1, <2>3, <2>4, NotWriting
  <2>. QED BY <1>13, <2>5 DEF ReadForReplay, TypeInv, TypeOK
<1>14. ASSUME NEW p \in Procs, ReadForPurge(p) PROVE TypeInv'
  <2>1. PICK sel \in SUBSET dlq :
          /\ task' = [task EXCEPT ![p] = Replaying({}, dlq \ sel)]
          /\ purged' = purged \cup JobsOf(sel)
    BY <1>14 DEF ReadForPurge
  <2>2. Replaying({}, dlq \ sel) \in Task /\ Replaying({}, dlq \ sel).at # "writing"
    BY TaskMake DEF Replaying, TypeInv, TypeOK
  <2>3. live' = live /\ \A g \in Files : IsFiniteSet(live'[g])
    BY <1>14 DEF ReadForPurge, TypeInv, Finite
  <2>4. task' \in [Procs -> Task] /\ Finite'
    BY <2>1, <2>2, <2>3, NotWriting
  <2>5. purged' \in SUBSET Nat
    <3>1. \A e \in sel : e.job \in Nat
      BY DEF Entry, TypeInv, TypeOK
    <3>. QED BY <2>1, <3>1 DEF JobsOf, TypeInv, TypeOK
  <2>. QED BY <1>14, <2>4, <2>5 DEF ReadForPurge, TypeInv, TypeOK
<1>15. ASSUME NEW p \in Procs, ReplayOne(p) PROVE TypeInv'
  <2>1. task[p].todo \in SUBSET Entry /\ task[p].keep \in SUBSET Entry
    BY <1>15, TaskType DEF ReplayOne, TypeInv, TypeOK
  <2>2. PICK e \in task[p].todo :
          /\ Append(FileOf[e.topic], NewMsg(stamp + 1, e.job, e.topic, NoKey))
          /\ task' = [task EXCEPT ![p] = Replaying(task[p].todo \ {e}, task[p].keep)]
    BY <1>15 DEF ReplayOne, TypeInv, TypeOK
  <2>3. FileOf[e.topic] \in Files /\ NewMsg(stamp + 1, e.job, e.topic, NoKey) \in Msg
    <3>1. e.topic \in Topics /\ e.job \in Nat
      BY <2>1 DEF Entry
    <3>2. FileOf[e.topic] \in Files
      BY <3>1, FileOfType
    <3>3. stamp + 1 \in Nat
      BY DEF TypeInv, TypeOK
    <3>. QED BY <3>1, <3>2, <3>3, MsgMake
  <2>4. /\ live' \in [Files -> SUBSET Msg] /\ dlq' \in SUBSET Entry /\ stamp' \in Nat
        /\ \A g \in Files : IsFiniteSet(live'[g])
    BY <2>2, <2>3, AppendType
  <2>5. /\ Replaying(task[p].todo \ {e}, task[p].keep) \in Task
        /\ Replaying(task[p].todo \ {e}, task[p].keep).at # "writing"
    BY <2>1, TaskMake DEF Replaying
  <2>6. task' \in [Procs -> Task] /\ Finite'
    BY <2>2, <2>4, <2>5, NotWriting
  <2>. QED BY <1>15, <2>4, <2>6 DEF ReplayOne, TypeInv, TypeOK
<1>16. ASSUME NEW p \in Procs, ReplayFull(p) PROVE TypeInv'
  <2>1. Idle \in Task /\ Idle.at # "writing" /\ \A g \in Files : IsFiniteSet(live'[g])
    BY <1>16, TaskMake DEF ReplayFull, Idle, TypeInv, Finite
  <2>2. task' \in [Procs -> Task] /\ Finite'
    BY <1>16, <2>1, NotWriting DEF ReplayFull
  <2>. QED BY <1>16, <2>2 DEF ReplayFull, TypeInv, TypeOK
<1>17. ASSUME NEW p \in Procs, RewriteDlq(p) PROVE TypeInv'
  <2>1. task[p].keep \in SUBSET Entry
    BY <1>17, TaskType DEF RewriteDlq, TypeInv, TypeOK
  <2>2. /\ Replacing \in Task /\ Replacing.at # "writing"
        /\ \A g \in Files : IsFiniteSet(live'[g])
    BY <1>17, TaskMake DEF RewriteDlq, Replacing, TypeInv, Finite
  <2>3. task' \in [Procs -> Task] /\ Finite'
    BY <1>17, <2>2, NotWriting DEF RewriteDlq
  <2>. QED BY <1>17, <2>1, <2>3 DEF RewriteDlq, TypeInv, TypeOK
<1>18. ASSUME NEW p \in Procs, ReplaceDlq(p) PROVE TypeInv'
  <2>1. Idle \in Task /\ Idle.at # "writing" /\ \A g \in Files : IsFiniteSet(live'[g])
    BY <1>18, TaskMake DEF ReplaceDlq, Idle, TypeInv, Finite
  <2>2. task' \in [Procs -> Task] /\ Finite'
    BY <1>18, <2>1, NotWriting DEF ReplaceDlq
  <2>3. dlq' \in SUBSET Entry
    BY <1>18 DEF ReplaceDlq, TypeInv, TypeOK
  <2>. QED BY <1>18, <2>2, <2>3 DEF ReplaceDlq, TypeInv, TypeOK
<1>19. ASSUME NEW p \in Procs, Crash(p) PROVE TypeInv'
  <2>1. Idle \in Task /\ Idle.at # "writing" /\ \A g \in Files : IsFiniteSet(live'[g])
    BY <1>19, TaskMake DEF Crash, Idle, TypeInv, Finite
  <2>2. task' \in [Procs -> Task] /\ Finite'
    BY <1>19, <2>1, NotWriting DEF Crash
  <2>3. /\ lock' \in [Files -> Procs \cup {NoProc}]
        /\ held' \in [Procs -> Nat]
        /\ crashes' \in Nat
    BY <1>19 DEF Crash, TypeInv, TypeOK
  <2>. QED BY <1>19, <2>2, <2>3 DEF Crash, TypeInv, TypeOK
<1>20. ASSUME NEW f \in Files, NEW m \in live[f], NEW aged \in Msg, Ages(f, m, aged)
       PROVE  TypeInv'
  <2>1. live' \in [Files -> SUBSET Msg] /\ \A g \in Files : IsFiniteSet(live'[g])
    BY <1>20, Exchange, LiveUpdate DEF Ages
  <2>2. Finite'
    BY <1>20, <2>1, SameTasks DEF Ages
  <2>. QED BY <1>20, <2>1, <2>2 DEF Ages, TypeInv, TypeOK
<1>21. ASSUME NEW f \in Files, LeaseAges(f) \/ BackoffElapses(f) \/ MessageAges(f)
       PROVE  TypeInv'
  <2>1. \A m \in live[f] : /\ [m EXCEPT !.lease = "stale"] \in Msg
                           /\ [m EXCEPT !.due = TRUE] \in Msg
                           /\ \A o \in Ageing : [m EXCEPT !.old = @ \/ o] \in Msg
    <3>1. \A m \in live[f] : m \in Msg /\ \A o \in Ageing : (m.old \/ o) \in BOOLEAN
      BY DEF TypeInv, TypeOK, Ageing
    <3>. QED BY <3>1, Zenon DEF Msg
  <2>2. CASE LeaseAges(f)
    BY <1>20, <2>1, <2>2 DEF LeaseAges
  <2>3. CASE BackoffElapses(f)
    BY <1>20, <2>1, <2>3 DEF BackoffElapses, Pending
  <2>4. CASE MessageAges(f)
    BY <1>20, <2>1, <2>4 DEF MessageAges
  <2>. QED BY <1>21, <2>2, <2>3, <2>4
<1>22. ASSUME NEW p \in Procs, WriteFails(p) PROVE TypeInv'
  <2>1. Idle \in Task /\ Idle.at # "writing" /\ \A g \in Files : IsFiniteSet(live'[g])
    BY <1>22, TaskMake DEF WriteFails, Idle, TypeInv, Finite
  <2>2. task' \in [Procs -> Task] /\ Finite'
    BY <1>22, <2>1, NotWriting DEF WriteFails
  <2>3. crashes' \in Nat
    BY <1>22 DEF WriteFails, TypeInv, TypeOK
  <2>4. lock' \in [Files -> Procs \cup {NoProc}]
    BY <1>22 DEF WriteFails, TypeInv, TypeOK
  <2>. QED BY <1>22, <2>2, <2>3, <2>4 DEF WriteFails, TypeInv, TypeOK
<1>23. ASSUME UNCHANGED vars PROVE TypeInv'
  BY <1>23 DEF vars, TypeInv, TypeOK, Finite
<1>. QED
  BY <1>1, <1>2, <1>3, <1>4, <1>5, <1>6, <1>7, <1>8, <1>9, <1>10, <1>11, <1>12, <1>13,
     <1>14, <1>15, <1>16, <1>17, <1>18, <1>19, <1>21, <1>22, <1>23
  DEF Next, Step, SettleStep, Tick

\* Every variable has its type in every reachable state.
THEOREM TypeCorrect == Spec => []TypeOK
<1>1. Spec => []TypeInv
  BY TypeInit, TypeNext, PTL DEF Spec
<1>. QED BY <1>1, PTL DEF TypeInv

-----------------------------------------------------------------------------
(* No job is lost by a deployment that makes none of the calls that rewrite a   *)
(* file without its lock, or from a partial or outdated copy of it.             *)

Conservative == Calls \cap {"ttl", "requeue", "replay", "purge"} = {}

IsLive(j) == \E f \in Files : \E m \in live[f] : m.job = j

IsSettled(j) == (\E f \in Files : \E e \in done[f] : e.job = j) \/ \E e \in dlq : e.job = j

\* A process that is about to replace a live file holds its lock.
WriterLocks == \A p \in Procs : task[p].at = "writing" => lock[task[p].file] = p

\* It removes one message, which it has settled before.
WriterSettled ==
    \A p \in Procs : task[p].at = "writing" =>
        \E m \in live[task[p].file] :
            /\ task[p].msgs = live[task[p].file] \ {m}
            /\ IsSettled(m.job)

NoDlqCall == \A p \in Procs : task[p].at \notin {"replaying", "replacing"}

\* Live and settled jobs are accepted ones, which are live or settled.
JobsKept ==
    /\ accepted \subseteq 1..stamp \cup SeedJobs
    /\ stamp =< MaxStamp
    /\ \A j \in accepted : IsLive(j) \/ IsSettled(j)
    /\ \A f \in Files : \A m \in live[f] : m.job \in accepted

SafeInv == TypeInv /\ WriterLocks /\ WriterSettled /\ NoDlqCall /\ JobsKept

\* The safety invariant holds initially: no lock is taken and no job is lost.
LEMMA SafeInit == ASSUME Init PROVE SafeInv
<1>1. TypeInv
  BY TypeInit
<1>2. WriterLocks /\ WriterSettled /\ NoDlqCall
  BY DEF Init, WriterLocks, WriterSettled, NoDlqCall, Idle
<1>3. \A j \in accepted : IsSettled(j)
  <2>1. PICK t \in Topics :
          dlq = {[id |-> j, job |-> j, topic |-> t, key |-> NoKey] : j \in SeedJobs}
    BY DEF Init
  <2>2. \A j \in SeedJobs : [id |-> j, job |-> j, topic |-> t, key |-> NoKey] \in dlq
    BY <2>1
  <2>. QED BY <2>2 DEF Init, IsSettled
<1>4. JobsKept
  BY <1>3, QueueAssumption DEF Init, JobsKept
<1>. QED BY <1>1, <1>2, <1>4 DEF SafeInv

\* The sets of the refinement mapping, member by member.
MapOK ==
    /\ \A j : j \in AvailableJobs <=> IsLive(j)
    /\ \A j : j \in SettledJobs <=> IsSettled(j)

\* The refinement mapping in terms of single jobs, in a state and in the next one.
LEMMA Mapping == SafeInv => MapOK
<1>. SUFFICES ASSUME SafeInv PROVE MapOK
  OBVIOUS
<1>1. \A p \in Procs : \A j \in InHand(p) : IsLive(j)
  <2>. SUFFICES ASSUME NEW p \in Procs, task[p].at = "writing", NEW m \in task[p].msgs
                PROVE  IsLive(m.job)
    BY DEF InHand, JobsOf
  <2>1. task[p].file \in Files /\ m \in live[task[p].file]
    BY TaskType DEF SafeInv, TypeInv, TypeOK, WriterSettled
  <2>. QED BY <2>1 DEF IsLive
<1>2. \A j : IsLive(j) <=> \E f \in Files : j \in JobsOf(live[f])
  BY DEF IsLive, JobsOf
<1>3. \A j : j \in AvailableJobs <=> IsLive(j)
  BY <1>1, <1>2 DEF AvailableJobs
<1>4. \A j : j \in SettledJobs <=> j \in JobsOf(dlq) \/ \E f \in Files : j \in JobsOf(done[f])
  BY DEF SettledJobs
<1>5. \A j : j \in SettledJobs <=> IsSettled(j)
  BY <1>4 DEF IsSettled, JobsOf
<1>. QED BY <1>3, <1>5 DEF MapOK

\* The same for the next state.
LEMMA MappingNext == SafeInv' => MapOK'
BY Mapping, PTL

\* What a step does to the abstract queue.
Simulates == [Promise!Next]_(Promise!vars)

\* A step that keeps the accepted, live and settled jobs stutters there.
LEMMA Stutters ==
    ASSUME SafeInv, SafeInv', accepted' = accepted,
           \A j : IsLive(j)' <=> IsLive(j),
           \A j : IsSettled(j)' <=> IsSettled(j)
    PROVE  Simulates
<1>1. /\ \A j : j \in AvailableJobs' <=> j \in AvailableJobs
      /\ \A j : j \in SettledJobs' <=> j \in SettledJobs
  BY Mapping, MappingNext DEF MapOK
<1>. QED BY <1>1 DEF Simulates, Promise!vars

\* The jobs of the live files are jobs of the abstract queue.
LEMMA LiveJobs ==
    ASSUME SafeInv, NEW f \in Files, NEW m \in live[f]
    PROVE  m.job \in 1..MaxStamp \cup SeedJobs
<1>1. m.job \in 1..stamp \cup SeedJobs /\ stamp =< MaxStamp /\ stamp \in Nat
  BY DEF SafeInv, JobsKept, TypeInv, TypeOK
<1>2. MaxStamp \in Nat
  BY QueueAssumption
<1>3. 1..stamp \subseteq 1..MaxStamp
  BY <1>1, <1>2
<1>. QED BY <1>1, <1>3

\* Steps that start no write, release no lock and keep the jobs of each file.
LEMMA QuietStep ==
    ASSUME SafeInv, TypeInv', lock' = lock, done' = done, dlq' = dlq,
           accepted' = accepted, stamp' = stamp,
           \A p \in Procs : task'[p] = task[p] \/ task'[p].at \in {"idle", "found"},
           \A g \in Files : live'[g] = live[g] \/
              (/\ CanLock(g)
               /\ \A m \in live[g] : \E n \in live'[g] : n.job = m.job
               /\ \A n \in live'[g] : \E m \in live[g] : n.job = m.job)
    PROVE  SafeInv' /\ Simulates
<1>1. \A j : IsSettled(j)' <=> IsSettled(j)
  BY DEF IsSettled
<1>2. \A j : IsLive(j)' <=> IsLive(j)
  BY DEF IsLive
<1>3. WriterLocks' /\ NoDlqCall'
  BY DEF SafeInv, WriterLocks, NoDlqCall
<1>4. \A p \in Procs : task[p].at = "writing" => live'[task[p].file] = live[task[p].file]
  <2>1. \A p \in Procs : task[p].at = "writing" =>
            task[p].file \in Files /\ ~CanLock(task[p].file)
    BY QueueAssumption, TaskType DEF SafeInv, TypeInv, TypeOK, WriterLocks, CanLock
  <2>. QED BY <2>1
<1>5. WriterSettled'
  BY <1>1, <1>4 DEF SafeInv, WriterSettled
<1>6. JobsKept'
  BY <1>1, <1>2 DEF SafeInv, JobsKept
<1>7. SafeInv'
  BY <1>3, <1>5, <1>6 DEF SafeInv
<1>. QED BY <1>1, <1>2, <1>7, Stutters

\* A step that settles a message and starts to write the rest of its file.
LEMMA SettleBegins ==
    ASSUME SafeInv, TypeInv', NEW p \in Procs, NEW f \in Files, NEW m \in live[f],
           CanLock(f), StartWrite(p, f, live[f] \ {m}), live' = live,
           \A j : IsSettled(j)' <=> IsSettled(j) \/ j = m.job,
           accepted' = accepted, stamp' = stamp
    PROVE  SafeInv' /\ Simulates
<1>1. /\ \A q \in Procs : task'[q] = IF q = p THEN Writing(f, live[f] \ {m}) ELSE task[q]
      /\ \A g \in Files : lock'[g] = IF g = f THEN p ELSE lock[g]
  BY DEF StartWrite, SafeInv, TypeInv, TypeOK
<1>2. \A q \in Procs : task[q].at = "writing" => task[q].file \in Files /\ task[q].file # f
  BY QueueAssumption, TaskType DEF SafeInv, TypeInv, TypeOK, WriterLocks, CanLock
<1>3. WriterLocks' /\ NoDlqCall'
  BY <1>1, <1>2 DEF SafeInv, WriterLocks, NoDlqCall, Writing
<1>4. WriterSettled'
  BY <1>1 DEF SafeInv, WriterSettled, Writing
<1>5. JobsKept'
  BY DEF SafeInv, JobsKept, IsLive
<1>6. SafeInv'
  BY <1>3, <1>4, <1>5 DEF SafeInv
<1>7. Promise!Settle(m.job)
  <2>1. MapOK /\ MapOK'
    BY <1>6, Mapping, MappingNext
  <2>2. \A j : IsLive(j)' <=> IsLive(j)
    BY DEF IsLive
  <2>3. AvailableJobs' = AvailableJobs /\ SettledJobs' = SettledJobs \cup {m.job}
    BY <2>1, <2>2 DEF MapOK
  <2>4. m.job \in AvailableJobs
    BY <2>1 DEF MapOK, IsLive
  <2>. QED BY <2>3, <2>4 DEF Promise!Settle
<1>8. m.job \in 1..MaxStamp \cup SeedJobs
  BY LiveJobs
<1>. QED BY <1>6, <1>7, <1>8 DEF Simulates, Promise!Next

\* A step that ends the call of one process, without another write.
LEMMA CallEnds ==
    ASSUME SafeInv, TypeInv', NEW p \in Procs, live' = live, done' = done, dlq' = dlq,
           accepted' = accepted, stamp' = stamp,
           task' = [task EXCEPT ![p] = Idle],
           \A g \in Files : lock'[g] = lock[g] \/ lock[g] = p
    PROVE  SafeInv' /\ Simulates
<1>1. \A q \in Procs : task'[q] = IF q = p THEN Idle ELSE task[q]
  BY DEF SafeInv, TypeInv, TypeOK
<1>2. \A j : IsSettled(j)' <=> IsSettled(j)
  BY DEF IsSettled
<1>3. WriterLocks' /\ NoDlqCall'
  BY <1>1, TaskType DEF SafeInv, WriterLocks, NoDlqCall, Idle, TypeInv, TypeOK
<1>4. WriterSettled'
  BY <1>1, <1>2 DEF SafeInv, WriterSettled, Idle
<1>5. JobsKept'
  BY <1>2 DEF SafeInv, JobsKept, IsLive
<1>6. SafeInv'
  BY <1>3, <1>4, <1>5 DEF SafeInv
<1>7. \A j : IsLive(j)' <=> IsLive(j)
  BY DEF IsLive
<1>. QED BY <1>2, <1>6, <1>7, Stutters

\* The end of a write: the job that goes is settled, all others stay live.
LEMMA WriteEnds ==
    ASSUME SafeInv, TypeInv', NEW p \in Procs, WriteTopic(p)
    PROVE  SafeInv' /\ Simulates
<1>. DEFINE f == task[p].file
<1>1. f \in Files /\ lock[f] = p
  BY TaskType DEF WriteTopic, SafeInv, TypeInv, TypeOK, WriterLocks
<1>2. PICK m \in live[f] : task[p].msgs = live[f] \ {m} /\ IsSettled(m.job)
  BY DEF WriteTopic, SafeInv, WriterSettled
<1>3. /\ \A q \in Procs : task'[q] = IF q = p THEN Idle ELSE task[q]
      /\ \A g \in Files : lock'[g] = IF g = f THEN NoProc ELSE lock[g]
      /\ \A g \in Files : live'[g] = IF g = f THEN live[f] \ {m} ELSE live[g]
  BY <1>2 DEF WriteTopic, SafeInv, TypeInv, TypeOK
<1>4. \A j : IsSettled(j)' <=> IsSettled(j)
  BY DEF IsSettled, WriteTopic
<1>5. \A j : IsLive(j) => IsLive(j)' \/ IsSettled(j)
  BY <1>2, <1>3 DEF IsLive
<1>6. \A q \in Procs : task[q].at = "writing" /\ q # p => task[q].file \in Files \ {f}
  BY <1>1, TaskType DEF SafeInv, TypeInv, TypeOK, WriterLocks
<1>7. WriterLocks' /\ NoDlqCall'
  BY <1>3, <1>6 DEF SafeInv, WriterLocks, NoDlqCall, Idle
<1>8. WriterSettled'
  BY <1>3, <1>4, <1>6 DEF SafeInv, WriterSettled, Idle
<1>9. JobsKept'
  <2>1. accepted' = accepted /\ stamp' = stamp
    BY DEF WriteTopic, history
  <2>2. \A j \in accepted : IsLive(j)' \/ IsSettled(j)'
    BY <1>4, <1>5 DEF SafeInv, JobsKept
  <2>3. \A g \in Files : \A n \in live'[g] : n.job \in accepted
    BY <1>3 DEF SafeInv, JobsKept
  <2>. QED BY <2>1, <2>2, <2>3 DEF SafeInv, JobsKept
<1>10. SafeInv'
  BY <1>7, <1>8, <1>9 DEF SafeInv
<1>11. CASE IsLive(m.job)'
  <2>1. \A j : IsLive(j)' <=> IsLive(j)
    BY <1>2, <1>3, <1>11 DEF IsLive
  <2>. QED BY <1>4, <1>10, <2>1, Stutters DEF WriteTopic, history
<1>12. CASE ~IsLive(m.job)'
  <2>1. MapOK /\ MapOK'
    BY <1>10, Mapping, MappingNext
  <2>2. \A j : IsLive(j)' <=> IsLive(j) /\ j # m.job
    BY <1>2, <1>3, <1>12 DEF IsLive
  <2>3. /\ AvailableJobs' = AvailableJobs \ {m.job}
        /\ SettledJobs' = SettledJobs
        /\ m.job \in SettledJobs
        /\ accepted' = accepted
    BY <1>2, <1>4, <2>1, <2>2 DEF MapOK, WriteTopic, history
  <2>4. Promise!Release(m.job)
    BY <2>3 DEF Promise!Release
  <2>5. m.job \in 1..MaxStamp \cup SeedJobs
    BY <1>1, LiveJobs
  <2>. QED BY <1>10, <2>4, <2>5 DEF Simulates, Promise!Next
<1>. QED BY <1>11, <1>12

\* Every step keeps the safety invariant and is a step of the abstract queue.
LEMMA SafeNext ==
    ASSUME Conservative, SafeInv, [Next]_vars
    PROVE  SafeInv' /\ Simulates
<1>. USE DEF files, history
<1>1. TypeInv'
  BY TypeNext DEF SafeInv
<1>2. ASSUME NEW p \in Procs, NEW t \in Topics, NEW k \in Keys \cup {NoKey}, Enqueue(p, t, k)
      PROVE  SafeInv' /\ Simulates
  <2>. DEFINE f == FileOf[t]
  <2>0. PICK i, n : i = stamp + 1 /\ n = NewMsg(i, i, t, k)
    OBVIOUS
  <2>1. f \in Files /\ CanLock(f) /\ n.job = i /\ Append(f, n)
    BY <1>2, <2>0, QueueAssumption DEF Enqueue, NewMsg
  <2>2. /\ stamp < MaxStamp /\ stamp' = i /\ i \in Nat
        /\ accepted' = accepted \cup {i}
        /\ task' = task /\ lock' = lock /\ done' = done
    BY <1>2, <2>0, <2>1 DEF Enqueue, Append, SafeInv, TypeInv, TypeOK
  <2>3. \/ live' = [live EXCEPT ![f] = @ \cup {n}] /\ dlq' = dlq
        \/ dlq' = dlq \cup {EntryOf(n)} /\ live' = live
    BY <2>1 DEF Append
  <2>4. \A j : IsSettled(j) => IsSettled(j)'
    BY <2>2, <2>3 DEF IsSettled
  <2>5. \A g \in Files : live[g] \subseteq live'[g] /\ \A m \in live'[g] : m \in live[g] \/ m = n
    BY <2>1, <2>3 DEF SafeInv, TypeInv, TypeOK
  <2>6. IsLive(i)' \/ IsSettled(i)'
    <3>1. CASE live' = [live EXCEPT ![f] = @ \cup {n}]
      <4>1. n \in live'[f]
        BY <2>1, <3>1 DEF SafeInv, TypeInv, TypeOK
      <4>. QED BY <2>1, <4>1 DEF IsLive
    <3>2. CASE dlq' = dlq \cup {EntryOf(n)}
      <4>1. EntryOf(n) \in dlq' /\ EntryOf(n).job = i
        BY <2>1, <3>2 DEF EntryOf
      <4>. QED BY <4>1 DEF IsSettled
    <3>. QED BY <2>3, <3>1, <3>2
  <2>7. JobsKept'
    <3>1. \A j \in accepted' : IsLive(j)' \/ IsSettled(j)'
      <4>1. \A j : IsLive(j) => IsLive(j)'
        BY <2>5 DEF IsLive
      <4>2. \A j \in accepted : IsLive(j)' \/ IsSettled(j)'
        BY <2>4, <4>1 DEF SafeInv, JobsKept
      <4>. QED BY <2>2, <2>6, <4>2
    <3>2. \A g \in Files : \A m \in live'[g] : m.job \in accepted'
      BY <2>1, <2>2, <2>5 DEF SafeInv, JobsKept
    <3>3. accepted' \subseteq 1..stamp' \cup SeedJobs /\ stamp' =< MaxStamp
      BY <2>0, <2>2, QueueAssumption DEF SafeInv, JobsKept, TypeInv, TypeOK
    <3>. QED BY <3>1, <3>2, <3>3 DEF JobsKept
  <2>8. WriterLocks' /\ NoDlqCall'
    BY <2>2 DEF SafeInv, WriterLocks, NoDlqCall
  <2>9. \A q \in Procs : task[q].at = "writing" => task[q].file \in Files \ {f}
    BY <2>1, QueueAssumption, TaskType DEF SafeInv, TypeInv, TypeOK, WriterLocks, CanLock
  <2>10. \A g \in Files \ {f} : live'[g] = live[g]
    BY <2>3 DEF SafeInv, TypeInv, TypeOK
  <2>11. WriterSettled'
    BY <2>2, <2>4, <2>9, <2>10 DEF SafeInv, WriterSettled
  <2>12. SafeInv'
    BY <1>1, <2>7, <2>8, <2>11 DEF SafeInv
  <2>13. Promise!Submit(i)
    <3>1. MapOK /\ MapOK'
      BY <2>12, Mapping, MappingNext
    <3>2. i \in (1..MaxStamp \cup SeedJobs) \ accepted
      BY <2>0, <2>2, QueueAssumption DEF SafeInv, JobsKept, TypeInv, TypeOK
    <3>3. CASE live' = [live EXCEPT ![f] = @ \cup {n}] /\ dlq' = dlq
      <4>1. \A j : IsLive(j)' <=> IsLive(j) \/ j = i
        <5>1. \A g \in Files : live'[g] = IF g = f THEN live[f] \cup {n} ELSE live[g]
          BY <2>1, <3>3 DEF SafeInv, TypeInv, TypeOK
        <5>. QED BY <2>1, <5>1 DEF IsLive
      <4>2. \A j : IsSettled(j)' <=> IsSettled(j)
        BY <2>2, <3>3 DEF IsSettled
      <4>3. AvailableJobs' = AvailableJobs \cup {i} /\ SettledJobs' = SettledJobs
        BY <3>1, <4>1, <4>2 DEF MapOK
      <4>. QED BY <2>2, <3>2, <4>3 DEF Promise!Submit
    <3>4. CASE dlq' = dlq \cup {EntryOf(n)} /\ live' = live
      <4>1. \A j : IsLive(j)' <=> IsLive(j)
        BY <3>4 DEF IsLive
      <4>2. \A j : IsSettled(j)' <=> IsSettled(j) \/ j = i
        <5>1. EntryOf(n).job = i
          BY <2>1 DEF EntryOf
        <5>2. \A j : (\E e \in dlq' : e.job = j) <=> (\E e \in dlq : e.job = j) \/ j = i
          BY <3>4, <5>1
        <5>. QED BY <2>2, <5>2 DEF IsSettled
      <4>3. AvailableJobs' = AvailableJobs /\ SettledJobs' = SettledJobs \cup {i}
        BY <3>1, <4>1, <4>2 DEF MapOK
      <4>. QED BY <2>2, <3>2, <4>3 DEF Promise!Submit
    <3>. QED BY <2>3, <3>3, <3>4
  <2>14. i \in 1..MaxStamp \cup SeedJobs
    BY <2>0, <2>2, QueueAssumption DEF SafeInv, TypeInv, TypeOK
  <2>. QED BY <2>12, <2>13, <2>14 DEF Simulates, Promise!Next
<1>3. ASSUME NEW p \in Procs, NEW f \in Files, Consume(p, f) PROVE SafeInv' /\ Simulates
  <2>1. PICK m \in live[f] : live' = [live EXCEPT ![f] = (@ \ {m}) \cup {Leased(m, p)}]
    BY <1>3 DEF Consume
  <2>2. Leased(m, p).job = m.job
    BY DEF Leased, SafeInv, TypeInv, TypeOK, Msg
  <2>3. \A g \in Files : live'[g] = IF g = f THEN (live[f] \ {m}) \cup {Leased(m, p)} ELSE live[g]
    BY <2>1 DEF SafeInv, TypeInv, TypeOK
  <2>. QED BY <1>1, <1>3, <2>2, <2>3, QuietStep DEF Consume
<1>4. ASSUME NEW p \in Procs, NEW call \in {"ack", "nack", "fatal"}, Find(p, call)
      PROVE  SafeInv' /\ Simulates
  <2>1. \A q \in Procs : task'[q] = task[q] \/ task'[q].at = "found"
    BY <1>4 DEF Find, Found, SafeInv, TypeInv, TypeOK
  <2>. QED BY <1>1, <1>4, <2>1, QuietStep DEF Find
<1>5. ASSUME NEW p \in Procs, FindMissing(p) PROVE SafeInv' /\ Simulates
  BY <1>1, <1>5, QuietStep DEF FindMissing
<1>6. ASSUME NEW p \in Procs, FoundMoved(p) PROVE SafeInv' /\ Simulates
  BY <1>1, <1>6, CallEnds DEF FoundMoved
<1>7. ASSUME NEW p \in Procs, AckArchive(p) PROVE SafeInv' /\ Simulates
  <2>. DEFINE f == task[p].file
  <2>1. f \in Files
    BY <1>7, TaskType DEF AckArchive, SafeInv, TypeInv, TypeOK
  <2>2. PICK m \in live[f] : /\ done' = [done EXCEPT ![f] = @ \cup {EntryOf(m)}]
                             /\ StartWrite(p, f, live[f] \ {m})
    BY <1>7 DEF AckArchive
  <2>3. EntryOf(m).job = m.job /\ dlq' = dlq
    BY <1>7 DEF EntryOf, AckArchive
  <2>4. \A g \in Files : done'[g] = IF g = f THEN done[f] \cup {EntryOf(m)} ELSE done[g]
    BY <2>1, <2>2 DEF SafeInv, TypeInv, TypeOK
  <2>5. \A j : IsSettled(j)' <=> IsSettled(j) \/ j = m.job
    BY <2>1, <2>3, <2>4 DEF IsSettled
  <2>. QED BY <1>1, <1>7, <2>1, <2>2, <2>5, SettleBegins DEF AckArchive
<1>8. ASSUME NEW p \in Procs, NackRetry(p) PROVE SafeInv' /\ Simulates
  <2>. DEFINE f == task[p].file
  <2>1. f \in Files
    BY <1>8, TaskType DEF NackRetry, SafeInv, TypeInv, TypeOK
  <2>2. PICK m \in live[f], d \in BOOLEAN :
           live' = [live EXCEPT ![f] = (@ \ {m}) \cup {Rescheduled(m, d)}]
    BY <1>8 DEF NackRetry
  <2>3. Rescheduled(m, d).job = m.job
    BY <2>1 DEF Rescheduled, SafeInv, TypeInv, TypeOK, Msg
  <2>4. \A g \in Files :
           live'[g] = IF g = f THEN (live[f] \ {m}) \cup {Rescheduled(m, d)} ELSE live[g]
    BY <2>1, <2>2 DEF SafeInv, TypeInv, TypeOK
  <2>5. \A q \in Procs : task'[q] = task[q] \/ task'[q].at = "idle"
    BY <1>8 DEF NackRetry, Idle, SafeInv, TypeInv, TypeOK
  <2>. QED BY <1>1, <1>8, <2>3, <2>4, <2>5, QuietStep DEF NackRetry
<1>9. ASSUME NEW p \in Procs, NackDead(p) PROVE SafeInv' /\ Simulates
  <2>. DEFINE f == task[p].file
  <2>1. f \in Files
    BY <1>9, TaskType DEF NackDead, SafeInv, TypeInv, TypeOK
  <2>2. PICK m \in live[f] : /\ dlq' = dlq \cup {EntryOf(m)}
                             /\ StartWrite(p, f, live[f] \ {m})
    BY <1>9 DEF NackDead
  <2>3. done' = done /\ EntryOf(m) \in dlq' /\ EntryOf(m).job = m.job
    BY <1>9, <2>2 DEF NackDead, EntryOf
  <2>4. \A j : IsSettled(j)' <=> IsSettled(j) \/ j = m.job
    BY <2>2, <2>3 DEF IsSettled
  <2>. QED BY <1>1, <1>9, <2>1, <2>2, <2>4, SettleBegins DEF NackDead
<1>10. ASSUME NEW p \in Procs, WriteFails(p) PROVE SafeInv' /\ Simulates
  <2>1. task[p].file \in Files /\ lock[task[p].file] = p
    BY <1>10, TaskType DEF WriteFails, SafeInv, TypeInv, TypeOK, WriterLocks
  <2>2. \A g \in Files : lock'[g] = lock[g] \/ lock[g] = p
    BY <1>10, <2>1 DEF WriteFails, SafeInv, TypeInv, TypeOK
  <2>. QED BY <1>1, <1>10, <2>2, CallEnds DEF WriteFails
<1>11. ASSUME NEW p \in Procs, Crash(p) PROVE SafeInv' /\ Simulates
  BY <1>1, <1>11, CallEnds DEF Crash
<1>12. ASSUME NEW f \in Files, GcStale(f) PROVE SafeInv' /\ Simulates
  <2>1. \A m \in live[f] : Recovered(m).job = m.job
    BY DEF Recovered, SafeInv, TypeInv, TypeOK, Msg
  <2>2. \A g \in Files : live'[g] =
           IF g = f THEN (live[f] \ Stale(f)) \cup {Recovered(m) : m \in Stale(f)} ELSE live[g]
    BY <1>12 DEF GcStale, SafeInv, TypeInv, TypeOK
  <2>3. Stale(f) \subseteq live[f]
    BY DEF Stale
  <2>4. \A m \in live[f] : \E n \in live'[f] : n.job = m.job
    <3>1. \A m \in live[f] : m \in live'[f] \/ Recovered(m) \in live'[f]
      BY <2>2
    <3>. QED BY <2>1, <3>1
  <2>5. \A n \in live'[f] : \E m \in live[f] : n.job = m.job
    <3>1. \A n \in live'[f] : n \in live[f] \/ \E m \in live[f] : n = Recovered(m)
      BY <2>2, <2>3
    <3>. QED BY <2>1, <3>1
  <2>. QED BY <1>1, <1>12, <2>2, <2>4, <2>5, QuietStep DEF GcStale
<1>13. ASSUME NEW f \in Files, NEW m \in live[f], NEW aged, aged.job = m.job, Ages(f, m, aged)
       PROVE  SafeInv' /\ Simulates
  <2>1. \A g \in Files : live'[g] = IF g = f THEN (live[f] \ {m}) \cup {aged} ELSE live[g]
    BY <1>13 DEF Ages, SafeInv, TypeInv, TypeOK
  <2>. QED BY <1>1, <1>13, <2>1, QuietStep DEF Ages
<1>14. ASSUME NEW f \in Files, LeaseAges(f) \/ BackoffElapses(f) \/ MessageAges(f)
       PROVE  SafeInv' /\ Simulates
  <2>1. \A m \in live[f] : /\ [m EXCEPT !.lease = "stale"].job = m.job
                           /\ [m EXCEPT !.due = TRUE].job = m.job
                           /\ \A o : [m EXCEPT !.old = @ \/ o].job = m.job
    BY DEF SafeInv, TypeInv, TypeOK, Msg
  <2>2. CASE LeaseAges(f)
    BY <1>13, <2>1, <2>2 DEF LeaseAges
  <2>3. CASE BackoffElapses(f)
    BY <1>13, <2>1, <2>3 DEF BackoffElapses, Pending
  <2>4. CASE MessageAges(f)
    BY <1>13, <2>1, <2>4 DEF MessageAges
  <2>. QED BY <1>14, <2>2, <2>3, <2>4
<1>15. ASSUME UNCHANGED vars PROVE SafeInv' /\ Simulates
  BY <1>1, <1>15, QuietStep DEF vars
<1>16. ASSUME NEW p \in Procs
       PROVE  /\ ~ReadForReplay(p) /\ ~ReadForPurge(p)
              /\ ~ReplayOne(p) /\ ~ReplayFull(p) /\ ~RewriteDlq(p) /\ ~ReplaceDlq(p)
              /\ \A f \in Files : ~TtlSweep(p, f) /\ ~RequeueDone(p, f)
  BY DEF Conservative, SafeInv, NoDlqCall, ReadForReplay, ReadForPurge, ReplayOne,
         ReplayFull, RewriteDlq, ReplaceDlq, TtlSweep, RequeueDone
<1>17. ASSUME NEW p \in Procs, Step(p) PROVE SafeInv' /\ Simulates
  BY <1>1, <1>2, <1>3, <1>4, <1>5, <1>6, <1>7, <1>8, <1>9, <1>10, <1>11, <1>16, <1>17, WriteEnds
  DEF Step, SettleStep
<1>18. ASSUME NEW f \in Files, Tick(f) PROVE SafeInv' /\ Simulates
  BY <1>12, <1>14, <1>18 DEF Tick
<1>. QED BY <1>15, <1>17, <1>18 DEF Next

\* The initial files hold settled jobs only.
LEMMA MapInit == ASSUME Init PROVE Promise!Init
<1>1. SafeInv /\ MapOK
  BY SafeInit, Mapping
<1>2. \A j : ~IsLive(j)
  BY DEF Init, IsLive
<1>3. AvailableJobs = {}
  BY <1>1, <1>2 DEF MapOK
<1>4. \A j : IsSettled(j) <=> j \in accepted
  <2>1. PICK t \in Topics :
          dlq = {[id |-> j, job |-> j, topic |-> t, key |-> NoKey] : j \in SeedJobs}
    BY DEF Init
  <2>2. \A f \in Files : done[f] = {}
    BY DEF Init
  <2>3. \A j : (\E e \in dlq : e.job = j) <=> j \in SeedJobs
    <3>1. \A e \in dlq : e.job \in SeedJobs
      BY <2>1
    <3>2. \A j \in SeedJobs : [id |-> j, job |-> j, topic |-> t, key |-> NoKey] \in dlq
      BY <2>1
    <3>. QED BY <3>1, <3>2
  <2>. QED BY <2>2, <2>3 DEF Init, IsSettled
<1>5. SettledJobs = accepted
  BY <1>1, <1>4 DEF MapOK
<1>6. accepted \subseteq 1..MaxStamp \cup SeedJobs
  BY DEF Init
<1>. QED BY <1>3, <1>5, <1>6 DEF Promise!Init

\* The invariant holds, and every step is a step of the abstract queue.
LEMMA SafeAlways == ASSUME Conservative PROVE Spec => []SafeInv /\ [][Promise!Next]_(Promise!vars)
<1>1. Init => SafeInv
  BY SafeInit
<1>2. SafeInv /\ [Next]_vars => SafeInv' /\ [Promise!Next]_(Promise!vars)
  BY SafeNext DEF Simulates
<1>. QED BY <1>1, <1>2, PTL DEF Spec

\* No accepted job is lost, in any interleaving of any number of processes,
\* with crashes, failing writes and expired leases.
THEOREM NothingLost == ASSUME Conservative PROVE Spec => []NoLoss
<1>1. SafeInv => NoLoss
  BY Mapping DEF SafeInv, MapOK, JobsKept, NoLoss
<1>. QED BY <1>1, SafeAlways, PTL

\* The queue of files implements the abstract queue with at-least-once delivery.
THEOREM QueueImplements == ASSUME Conservative PROVE Spec => Implements
<1>1. Init => Promise!Init
  BY MapInit
<1>. QED BY <1>1, SafeAlways, PTL DEF Spec, Implements, Promise!Spec

\* The abstract queue loses no job; nothing that implements it does.
LEMMA PromiseKept == Implements => []Promise!Kept
<1>1. Promise!Init => Promise!Kept
  BY DEF Promise!Init, Promise!Kept
<1>2. Promise!Kept /\ [Promise!Next]_(Promise!vars) => Promise!Kept'
  <2> SUFFICES ASSUME Promise!Kept, [Promise!Next]_(Promise!vars) PROVE Promise!Kept'
    OBVIOUS
  <2>1. CASE UNCHANGED Promise!vars
    BY <2>1 DEF Promise!vars, Promise!Kept
  <2>2. ASSUME NEW j, Promise!Submit(j) PROVE Promise!Kept'
    BY <2>2 DEF Promise!Submit, Promise!Kept
  <2>3. ASSUME NEW j, Promise!Settle(j) PROVE Promise!Kept'
    BY <2>3 DEF Promise!Settle, Promise!Kept
  <2>4. ASSUME NEW j, Promise!Release(j) PROVE Promise!Kept'
    BY <2>4 DEF Promise!Release, Promise!Kept
  <2>5. ASSUME NEW j, Promise!Reopen(j) PROVE Promise!Kept'
    BY <2>5 DEF Promise!Reopen, Promise!Kept
  <2> QED BY <2>1, <2>2, <2>3, <2>4, <2>5 DEF Promise!Next
<1>. QED BY <1>1, <1>2, PTL DEF Implements, Promise!Spec

-----------------------------------------------------------------------------
(* Idempotency keys stay unique as long as no archived message is put back. *)

UniqueKeys(S) == \A m, n \in S : m.key = n.key /\ m.key # NoKey => m = n

\* Whoever writes a live file holds its lock and adds nothing to it.
WriterShrinks ==
    \A p \in Procs : task[p].at = "writing" => task[p].msgs \subseteq live[task[p].file]

KeyInv == TypeInv /\ WriterLocks /\ WriterShrinks /\ KeyUnique

\* Steps that start no write: an unlocked file may change if its keys are unique.
LEMMA KeyQuiet ==
    ASSUME KeyInv, TypeInv',
           \A g \in Files : lock'[g] = lock[g],
           \A p \in Procs : task'[p] = task[p] \/ task'[p].at # "writing",
           \A g \in Files : live'[g] = live[g] \/ (CanLock(g) /\ UniqueKeys(live'[g]))
    PROVE  KeyInv'
<1>1. \A p \in Procs : task[p].at = "writing" =>
          task[p].file \in Files /\ ~CanLock(task[p].file)
  BY QueueAssumption, TaskType DEF KeyInv, TypeInv, TypeOK, WriterLocks, CanLock
<1>2. WriterLocks' /\ WriterShrinks'
  BY <1>1 DEF KeyInv, WriterLocks, WriterShrinks
<1>3. KeyUnique'
  BY DEF KeyInv, KeyUnique, UniqueKeys
<1>. QED BY <1>2, <1>3 DEF KeyInv

\* A step that starts to write a part of an unlocked file.
LEMMA KeyBegins ==
    ASSUME KeyInv, TypeInv', NEW p \in Procs, NEW f \in Files, NEW S \in SUBSET live[f],
           CanLock(f), StartWrite(p, f, S), live' = live
    PROVE  KeyInv'
<1>1. /\ \A q \in Procs : task'[q] = IF q = p THEN Writing(f, S) ELSE task[q]
      /\ \A g \in Files : lock'[g] = IF g = f THEN p ELSE lock[g]
  BY DEF StartWrite, KeyInv, TypeInv, TypeOK
<1>2. \A q \in Procs : task[q].at = "writing" => task[q].file \in Files \ {f}
  BY QueueAssumption, TaskType DEF KeyInv, TypeInv, TypeOK, WriterLocks, CanLock
<1>3. WriterLocks' /\ WriterShrinks'
  BY <1>1, <1>2 DEF KeyInv, WriterLocks, WriterShrinks, Writing
<1>4. KeyUnique'
  BY DEF KeyInv, KeyUnique
<1>. QED BY <1>3, <1>4 DEF KeyInv

\* A step that ends the call of a process, after its write or without one.
LEMMA KeyEnds ==
    ASSUME KeyInv, TypeInv', NEW p \in Procs, task' = [task EXCEPT ![p] = Idle],
           \A g \in Files : lock'[g] = lock[g] \/ lock[g] = p,
           \A g \in Files : live'[g] = live[g] \/ (lock[g] = p /\ live'[g] \subseteq live[g])
    PROVE  KeyInv'
<1>1. \A q \in Procs : task'[q] = IF q = p THEN Idle ELSE task[q]
  BY DEF KeyInv, TypeInv, TypeOK
<1>2. \A q \in Procs : task[q].at = "writing" => task[q].file \in Files /\ lock[task[q].file] = q
  BY TaskType DEF KeyInv, TypeInv, TypeOK, WriterLocks
<1>3. WriterLocks' /\ WriterShrinks'
  BY <1>1, <1>2 DEF KeyInv, WriterLocks, WriterShrinks, Idle
<1>4. KeyUnique'
  BY DEF KeyInv, KeyUnique
<1>. QED BY <1>3, <1>4 DEF KeyInv

\* Exchanging a message for one with the same key keeps the keys unique.
LEMMA KeyExchange ==
    ASSUME KeyInv, NEW f \in Files, NEW m \in live[f], NEW n, n.key = m.key
    PROVE  UniqueKeys((live[f] \ {m}) \cup {n})
BY DEF KeyInv, KeyUnique, UniqueKeys

\* So does a successful enqueue of a message whose key is not live.
LEMMA KeyAppend ==
    ASSUME KeyInv, NEW f \in Files, NEW n, Append(f, n), ~Known(f, n.key), NEW g \in Files
    PROVE  live'[g] = live[g] \/ (g = f /\ UniqueKeys(live'[g]))
<1>1. CASE live' = [live EXCEPT ![f] = @ \cup {n}]
  <2>1. live'[g] = IF g = f THEN live[f] \cup {n} ELSE live[g]
    BY <1>1 DEF KeyInv, TypeInv, TypeOK
  <2>2. UniqueKeys(live[f] \cup {n})
    BY DEF KeyInv, KeyUnique, UniqueKeys, Known
  <2>. QED BY <2>1, <2>2
<1>2. CASE live' = live
  BY <1>2
<1>. QED BY <1>1, <1>2 DEF Append

\* Every step keeps the keys unique, in the files and in what is about to be written.
LEMMA KeyNext == ASSUME "requeue" \notin Calls, KeyInv, [Next]_vars PROVE KeyInv'
<1>. USE DEF files, history
<1>1. TypeInv'
  BY TypeNext DEF KeyInv
<1>2. ASSUME NEW p \in Procs, NEW t \in Topics, NEW k \in Keys \cup {NoKey}, Enqueue(p, t, k)
      PROVE  KeyInv'
  <2>1. FileOf[t] \in Files
    BY FileOfType
  <2>2. PICK n : n = NewMsg(stamp + 1, stamp + 1, t, k)
    OBVIOUS
  <2>3. n.key = k /\ ~Known(FileOf[t], n.key) /\ Append(FileOf[t], n) /\ CanLock(FileOf[t])
    BY <1>2, <2>2 DEF Enqueue, NewMsg
  <2>4. \A g \in Files : live'[g] = live[g] \/ (CanLock(g) /\ UniqueKeys(live'[g]))
    BY <2>1, <2>3, KeyAppend
  <2>. QED BY <1>1, <1>2, <2>4, KeyQuiet DEF Enqueue
<1>3. ASSUME NEW p \in Procs, NEW f \in Files, Consume(p, f) PROVE KeyInv'
  <2>1. PICK m \in live[f] : live' = [live EXCEPT ![f] = (@ \ {m}) \cup {Leased(m, p)}]
    BY <1>3 DEF Consume
  <2>2. Leased(m, p).key = m.key
    BY DEF Leased, KeyInv, TypeInv, TypeOK, Msg
  <2>3. \A g \in Files : live'[g] = IF g = f THEN (live[f] \ {m}) \cup {Leased(m, p)} ELSE live[g]
    BY <2>1 DEF KeyInv, TypeInv, TypeOK
  <2>4. \A g \in Files : live'[g] = live[g] \/ (CanLock(g) /\ UniqueKeys(live'[g]))
    BY <1>3, <2>2, <2>3, KeyExchange DEF Consume
  <2>. QED BY <1>1, <1>3, <2>4, KeyQuiet DEF Consume
<1>4. ASSUME NEW p \in Procs, NEW call \in {"ack", "nack", "fatal"}, Find(p, call)
      PROVE  KeyInv'
  <2>1. \A q \in Procs : task'[q] = task[q] \/ task'[q].at = "found"
    BY <1>4 DEF Find, Found, KeyInv, TypeInv, TypeOK
  <2>. QED BY <1>1, <1>4, <2>1, KeyQuiet DEF Find
<1>5. ASSUME NEW p \in Procs, FindMissing(p) PROVE KeyInv'
  BY <1>1, <1>5, KeyQuiet DEF FindMissing
<1>6. ASSUME NEW p \in Procs, FoundMoved(p) PROVE KeyInv'
  BY <1>1, <1>6, KeyEnds DEF FoundMoved
<1>7. ASSUME NEW p \in Procs, AckArchive(p) \/ NackDead(p) PROVE KeyInv'
  <2>. DEFINE f == task[p].file
  <2>1. f \in Files
    BY <1>7, TaskType DEF AckArchive, NackDead, KeyInv, TypeInv, TypeOK
  <2>2. PICK m \in live[f] : StartWrite(p, f, live[f] \ {m})
    BY <1>7 DEF AckArchive, NackDead
  <2>3. CanLock(f) /\ live' = live
    BY <1>7 DEF AckArchive, NackDead
  <2>. QED BY <1>1, <2>1, <2>2, <2>3, KeyBegins
<1>8. ASSUME NEW p \in Procs, NackRetry(p) PROVE KeyInv'
  <2>. DEFINE f == task[p].file
  <2>1. f \in Files
    BY <1>8, TaskType DEF NackRetry, KeyInv, TypeInv, TypeOK
  <2>2. PICK m \in live[f], d \in BOOLEAN :
           live' = [live EXCEPT ![f] = (@ \ {m}) \cup {Rescheduled(m, d)}]
    BY <1>8 DEF NackRetry
  <2>3. Rescheduled(m, d).key = m.key
    BY <2>1 DEF Rescheduled, KeyInv, TypeInv, TypeOK, Msg
  <2>4. \A g \in Files :
           live'[g] = IF g = f THEN (live[f] \ {m}) \cup {Rescheduled(m, d)} ELSE live[g]
    BY <2>1, <2>2 DEF KeyInv, TypeInv, TypeOK
  <2>5. \A q \in Procs : task'[q] = task[q] \/ task'[q].at = "idle"
    BY <1>8 DEF NackRetry, Idle, KeyInv, TypeInv, TypeOK
  <2>6. \A g \in Files : live'[g] = live[g] \/ (CanLock(g) /\ UniqueKeys(live'[g]))
    BY <1>8, <2>1, <2>3, <2>4, KeyExchange DEF NackRetry
  <2>. QED BY <1>1, <1>8, <2>5, <2>6, KeyQuiet DEF NackRetry
<1>9. ASSUME NEW p \in Procs, WriteTopic(p) PROVE KeyInv'
  <2>1. /\ task[p].file \in Files /\ lock[task[p].file] = p
        /\ task[p].msgs \subseteq live[task[p].file]
    BY <1>9, TaskType DEF WriteTopic, KeyInv, TypeInv, TypeOK, WriterLocks, WriterShrinks
  <2>2. /\ \A g \in Files : lock'[g] = lock[g] \/ lock[g] = p
        /\ \A g \in Files : live'[g] = live[g] \/ (lock[g] = p /\ live'[g] \subseteq live[g])
    BY <1>9, <2>1 DEF WriteTopic, KeyInv, TypeInv, TypeOK
  <2>. QED BY <1>1, <1>9, <2>2, KeyEnds DEF WriteTopic
<1>10. ASSUME NEW p \in Procs, WriteFails(p) PROVE KeyInv'
  <2>1. task[p].file \in Files /\ lock[task[p].file] = p
    BY <1>10, TaskType DEF WriteFails, KeyInv, TypeInv, TypeOK, WriterLocks
  <2>2. \A g \in Files : lock'[g] = lock[g] \/ lock[g] = p
    BY <1>10, <2>1 DEF WriteFails, KeyInv, TypeInv, TypeOK
  <2>. QED BY <1>1, <1>10, <2>2, KeyEnds DEF WriteFails
<1>11. ASSUME NEW p \in Procs, Crash(p) \/ ReplayFull(p) \/ ReplaceDlq(p) PROVE KeyInv'
  BY <1>1, <1>11, KeyEnds DEF Crash, ReplayFull, ReplaceDlq
<1>12. ASSUME NEW f \in Files, GcStale(f) PROVE KeyInv'
  <2>1. \A m \in live[f] : Recovered(m).key = m.key
    BY DEF Recovered, KeyInv, TypeInv, TypeOK, Msg
  <2>. DEFINE S == (live[f] \ Stale(f)) \cup {Recovered(m) : m \in Stale(f)}
  <2>2. \A g \in Files : live'[g] = IF g = f THEN S ELSE live[g]
    BY <1>12 DEF GcStale, KeyInv, TypeInv, TypeOK
  <2>3. \A n \in S : \E m \in live[f] :
            n.key = m.key /\ n = IF m \in Stale(f) THEN Recovered(m) ELSE m
    BY <2>1 DEF Stale
  <2>4. UniqueKeys(S)
    BY <2>3 DEF UniqueKeys, KeyInv, KeyUnique
  <2>. QED BY <1>1, <1>12, <2>2, <2>4, KeyQuiet DEF GcStale
<1>13. ASSUME NEW f \in Files, NEW m \in live[f], NEW aged, aged.key = m.key, Ages(f, m, aged)
       PROVE  KeyInv'
  <2>1. \A g \in Files : live'[g] = IF g = f THEN (live[f] \ {m}) \cup {aged} ELSE live[g]
    BY <1>13 DEF Ages, KeyInv, TypeInv, TypeOK
  <2>2. UniqueKeys((live[f] \ {m}) \cup {aged})
    BY <1>13, KeyExchange
  <2>. QED BY <1>1, <1>13, <2>1, <2>2, KeyQuiet DEF Ages
<1>14. ASSUME NEW f \in Files, LeaseAges(f) \/ BackoffElapses(f) \/ MessageAges(f)
       PROVE  KeyInv'
  <2>1. \A m \in live[f] : /\ [m EXCEPT !.lease = "stale"].key = m.key
                           /\ [m EXCEPT !.due = TRUE].key = m.key
                           /\ \A o : [m EXCEPT !.old = @ \/ o].key = m.key
    BY DEF KeyInv, TypeInv, TypeOK, Msg
  <2>2. CASE LeaseAges(f)
    BY <1>13, <2>1, <2>2 DEF LeaseAges
  <2>3. CASE BackoffElapses(f)
    BY <1>13, <2>1, <2>3 DEF BackoffElapses, Pending
  <2>4. CASE MessageAges(f)
    BY <1>13, <2>1, <2>4 DEF MessageAges
  <2>. QED BY <1>14, <2>2, <2>3, <2>4
<1>15. ASSUME UNCHANGED vars PROVE KeyInv'
  BY <1>1, <1>15, KeyQuiet DEF vars
<1>16. ASSUME NEW p \in Procs, NEW f \in Files, TtlSweep(p, f) PROVE KeyInv'
  <2>1. CanLock(f) /\ live' = live /\ \E S \in SUBSET live[f] : StartWrite(p, f, S)
    BY <1>16 DEF TtlSweep, Pending
  <2>. QED BY <1>1, <2>1, KeyBegins
<1>17. ASSUME NEW p \in Procs, ReadForReplay(p) \/ ReadForPurge(p) \/ RewriteDlq(p)
       PROVE  KeyInv'
  <2>1. live' = live /\ lock' = lock
    BY <1>17 DEF ReadForReplay, ReadForPurge, RewriteDlq
  <2>2. \A q \in Procs : task'[q] = task[q] \/ task'[q].at # "writing"
    BY <1>17 DEF ReadForReplay, ReadForPurge, RewriteDlq, Replaying, Replacing,
                 KeyInv, TypeInv, TypeOK
  <2>. QED BY <1>1, <2>1, <2>2, KeyQuiet
<1>18. ASSUME NEW p \in Procs, ReplayOne(p) PROVE KeyInv'
  <2>1. PICK e \in task[p].todo :
          /\ CanLock(FileOf[e.topic])
          /\ Append(FileOf[e.topic], NewMsg(stamp + 1, e.job, e.topic, NoKey))
          /\ task' = [task EXCEPT ![p] = Replaying(@.todo \ {e}, @.keep)]
    BY <1>18 DEF ReplayOne
  <2>2. FileOf[e.topic] \in Files
    BY <1>18, TaskType, FileOfType DEF ReplayOne, KeyInv, TypeInv, TypeOK, Entry
  <2>3. PICK n : n = NewMsg(stamp + 1, e.job, e.topic, NoKey)
    OBVIOUS
  <2>4. ~Known(FileOf[e.topic], n.key) /\ Append(FileOf[e.topic], n)
    BY <2>1, <2>3 DEF NewMsg, Known
  <2>5. \A g \in Files : live'[g] = live[g] \/ (CanLock(g) /\ UniqueKeys(live'[g]))
    BY <2>1, <2>2, <2>4, KeyAppend
  <2>6. \A q \in Procs : task'[q] = task[q] \/ task'[q].at # "writing"
    BY <2>1 DEF Replaying, KeyInv, TypeInv, TypeOK
  <2>. QED BY <1>1, <1>18, <2>5, <2>6, KeyQuiet DEF ReplayOne
<1>19. ASSUME NEW p \in Procs, NEW f \in Files PROVE ~RequeueDone(p, f)
  BY DEF RequeueDone
<1>20. ASSUME NEW p \in Procs, Step(p) PROVE KeyInv'
  BY <1>2, <1>3, <1>4, <1>5, <1>6, <1>7, <1>8, <1>9, <1>10, <1>11, <1>16, <1>17, <1>18,
     <1>19, <1>20 DEF Step, SettleStep
<1>21. ASSUME NEW f \in Files, Tick(f) PROVE KeyInv'
  BY <1>12, <1>14, <1>21 DEF Tick
<1>. QED BY <1>15, <1>20, <1>21 DEF Next

\* Two live messages of a topic never have the same idempotency key, unless an
\* archived message is requeued: requeue() does not look for its key.
THEOREM KeysUnique == ASSUME "requeue" \notin Calls PROVE Spec => []KeyUnique
<1>1. Init => KeyInv
  BY TypeInit DEF Init, KeyInv, WriterLocks, WriterShrinks, KeyUnique, Idle
<1>2. KeyInv /\ [Next]_vars => KeyInv'
  BY KeyNext
<1>3. KeyInv => KeyUnique
  BY DEF KeyInv
<1>. QED BY <1>1, <1>2, <1>3, PTL DEF Spec

=============================================================================
