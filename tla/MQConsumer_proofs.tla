-------------------------- MODULE MQConsumer_proofs --------------------------
(***************************************************************************)
(* Theorems about MQConsumer, for any number of consumers, topics,         *)
(* messages, signals and crashes.  What the calls of the queue keep is     *)
(* taken from the proofs about MessageQueue; here it is shown that the     *)
(* SIGTERM handler, which interrupts such a call, keeps it as well.        *)
(***************************************************************************)
EXTENDS MQConsumer, Delivery_proofs

\* The SIGTERM handler interrupts p.
Handles(p) == SigtermExit(p) \/ SigtermNack(p) \/ SigtermBlocks(p)

\* Consumers are processes, and they drain one file.
LEMMA ConsumerFacts ==
    /\ work \in Files
    /\ \A p \in Consumers : p \in Procs
    /\ MaxMessages \in Nat /\ MaxMessages >= 1 /\ MaxSignals \in Nat
BY ConsumerAssumption, FileOfType DEF work

\* A step of the consumers is a step of the queue, or leaves it alone, or is
\* the handler.
LEMMA ConsumerSteps ==
    ASSUME [ConsumerNext]_allVars PROVE [Next]_vars \/ \E p \in Consumers : Handles(p)
<1>1. ASSUME NEW p \in Procs, Step(p) PROVE Next
  BY <1>1 DEF Next
<1>2. ASSUME NEW f \in Files, GcStale(f) \/ LeaseAges(f) \/ BackoffElapses(f) PROVE Next
  BY <1>2 DEF Next, Tick
<1>3. CASE UNCHANGED allVars
  BY <1>3 DEF allVars, queue
<1>4. CASE Produce
  <2>1. PICK p \in Procs : Enqueue(p, Work, NoKey)
    BY <1>4 DEF Produce
  <2>2. Step(p)
    BY <2>1, ConsumerAssumption DEF Step
  <2>. QED BY <1>1, <2>2
<1>5. CASE Time
  BY <1>2, <1>5 DEF Time
<1>6. ASSUME NEW p \in Consumers,
             \/ Start(p) \/ Refuse(p) \/ Collected(p) \/ NoMessage(p) \/ RecordLease(p)
             \/ Fetch(p) \/ ProcessorReturns(p) \/ ProcessorRaises(p) \/ Count(p) \/ NackExit(p)
      PROVE  UNCHANGED vars
  BY <1>6 DEF Start, Refuse, Collected, NoMessage, RecordLease, Fetch, ProcessorReturns,
              ProcessorRaises, Count, NackExit, queue
<1>7. ASSUME NEW p \in Consumers, Collect(p) PROVE Next
  BY <1>2, <1>7 DEF Collect
<1>8. ASSUME NEW p \in Consumers, Receive(p) \/ Look(p) PROVE Next
  <2>1. Step(p)
    BY <1>8, ConsumerFacts DEF Receive, Look, Step, Calling
  <2>. QED BY <1>1, <2>1, ConsumerFacts
<1>9. ASSUME NEW p \in Consumers,
             FetchMissing(p) \/ FirstWrite(p) \/ AckTrue(p) \/ AckFails(p) \/ NackReturns(p) \/ Kill(p)
      PROVE  Next
  <2>1. Step(p)
    BY <1>9 DEF FetchMissing, FirstWrite, AckTrue, AckFails, NackReturns, Kill, Step, SettleStep
  <2>. QED BY <1>1, <2>1, ConsumerFacts
<1>. QED BY <1>3, <1>4, <1>5, <1>6, <1>7, <1>8, <1>9 DEF ConsumerNext, Loop, Handles

-----------------------------------------------------------------------------
(* What the handler does to the queue                                       *)

\* It abandons a call that is not between two writes, or takes a free lock, and
\* leaves the files as they are.
Interrupts ==
    /\ live' = live /\ done' = done /\ dlq' = dlq /\ dlqTmp' = dlqTmp
    /\ stamp' = stamp /\ crashes' = crashes
    /\ accepted' = accepted /\ delivered' = delivered /\ purged' = purged
    /\ \A q \in Procs : task'[q] = task[q] \/ (task[q].at # "writing" /\ task'[q] = Idle)
    /\ \A f \in Files : lock'[f] = lock[f] \/ lock[f] = NoProc

\* That is all it does.
LEMMA HandlerInterrupts ==
    ASSUME TypeInv, lease \in [Consumers -> Nat], NEW p \in Consumers, Handles(p)
    PROVE  Interrupts /\ TypeInv'
<1>. USE DEF files, history
<1>1. /\ task \in [Procs -> Task] /\ lock \in [Files -> Procs \cup {NoProc}]
      /\ held \in [Procs -> Nat] /\ p \in Procs /\ lease[p] \in Nat
  BY ConsumerFacts DEF TypeInv, TypeOK
<1>2. ASSUME live' = live, done' = done, dlq' = dlq, dlqTmp' = dlqTmp,
             stamp' = stamp, crashes' = crashes,
             accepted' = accepted, delivered' = delivered, purged' = purged,
             lock' \in [Files -> Procs \cup {NoProc}], held' \in [Procs -> Nat],
             task' = task \/ task' = [task EXCEPT ![p] = Idle]
      PROVE  TypeInv'
  <2>1. task' \in [Procs -> Task]
    BY <1>1, <1>2, TaskMake
  <2>2. TypeOK'
    BY <1>2, <2>1 DEF TypeInv, TypeOK
  <2>3. Finite'
    <3>1. \A q \in Procs : task'[q].at = "writing" => task'[q] = task[q]
      BY <1>1, <1>2 DEF Idle
    <3>. QED BY <1>2, <3>1 DEF TypeInv, Finite
  <2>. QED BY <2>2, <2>3 DEF TypeInv
<1>3. CASE SigtermExit(p)
  BY <1>1, <1>2, <1>3 DEF SigtermExit, Interrupts
<1>4. CASE SigtermNack(p)
  <2>1. /\ task[p].at # "writing" /\ task' = [task EXCEPT ![p] = Idle] /\ lock' = lock
        /\ held' = [held EXCEPT ![p] = lease[p]]
    BY <1>4 DEF SigtermNack
  <2>2. \A q \in Procs : task'[q] = task[q] \/ (task[q].at # "writing" /\ task'[q] = Idle)
    BY <1>1, <2>1
  <2>. QED BY <1>1, <1>2, <1>4, <2>1, <2>2 DEF SigtermNack, Interrupts
<1>5. CASE SigtermBlocks(p)
  <2>1. lock' = lock \/ \E f \in Files : lock[f] = NoProc /\ lock' = [lock EXCEPT ![f] = p]
    BY <1>5 DEF SigtermBlocks, CanLock
  <2>2. /\ lock' \in [Files -> Procs \cup {NoProc}]
        /\ \A f \in Files : lock'[f] = lock[f] \/ lock[f] = NoProc
    BY <1>1, <2>1
  <2>. QED BY <1>1, <1>2, <1>5, <2>2 DEF SigtermBlocks, Interrupts
<1>. QED BY <1>3, <1>4, <1>5 DEF Handles

\* A process between two writes keeps its lock and its call.
LEMMA WritersStay ==
    ASSUME TypeInv, WriterLocks, Interrupts
    PROVE  /\ WriterLocks'
           /\ \A p \in Procs : task[p].at = "writing" => task'[p] = task[p]
           /\ \A p \in Procs : task'[p] = task[p] \/ task'[p].at = "idle"
<1>1. \A p \in Procs : task[p].at = "writing" => task[p].file \in Files
  BY TaskType DEF TypeInv, TypeOK
<1>. QED BY <1>1, QueueAssumption DEF WriterLocks, Interrupts, Idle

\* The handler settles nothing and moves no id.
LEMMA HandlerOnce == ASSUME OnceInv, TypeInv', Interrupts PROVE OnceInv'
<1>1. /\ WriterLocks'
      /\ \A p \in Procs : task[p].at = "writing" => task'[p] = task[p]
      /\ \A p \in Procs : task'[p] = task[p] \/ task'[p].at = "idle"
  BY WritersStay DEF OnceInv
<1>2. /\ \A f, i : Archived(f, i)' <=> Archived(f, i)
      /\ \A p \in Procs : \A f : Writes(p, f)' <=> Writes(p, f)
      /\ \A p \in Procs : \A f : Writes(p, f) => task'[p] = task[p]
      /\ \A i : Dead(i)' => Dead(i)
  BY <1>1 DEF Interrupts, Archived, Writes, Dead
<1>3. \A f \in Files : \A i : Here(f, i)' => Here(f, i)
  BY <1>2 DEF Interrupts, Here
<1>4. IdsPlaced'
  BY <1>2, <1>3 DEF Interrupts, OnceInv, IdsPlaced
<1>5. ASSUME crashes = 0 PROVE Clean'
  BY <1>2, <1>5 DEF Interrupts, OnceInv, Clean
<1>. QED BY <1>1, <1>4, <1>5 DEF Interrupts, OnceInv

\* The handler is a stutter of the abstract queue.
LEMMA HandlerSafe == ASSUME SafeInv, TypeInv', Interrupts PROVE SafeInv' /\ Simulates
<1>1. /\ WriterLocks'
      /\ \A p \in Procs : task[p].at = "writing" => task'[p] = task[p]
      /\ \A p \in Procs : task'[p] = task[p] \/ task'[p].at = "idle"
  BY WritersStay DEF SafeInv
<1>2. /\ \A j : IsSettled(j)' <=> IsSettled(j)
      /\ \A j : IsLive(j)' <=> IsLive(j)
  BY DEF Interrupts, IsSettled, IsLive
<1>3. NoDlqCall' /\ WriterSettled'
  BY <1>1, <1>2 DEF Interrupts, SafeInv, NoDlqCall, WriterSettled
<1>4. JobsKept'
  BY <1>2 DEF Interrupts, SafeInv, JobsKept
<1>5. SafeInv'
  BY <1>1, <1>3, <1>4 DEF SafeInv
<1>. QED BY <1>2, <1>5, Stutters DEF Interrupts

\* The handler leaves the messages and their keys alone.
LEMMA HandlerKeys == ASSUME KeyInv, TypeInv', Interrupts PROVE KeyInv'
<1>1. /\ WriterLocks'
      /\ \A p \in Procs : task[p].at = "writing" => task'[p] = task[p]
      /\ \A p \in Procs : task'[p] = task[p] \/ task'[p].at = "idle"
  BY WritersStay DEF KeyInv
<1>2. WriterShrinks' /\ KeyUnique'
  BY <1>1 DEF Interrupts, KeyInv, WriterShrinks, KeyUnique
<1>. QED BY <1>1, <1>2 DEF KeyInv

-----------------------------------------------------------------------------
(* Where a consumer stands                                                  *)

Standings == {"off", "gc", "poll", "got", "blocked"} \cup Busy

ControlTypes ==
    /\ pc \in [Consumers -> Standings]
    /\ lease \in [Consumers -> Nat]
    /\ processed \in [Consumers -> 0..MaxMessages]
    /\ result \in [Consumers -> {0, 1, 2, 3, 9}]
    /\ signals \in 0..MaxSignals
    /\ ran \subseteq Nat
    /\ acks \in [Consumers -> 0..MaxMessages]

\* What a consumer holds and records, and the call it is in, where main() stands;
\* ack() is called only for a message the processor has returned for.
Stands(p) ==
    /\ pc[p] \in {"off", "gc", "poll", "acked", "nacked"} => held[p] = 0
    /\ pc[p] \in {"off", "gc", "poll", "got"} => lease[p] = 0
    /\ pc[p] = "got" => held[p] # 0
    /\ pc[p] \in {"fetch", "work"} \cup Calling => lease[p] # 0
    /\ pc[p] \in {"fetch", "work"} => held[p] = lease[p]
    /\ pc[p] \in Calling => held[p] \in {0, lease[p]}
    /\ pc[p] \notin Calling \cup {"blocked"} => task[p] = Idle
    /\ pc[p] = "ack" => lease[p] \in ran
    /\ pc[p] = "ack" /\ task[p].at = "found" => task[p].call = "ack"
    /\ pc[p] \in {"nack", "term"} /\ task[p].at = "found" => task[p].call # "ack"
    /\ task[p].at = "writing" => held[p] = 0
    /\ task[p].at \in {"idle", "found", "writing"}

\* A message that was acked and is not counted yet is at most one.
Tallies(p) ==
    /\ pc[p] # "off" => processed[p] < MaxMessages
    /\ pc[p] \notin {"off", "acked", "term", "blocked"} => acks[p] =< processed[p]
    /\ pc[p] \in {"acked", "term", "blocked"} => acks[p] =< processed[p] + 1

ControlInv == ControlTypes /\ \A p \in Consumers : Stands(p) /\ Tallies(p)

\* What belongs to one consumer.
Same(q) ==
    /\ pc'[q] = pc[q] /\ lease'[q] = lease[q] /\ held'[q] = held[q] /\ task'[q] = task[q]
    /\ processed'[q] = processed[q] /\ acks'[q] = acks[q]

\* A consumer that takes no part in a step stands where it stood.
LEMMA OthersStand ==
    ASSUME NEW q \in Consumers, Stands(q), Tallies(q), Same(q), ran \subseteq ran'
    PROVE  Stands(q)' /\ Tallies(q)'
BY DEF Stands, Tallies, Same

\* A step of one consumer keeps the control, if it keeps the consumer's own.
LEMMA OneMoves ==
    ASSUME ControlInv, NEW p \in Consumers, ControlTypes', ran \subseteq ran',
           \A q \in Consumers : q # p => Same(q), Stands(p)', Tallies(p)'
    PROVE  ControlInv'
BY OthersStand DEF ControlInv

\* A step of nobody keeps it.
LEMMA NobodyMoves ==
    ASSUME ControlInv, UNCHANGED state, \A q \in Consumers : task'[q] = task[q] /\ held'[q] = held[q]
    PROVE  ControlInv'
<1>1. ControlTypes' /\ ran \subseteq ran' /\ \A q \in Consumers : Same(q)
  BY DEF ControlInv, ControlTypes, state, Same
<1>. QED BY <1>1, OthersStand DEF ControlInv

\* Goto, Exit and Counted, member by member.
LEMMA GotoStep ==
    ASSUME ControlTypes, NEW p \in Consumers, NEW l \in Standings, Goto(p, l)
    PROVE  /\ ControlTypes' /\ ran' = ran
           /\ pc'[p] = l /\ lease'[p] = lease[p]
           /\ processed'[p] = processed[p] /\ acks'[p] = acks[p]
           /\ \A q \in Consumers : q # p =>
                 /\ pc'[q] = pc[q] /\ lease'[q] = lease[q]
                 /\ processed'[q] = processed[q] /\ acks'[q] = acks[q]
BY DEF ControlTypes, Goto

\* A consumer that exits holds no lease and starts from "off".
LEMMA ExitStep ==
    ASSUME ControlTypes, NEW p \in Consumers, NEW code \in {0, 1, 2, 3, 9}, Exit(p, code)
    PROVE  /\ ControlTypes' /\ ran' = ran
           /\ pc'[p] = "off" /\ lease'[p] = 0
           /\ processed'[p] = processed[p] /\ acks'[p] = acks[p]
           /\ \A q \in Consumers : q # p =>
                 /\ pc'[q] = pc[q] /\ lease'[q] = lease[q]
                 /\ processed'[q] = processed[q] /\ acks'[q] = acks[q]
BY DEF ControlTypes, Exit, Standings

\* A settled message is counted, and the last one ends the loop.
LEMMA CountedStep ==
    ASSUME ControlTypes, NEW p \in Consumers, processed[p] < MaxMessages, Counted(p),
           signals' = signals, ran' = ran, acks' = acks
    PROVE  /\ ControlTypes'
           /\ lease'[p] = 0 /\ processed'[p] = processed[p] + 1 /\ acks'[p] = acks[p]
           /\ \/ pc'[p] = "gc" /\ processed[p] + 1 < MaxMessages
              \/ pc'[p] = "off"
           /\ \A q \in Consumers : q # p =>
                 /\ pc'[q] = pc[q] /\ lease'[q] = lease[q]
                 /\ processed'[q] = processed[q] /\ acks'[q] = acks[q]
<1>1. processed[p] + 1 \in 0..MaxMessages
  BY ConsumerFacts DEF ControlTypes
<1>. QED BY <1>1 DEF ControlTypes, Counted, Standings

\* The calls of the queue, for the process that makes them.
LEMMA OwnCall ==
    ASSUME TypeInv, NEW p \in Procs, NEW q \in Procs, q # p, Step(p)
    PROVE  task'[q] = task[q] /\ held'[q] = held[q]
<1>. USE DEF TypeInv, TypeOK, StartWrite
<1>1. ASSUME NEW t \in Topics, NEW k \in Keys \cup {NoKey}, Enqueue(p, t, k)
      PROVE  task'[q] = task[q] /\ held'[q] = held[q]
  BY <1>1 DEF Enqueue
<1>2. ASSUME NEW f \in Files, Consume(p, f) \/ TtlSweep(p, f) \/ RequeueDone(p, f)
      PROVE  task'[q] = task[q] /\ held'[q] = held[q]
  BY <1>2 DEF Consume, TtlSweep, RequeueDone
<1>3. ASSUME NEW call \in {"ack", "nack", "fatal"}, Find(p, call)
      PROVE  task'[q] = task[q] /\ held'[q] = held[q]
  BY <1>3 DEF Find
<1>4. ASSUME FindMissing(p) \/ SettleStep(p)
      PROVE  task'[q] = task[q] /\ held'[q] = held[q]
  BY <1>4 DEF FindMissing, SettleStep, AckArchive, NackRetry, NackDead, FoundMoved
<1>5. ASSUME WriteTopic(p) \/ WriteFails(p) \/ Crash(p)
      PROVE  task'[q] = task[q] /\ held'[q] = held[q]
  BY <1>5 DEF WriteTopic, WriteFails, Crash
<1>6. ASSUME \/ ReadForReplay(p) \/ ReadForPurge(p) \/ ReplayOne(p) \/ ReplayFull(p)
             \/ RewriteDlq(p) \/ ReplaceDlq(p)
      PROVE  task'[q] = task[q] /\ held'[q] = held[q]
  BY <1>6 DEF ReadForReplay, ReadForPurge, ReplayOne, ReplayFull, RewriteDlq, ReplaceDlq
<1>. QED BY <1>1, <1>2, <1>3, <1>4, <1>5, <1>6 DEF Step

\* A call that a consumer makes in place, by what becomes of it.
LEMMA CallStands ==
    ASSUME TypeInv, ControlInv, NEW p \in Consumers, Step(p), UNCHANGED state, Stands(p)'
    PROVE  ControlInv'
<1>1. \A q \in Consumers : q # p => Same(q)
  BY OwnCall, ConsumerFacts DEF state, Same
<1>2. ControlTypes' /\ ran \subseteq ran' /\ Tallies(p)'
  BY DEF ControlInv, ControlTypes, state, Tallies
<1>. QED BY <1>1, <1>2, OneMoves

\* Every step of the queue calls, the loop and the handler keeps the control.
LEMMA ControlStart ==
    ASSUME ControlInv, NEW p \in Consumers, Start(p) \/ Refuse(p) PROVE ControlInv'
<1>. USE DEF files, history, queue, vars, ControlInv, ControlTypes
<1>1. held' = held /\ task' = task /\ lease' = lease /\ ran' = ran /\ signals' = signals
  BY DEF Start, Refuse
<1>2. /\ processed' = [processed EXCEPT ![p] = 0] /\ acks' = [acks EXCEPT ![p] = 0]
      /\ pc[p] = "off" /\ pc' \in {pc, [pc EXCEPT ![p] = "gc"]}
      /\ result' \in {[result EXCEPT ![p] = 9], [result EXCEPT ![p] = 3]}
  BY DEF Start, Refuse
<1>3. 0 \in 0..MaxMessages /\ 0 < MaxMessages
  BY ConsumerFacts
<1>4. ControlTypes'
  BY <1>1, <1>2, <1>3 DEF Standings
<1>5. \A q \in Consumers : q # p => Same(q)
  BY <1>1, <1>2 DEF Same
<1>6. /\ pc'[p] \in {"off", "gc"} /\ lease'[p] = 0 /\ held'[p] = 0 /\ task'[p] = Idle
      /\ processed'[p] = 0 /\ acks'[p] = 0
  BY <1>1, <1>2, <1>3 DEF Stands, Calling
<1>7. Stands(p)' /\ Tallies(p)'
  BY <1>3, <1>6 DEF Stands, Tallies, Calling, Idle
<1>. QED BY <1>1, <1>4, <1>5, <1>7, OneMoves

\* The steps that go on without a call, and consume().
LEMMA ControlGoes ==
    ASSUME OnceInv, ControlInv, NEW p \in Consumers,
           Collected(p) \/ Receive(p) \/ Fetch(p) \/ ProcessorRaises(p)
    PROVE  ControlInv'
<1>. USE DEF files, history, queue, vars
<1>0. TypeInv /\ p \in Procs /\ work \in Files
  BY ConsumerFacts DEF OnceInv
<1>1. PICK l \in Standings :
        /\ Goto(p, l)
        /\ \/ pc[p] = "gc" /\ l = "poll"
           \/ pc[p] = "poll" /\ l = "got"
           \/ pc[p] = "fetch" /\ l = "work"
           \/ pc[p] = "work" /\ l = "nack"
        /\ task' = task
        /\ l = "got" => Consume(p, work)
        /\ l # "got" => held' = held
  <2>1. {"poll", "got", "work", "nack"} \subseteq Standings
    BY DEF Standings, Busy, Calling
  <2>2. CASE Collected(p)
    BY <2>1, <2>2 DEF Collected
  <2>3. CASE Receive(p)
    BY <2>1, <2>3 DEF Receive, Consume
  <2>4. CASE Fetch(p)
    BY <2>1, <2>4 DEF Fetch
  <2>5. CASE ProcessorRaises(p)
    BY <2>1, <2>5 DEF ProcessorRaises
  <2>. QED BY <2>2, <2>3, <2>4, <2>5
<1>2. /\ ControlTypes' /\ ran' = ran
      /\ pc'[p] = l /\ lease'[p] = lease[p]
      /\ processed'[p] = processed[p] /\ acks'[p] = acks[p]
      /\ \A q \in Consumers : q # p =>
            /\ pc'[q] = pc[q] /\ lease'[q] = lease[q]
            /\ processed'[q] = processed[q] /\ acks'[q] = acks[q]
  BY <1>1, GotoStep DEF ControlInv
<1>3. \A q \in Consumers : q # p => Same(q)
  <2>1. \A q \in Consumers : q # p => held'[q] = held[q]
    BY <1>0, <1>1, ConsumerFacts DEF Consume, TypeInv, TypeOK
  <2>. QED BY <1>1, <1>2, <2>1 DEF Same
<1>4. Tallies(p)'
  BY <1>1, <1>2 DEF ControlInv, Tallies
<1>5. l = "got" => held'[p] # 0
  <2>. SUFFICES ASSUME l = "got" PROVE held'[p] # 0
    OBVIOUS
  <2>1. PICK m \in live[work] : held' = [held EXCEPT ![p] = m.id]
    BY <1>1 DEF Consume
  <2>2. m.id # 0
    BY <1>0 DEF OnceInv, IdsPlaced, Here
  <2>. QED BY <1>0, <2>1, <2>2 DEF TypeInv, TypeOK
<1>6. Stands(p)'
  BY <1>1, <1>2, <1>5 DEF ControlInv, Stands, Calling, Idle
<1>. QED BY <1>2, <1>3, <1>4, <1>6, OneMoves

\* The steps that end a run.
LEMMA ControlExits ==
    ASSUME TypeInv, ControlInv, NEW p \in Consumers,
           NoMessage(p) \/ AckFails(p) \/ NackExit(p) \/ Kill(p)
    PROVE  ControlInv'
<1>. USE DEF files, history, queue, vars
<1>1. PICK code \in {0, 1, 2, 3, 9} : Exit(p, code)
  BY DEF NoMessage, AckFails, NackExit, Kill
<1>2. /\ ControlTypes' /\ ran' = ran
      /\ pc'[p] = "off" /\ lease'[p] = 0
      /\ processed'[p] = processed[p] /\ acks'[p] = acks[p]
      /\ \A q \in Consumers : q # p =>
            /\ pc'[q] = pc[q] /\ lease'[q] = lease[q]
            /\ processed'[q] = processed[q] /\ acks'[q] = acks[q]
  BY <1>1, ExitStep DEF ControlInv
<1>3. /\ held'[p] = 0 /\ task'[p] = Idle
      /\ \A q \in Consumers : q # p => task'[q] = task[q] /\ held'[q] = held[q]
  <2>1. p \in Procs /\ Stands(p) /\ held \in [Procs -> Nat] /\ task \in [Procs -> Task]
        /\ \A q \in Consumers : q \in Procs
    BY ConsumerFacts DEF ControlInv, TypeInv, TypeOK
  <2>2. CASE NoMessage(p) \/ NackExit(p)
    BY <2>1, <2>2 DEF NoMessage, NackExit, Stands, Calling
  <2>3. CASE AckFails(p)
    <3>1. CASE FindMissing(p) \/ FoundMoved(p)
      BY <2>1, <3>1 DEF FindMissing, FoundMoved
    <3>2. CASE WriteFails(p)
      BY <2>1, <3>2 DEF WriteFails, Stands
    <3>. QED BY <2>3, <3>1, <3>2 DEF AckFails
  <2>4. CASE Kill(p)
    BY <2>1, <2>4 DEF Kill, Crash
  <2>. QED BY <2>2, <2>3, <2>4
<1>4. \A q \in Consumers : q # p => Same(q)
  BY <1>2, <1>3 DEF Same
<1>5. Stands(p)' /\ Tallies(p)'
  BY <1>2, <1>3 DEF Stands, Tallies, Calling, Idle
<1>. QED BY <1>2, <1>4, <1>5, OneMoves

\* The steps that count a message.
LEMMA ControlCounts ==
    ASSUME TypeInv, ControlInv, NEW p \in Consumers, FetchMissing(p) \/ Count(p)
    PROVE  ControlInv'
<1>. USE DEF files, history, queue, vars
<1>1. /\ Counted(p) /\ signals' = signals /\ ran' = ran /\ acks' = acks
      /\ pc[p] \in {"fetch", "acked"} /\ (pc[p] = "fetch" => FindMissing(p))
      /\ pc[p] = "acked" => held' = held /\ task' = task
  BY DEF FetchMissing, Count
<1>2. processed[p] < MaxMessages
  BY <1>1 DEF ControlInv, Tallies
<1>3. /\ ControlTypes'
      /\ lease'[p] = 0 /\ processed'[p] = processed[p] + 1 /\ acks'[p] = acks[p]
      /\ \/ pc'[p] = "gc" /\ processed[p] + 1 < MaxMessages
         \/ pc'[p] = "off"
      /\ \A q \in Consumers : q # p =>
            /\ pc'[q] = pc[q] /\ lease'[q] = lease[q]
            /\ processed'[q] = processed[q] /\ acks'[q] = acks[q]
  BY <1>1, <1>2, CountedStep DEF ControlInv
<1>4. /\ held'[p] = 0 /\ task'[p] = Idle
      /\ \A q \in Consumers : q # p => task'[q] = task[q] /\ held'[q] = held[q]
  <2>1. p \in Procs /\ Stands(p) /\ held \in [Procs -> Nat] /\ \A q \in Consumers : q \in Procs
    BY ConsumerFacts DEF ControlInv, TypeInv, TypeOK
  <2>. QED BY <1>1, <2>1 DEF FindMissing, Stands, Calling
<1>5. \A q \in Consumers : q # p => Same(q)
  BY <1>3, <1>4 DEF Same
<1>6. Tallies(p)'
  <2>1. processed[p] \in Nat /\ acks[p] \in Nat
    BY ConsumerFacts DEF ControlInv, ControlTypes
  <2>. QED BY <1>1, <1>3, <2>1 DEF ControlInv, Tallies
<1>7. Stands(p)'
  BY <1>3, <1>4 DEF Stands, Calling, Idle
<1>. QED BY <1>1, <1>3, <1>5, <1>6, <1>7, OneMoves

\* The other steps of the loop.
LEMMA ControlLoop ==
    ASSUME TypeInv, ControlInv, NEW p \in Consumers,
           \/ RecordLease(p) \/ ProcessorReturns(p) \/ AckTrue(p)
           \/ Look(p) \/ FirstWrite(p) \/ NackReturns(p)
    PROVE  ControlInv'
<1>. USE DEF files, history, queue, vars
<1>1. /\ p \in Procs /\ Stands(p) /\ Tallies(p)
      /\ held \in [Procs -> Nat] /\ task \in [Procs -> Task]
      /\ \A q \in Consumers : q \in Procs
  BY ConsumerFacts DEF ControlInv, TypeInv, TypeOK
<1>2. CASE RecordLease(p)
  <2>1. ControlTypes'
    BY <1>1, <1>2 DEF RecordLease, ControlInv, ControlTypes, Standings, Busy
  <2>2. \A q \in Consumers : q # p => Same(q)
    BY <1>2 DEF RecordLease, Same, ControlInv, ControlTypes
  <2>3. /\ pc'[p] = "fetch" /\ lease'[p] = held[p] /\ held'[p] = held[p] /\ task'[p] = Idle
        /\ processed'[p] = processed[p] /\ acks'[p] = acks[p] /\ ran' = ran /\ pc[p] = "got"
    BY <1>1, <1>2 DEF RecordLease, Stands, Calling, ControlInv, ControlTypes
  <2>4. Stands(p)' /\ Tallies(p)'
    BY <1>1, <2>3 DEF Stands, Tallies, Calling, Idle
  <2>. QED BY <2>1, <2>2, <2>3, <2>4, OneMoves
<1>3. CASE ProcessorReturns(p)
  <2>1. ControlTypes'
    BY <1>1, <1>3 DEF ProcessorReturns, ControlInv, ControlTypes, Standings, Busy, Calling
  <2>2. \A q \in Consumers : q # p => Same(q)
    BY <1>3 DEF ProcessorReturns, Same, ControlInv, ControlTypes
  <2>3. /\ pc'[p] = "ack" /\ lease'[p] = lease[p] /\ held'[p] = held[p] /\ task'[p] = Idle
        /\ processed'[p] = processed[p] /\ acks'[p] = acks[p] /\ ran' = ran \cup {lease[p]}
        /\ pc[p] = "work"
    BY <1>1, <1>3 DEF ProcessorReturns, Stands, Calling, ControlInv, ControlTypes
  <2>4. Stands(p)' /\ Tallies(p)'
    BY <1>1, <2>3 DEF Stands, Tallies, Calling, Idle
  <2>. QED BY <2>1, <2>2, <2>3, <2>4, OneMoves
<1>4. CASE AckTrue(p)
  <2>1. acks[p] + 1 \in 0..MaxMessages
    BY <1>1, <1>4, ConsumerFacts DEF AckTrue, Tallies, ControlInv, ControlTypes
  <2>2. ControlTypes'
    BY <1>4, <2>1 DEF AckTrue, ControlInv, ControlTypes, Standings, Busy
  <2>3. \A q \in Consumers : q # p => Same(q)
    BY <1>1, <1>4 DEF AckTrue, WriteTopic, Same, ControlInv, ControlTypes
  <2>4. /\ pc'[p] = "acked" /\ lease'[p] = lease[p] /\ held'[p] = 0 /\ task'[p] = Idle
        /\ processed'[p] = processed[p] /\ acks'[p] = acks[p] + 1 /\ ran' = ran /\ pc[p] = "ack"
    BY <1>1, <1>4 DEF AckTrue, WriteTopic, Stands, ControlInv, ControlTypes
  <2>5. Stands(p)' /\ Tallies(p)'
    <3>1. processed[p] \in Nat /\ acks[p] \in Nat
      BY ConsumerFacts DEF ControlInv, ControlTypes
    <3>. QED BY <1>1, <2>4, <3>1 DEF Stands, Tallies, Calling, Idle
  <2>. QED BY <2>2, <2>3, <2>4, <2>5, OneMoves
<1>5. CASE Look(p)
  <2>1. Step(p)
    BY <1>5 DEF Look, Step
  <2>2. /\ pc' = pc /\ lease' = lease /\ ran' = ran /\ held' = held /\ pc[p] \in Calling
        /\ task'[p].at = "found" /\ task'[p].call = (IF pc[p] = "ack" THEN "ack" ELSE "nack")
    BY <1>1, <1>5 DEF Look, Find, Found, state
  <2>3. Stands(p)'
    BY <1>1, <2>2 DEF Stands, Calling
  <2>. QED BY <1>5, <2>1, <2>3, CallStands DEF Look
<1>6. CASE FirstWrite(p)
  <2>1. Step(p)
    BY <1>6 DEF FirstWrite, Step, SettleStep
  <2>2. /\ pc' = pc /\ lease' = lease /\ ran' = ran /\ held'[p] = 0 /\ pc[p] \in Calling
        /\ task'[p].at = "writing"
    BY <1>1, <1>6 DEF FirstWrite, AckArchive, NackDead, StartWrite, Writing, state
  <2>3. Stands(p)'
    BY <1>1, <2>2 DEF Stands, Calling
  <2>. QED BY <1>6, <2>1, <2>3, CallStands DEF FirstWrite
<1>7. CASE NackReturns(p)
  <2>1. /\ held'[p] = 0 /\ task'[p] = Idle
        /\ \A q \in Consumers : q # p => task'[q] = task[q] /\ held'[q] = held[q]
    <3>1. CASE NackRetry(p) \/ FoundMoved(p)
      BY <1>1, <3>1 DEF NackRetry, FoundMoved
    <3>2. CASE WriteTopic(p) \/ WriteFails(p)
      BY <1>1, <3>2 DEF WriteTopic, WriteFails, Stands
    <3>3. CASE FindMissing(p)
      BY <1>1, <3>3 DEF FindMissing
    <3>. QED BY <1>7, <3>1, <3>2, <3>3 DEF NackReturns
  <2>2. CASE pc[p] = "nack"
    <3>1. Goto(p, "nacked") /\ "nacked" \in Standings
      BY <1>7, <2>2 DEF NackReturns, Standings, Busy
    <3>2. /\ ControlTypes' /\ ran' = ran
          /\ pc'[p] = "nacked" /\ lease'[p] = lease[p]
          /\ processed'[p] = processed[p] /\ acks'[p] = acks[p]
          /\ \A q \in Consumers : q # p =>
                /\ pc'[q] = pc[q] /\ lease'[q] = lease[q]
                /\ processed'[q] = processed[q] /\ acks'[q] = acks[q]
      BY <3>1, GotoStep DEF ControlInv
    <3>3. Stands(p)' /\ Tallies(p)'
      BY <1>1, <2>1, <2>2, <3>2 DEF Stands, Tallies, Calling, Idle
    <3>. QED BY <2>1, <3>2, <3>3, OneMoves DEF Same
  <2>3. CASE pc[p] = "term"
    <3>1. Exit(p, 0)
      BY <1>7, <2>3 DEF NackReturns
    <3>2. /\ ControlTypes' /\ ran' = ran
          /\ pc'[p] = "off" /\ lease'[p] = 0
          /\ processed'[p] = processed[p] /\ acks'[p] = acks[p]
          /\ \A q \in Consumers : q # p =>
                /\ pc'[q] = pc[q] /\ lease'[q] = lease[q]
                /\ processed'[q] = processed[q] /\ acks'[q] = acks[q]
      BY <3>1, ExitStep DEF ControlInv
    <3>3. Stands(p)' /\ Tallies(p)'
      BY <2>1, <3>2 DEF Stands, Tallies, Calling, Idle
    <3>. QED BY <2>1, <3>2, <3>3, OneMoves DEF Same
  <2>. QED BY <1>7, <2>2, <2>3 DEF NackReturns
<1>. QED BY <1>2, <1>3, <1>4, <1>5, <1>6, <1>7

\* The handler, wherever it interrupts the consumer.
LEMMA ControlHandles ==
    ASSUME TypeInv, ControlInv, NEW p \in Consumers, Handles(p) PROVE ControlInv'
<1>. USE DEF files, history, queue, vars
<1>1. /\ p \in Procs /\ Stands(p) /\ Tallies(p)
      /\ held \in [Procs -> Nat] /\ task \in [Procs -> Task] /\ lease[p] \in Nat
      /\ \A q \in Consumers : q \in Procs
  BY ConsumerFacts DEF ControlInv, ControlTypes, TypeInv, TypeOK
<1>2. /\ pc[p] \notin {"off", "blocked"} /\ signals' \in 0..MaxSignals
      /\ processed' = processed /\ ran' = ran /\ acks' = acks /\ lease' = lease
  BY ConsumerFacts
  DEF Handles, SigtermExit, SigtermNack, SigtermBlocks, Signal, ControlInv, ControlTypes
<1>3. PICK l \in {"off", "term", "blocked"} :
        /\ pc' = [pc EXCEPT ![p] = l]
        /\ l = "off" => held' = [held EXCEPT ![p] = 0] /\ task' = task /\ lease[p] = 0
                        /\ result' = [result EXCEPT ![p] = 0]
        /\ l = "term" => held' = [held EXCEPT ![p] = lease[p]]
                         /\ task' = [task EXCEPT ![p] = Idle] /\ result' = result
                         /\ lease[p] # 0
        /\ l = "blocked" => held' = held /\ task' = task /\ result' = result
  BY DEF Handles, SigtermExit, SigtermNack, SigtermBlocks
<1>4. ControlTypes'
  BY <1>2, <1>3 DEF ControlInv, ControlTypes, Standings, Busy, Calling
<1>5. \A q \in Consumers : q # p => Same(q)
  BY <1>1, <1>2, <1>3 DEF Same, ControlInv, ControlTypes
<1>6. pc'[p] = l
  BY <1>3 DEF ControlInv, ControlTypes
<1>7. Tallies(p)'
  <2>1. processed[p] \in Nat /\ acks[p] \in Nat
    BY ConsumerFacts DEF ControlInv, ControlTypes
  <2>. QED BY <1>1, <1>2, <1>6, <2>1 DEF Tallies
<1>8. Stands(p)'
  <2>1. CASE l = "off"
    <3>1. pc[p] \notin Calling
      BY <1>1, <1>2, <1>3, <2>1 DEF Stands
    <3>. QED BY <1>1, <1>2, <1>3, <1>6, <2>1, <3>1 DEF Stands, Calling
  <2>2. CASE l = "term"
    BY <1>1, <1>2, <1>3, <1>6, <2>2 DEF Stands, Calling, Idle
  <2>3. CASE l = "blocked"
    BY <1>1, <1>2, <1>3, <1>6, <2>3 DEF Stands, Calling, Idle
  <2>. QED BY <1>3, <2>1, <2>2, <2>3
<1>. QED BY <1>2, <1>4, <1>5, <1>7, <1>8, OneMoves

\* Every step keeps the control.
LEMMA ControlNext ==
    ASSUME OnceInv, ControlInv, [ConsumerNext]_allVars PROVE ControlInv'
<1>. USE DEF files, history
<1>1. TypeInv
  BY DEF OnceInv
<1>2. CASE Produce
  <2>1. PICK p \in Procs \ Consumers : Enqueue(p, Work, NoKey) /\ UNCHANGED state
    BY <1>2 DEF Produce
  <2>. QED BY <2>1, NobodyMoves DEF Enqueue
<1>3. CASE Time
  BY <1>3, NobodyMoves DEF Time, LeaseAges, BackoffElapses, Ages
<1>4. CASE UNCHANGED allVars
  BY <1>4, NobodyMoves DEF allVars, queue, vars, state
<1>5. ASSUME NEW p \in Consumers, Collect(p) PROVE ControlInv'
  BY <1>5, NobodyMoves DEF Collect, GcStale
<1>6. ASSUME NEW p \in Consumers, Loop(p) PROVE ControlInv'
  BY <1>1, <1>5, <1>6, ControlGoes, ControlExits, ControlCounts, ControlLoop DEF Loop
<1>7. ASSUME NEW p \in Consumers, Start(p) \/ Refuse(p) \/ Handles(p) \/ Kill(p)
      PROVE  ControlInv'
  BY <1>1, <1>7, ControlStart, ControlHandles, ControlExits
<1>. QED BY <1>2, <1>3, <1>4, <1>6, <1>7 DEF ConsumerNext, Handles

\* Every step of the consumers keeps the ids in their places.
LEMMA ConsumerOnce ==
    ASSUME OnceInv, ControlInv, [ConsumerNext]_allVars PROVE OnceInv'
<1>1. CASE [Next]_vars
  BY <1>1, OnceNext
<1>2. ASSUME NEW p \in Consumers, Handles(p) PROVE OnceInv'
  <2>1. Interrupts /\ TypeInv'
    BY <1>2, HandlerInterrupts DEF OnceInv, ControlInv, ControlTypes
  <2>. QED BY <2>1, HandlerOnce
<1>. QED BY <1>1, <1>2, ConsumerSteps

\* Only ack() archives, and it does so for a message the processor has
\* returned for.
LEMMA ArchiveNext ==
    ASSUME OnceInv, ControlInv, ArchivedWasProcessed, [ConsumerNext]_allVars
    PROVE  ArchivedWasProcessed'
<1>. USE DEF files, history
<1>1. ASSUME done' = done, ran \subseteq ran' PROVE ArchivedWasProcessed'
  BY <1>1 DEF ArchivedWasProcessed
<1>2. ASSUME NEW p \in Consumers, FirstWrite(p), AckArchive(p) PROVE ArchivedWasProcessed'
  <2>1. task[p].file \in Files /\ p \in Procs /\ ran' = ran
    BY <1>2, ConsumerFacts, TaskType DEF FirstWrite, AckArchive, state, OnceInv, TypeInv, TypeOK
  <2>2. PICK m \in live[task[p].file] :
          m.id = held[p] /\ done' = [done EXCEPT ![task[p].file] = @ \cup {EntryOf(m)}]
    BY <1>2 DEF AckArchive, AtIndex
  <2>3. m.id # 0
    BY <2>1, <2>2 DEF OnceInv, IdsPlaced, Here
  <2>4. pc[p] = "ack" /\ task[p].at = "found"
    BY <1>2 DEF FirstWrite, AckArchive, ControlInv, Stands, Calling
  <2>5. m.id \in ran
    BY <2>2, <2>3, <2>4 DEF ControlInv, Stands, Calling
  <2>6. EntryOf(m).id = m.id
    BY DEF EntryOf
  <2>7. \A f \in Files : \A e \in done'[f] : e \in done[f] \/ e = EntryOf(m)
    BY <2>1, <2>2 DEF OnceInv, TypeInv, TypeOK
  <2>. QED BY <2>1, <2>5, <2>6, <2>7 DEF ArchivedWasProcessed, IdsOf
<1>3. ASSUME NEW p \in Consumers, FirstWrite(p), NackDead(p) PROVE ArchivedWasProcessed'
  BY <1>1, <1>3 DEF FirstWrite, NackDead, state
<1>4. ASSUME NEW p \in Consumers, Start(p) \/ Refuse(p) \/ Handles(p) \/ Kill(p)
      PROVE  ArchivedWasProcessed'
  BY <1>1, <1>4 DEF Start, Refuse, Handles, SigtermExit, SigtermNack, SigtermBlocks, Kill,
                    Crash, Exit, queue, vars
<1>5. ASSUME NEW p \in Consumers,
             \/ Collect(p) \/ Collected(p) \/ Receive(p) \/ NoMessage(p) \/ RecordLease(p)
             \/ Fetch(p) \/ ProcessorReturns(p) \/ ProcessorRaises(p)
      PROVE  ArchivedWasProcessed'
  BY <1>1, <1>5 DEF Collect, GcStale, Collected, Receive, Consume, NoMessage, RecordLease,
                    Fetch, ProcessorReturns, ProcessorRaises, Goto, Exit, queue, vars, state
<1>6. ASSUME NEW p \in Consumers,
             \/ FetchMissing(p) \/ Look(p) \/ AckTrue(p) \/ AckFails(p) \/ Count(p)
             \/ NackReturns(p) \/ NackExit(p)
      PROVE  ArchivedWasProcessed'
  <2>1. done' = done
    BY <1>6 DEF FetchMissing, FindMissing, Look, Find, AckTrue, WriteTopic, AckFails, FoundMoved,
                WriteFails, Count, NackReturns, NackRetry, NackExit, queue, vars
  <2>2. ran' = ran
    BY <1>6 DEF FetchMissing, Look, AckTrue, AckFails, Count, NackReturns, NackExit, Goto, Exit, state
  <2>. QED BY <1>1, <2>1, <2>2
<1>7. CASE Produce \/ Time \/ UNCHANGED allVars
  BY <1>1, <1>7 DEF Produce, Enqueue, Time, LeaseAges, BackoffElapses, Ages, allVars, queue,
                    vars, state
<1>8. ASSUME NEW p \in Consumers, Loop(p) PROVE ArchivedWasProcessed'
  BY <1>2, <1>3, <1>5, <1>6, <1>8 DEF Loop, FirstWrite
<1>. QED BY <1>4, <1>7, <1>8 DEF ConsumerNext, Handles

ConsumerInv == OnceInv /\ ControlInv /\ ArchivedWasProcessed

\* The consumers start with nothing.
LEMMA ControlInit == ASSUME ConsumerInit PROVE ControlInv /\ ArchivedWasProcessed
<1>1. 0 \in 0..MaxMessages /\ 0 \in 0..MaxSignals
  BY ConsumerFacts
<1>2. ControlTypes
  BY <1>1 DEF ConsumerInit, ControlTypes, Standings
<1>3. \A p \in Consumers : pc[p] = "off" /\ lease[p] = 0 /\ held[p] = 0 /\ task[p] = Idle
  BY ConsumerFacts DEF ConsumerInit, Init
<1>4. \A p \in Consumers : Stands(p) /\ Tallies(p)
  BY <1>3 DEF Stands, Tallies, Calling, Idle
<1>5. ArchivedWasProcessed
  BY DEF ConsumerInit, Init, ArchivedWasProcessed, IdsOf
<1>. QED BY <1>2, <1>4, <1>5 DEF ControlInv

\* In a deployment without TTL sweeps, requeues, replays and purges the consumers
\* and their producers implement the abstract queue, too.
THEOREM ConsumersImplement == ASSUME Conservative PROVE ConsumerSpec => Implements
<1>. DEFINE Inv == ConsumerInv /\ SafeInv
<1>1. ConsumerInit => Inv /\ Promise!Init
  BY ControlInit, OnceInit, SafeInit, MapInit DEF ConsumerInit, ConsumerInv
<1>2. Inv /\ [ConsumerNext]_allVars => Inv' /\ [Promise!Next]_(Promise!vars)
  <2>. SUFFICES ASSUME Inv, [ConsumerNext]_allVars PROVE Inv' /\ Simulates
    BY DEF Simulates
  <2>1. ConsumerInv'
    BY ControlNext, ConsumerOnce, ArchiveNext DEF ConsumerInv
  <2>2. CASE [Next]_vars
    BY <2>1, <2>2, SafeNext
  <2>3. ASSUME NEW p \in Consumers, Handles(p) PROVE Inv' /\ Simulates
    <3>1. Interrupts /\ TypeInv'
      BY <2>3, HandlerInterrupts DEF ConsumerInv, OnceInv, ControlInv, ControlTypes
    <3>. QED BY <2>1, <3>1, HandlerSafe
  <2>. QED BY <2>2, <2>3, ConsumerSteps
<1>. QED BY <1>1, <1>2, PTL DEF ConsumerSpec, Implements, Promise!Spec

\* No accepted job is lost while consumers crash, are restarted and get signals:
\* it is so for whatever implements the abstract queue.
THEOREM ConsumersLoseNothing == ASSUME Conservative PROVE ConsumerSpec => []NoLoss
<1>1. Promise!Kept => NoLoss
  BY DEF Promise!Kept, NoLoss
<1>. QED BY <1>1, ConsumersImplement, PromiseKept, PTL

-----------------------------------------------------------------------------
(* Two consumers on one message                                             *)

\* p works on message i, or its handler would give it up.
Claims(p, i) == held[p] = i \/ (p \in Consumers /\ lease[p] = i)

\* A message nobody gave up is claimed by one process when it is in flight, and
\* by none when it is pending.
FirstClaim ==
    /\ \A f \in Files : \A m \in live[f] : m.retries = 0 =>
         /\ m.status = "pending" => \A p \in Procs : ~Claims(p, m.id)
         /\ \A p, q \in Procs : Claims(p, m.id) /\ Claims(q, m.id) => p = q
    /\ \A p \in Consumers : lease[p] \in 0..stamp

\* A step that delivers nothing and adds no claim keeps that.
LEMMA ClaimsShrink ==
    ASSUME TypeInv, IdsUnique, FirstClaim,
           \A f \in Files : \A n \in live'[f] :
              \/ n.retries # 0
              \/ \E m \in live[f] : n.id = m.id /\ n.status = m.status /\ n.retries = m.retries
              \/ n.id = stamp + 1,
           \A p \in Procs : \A i : Claims(p, i)' => Claims(p, i) \/ i = 0,
           \A f \in Files : \A n \in live'[f] : n.id # 0
    PROVE  \A f \in Files : \A m \in live'[f] : m.retries = 0 =>
              /\ m.status = "pending" => \A p \in Procs : ~Claims(p, m.id)'
              /\ \A p, q \in Procs : Claims(p, m.id)' /\ Claims(q, m.id)' => p = q
<1>. SUFFICES ASSUME NEW f \in Files, NEW n \in live'[f], n.retries = 0
              PROVE  /\ n.status = "pending" => \A p \in Procs : ~Claims(p, n.id)'
                     /\ \A p, q \in Procs : Claims(p, n.id)' /\ Claims(q, n.id)' => p = q
  OBVIOUS
<1>1. \A p \in Procs : Claims(p, n.id)' => Claims(p, n.id)
  OBVIOUS
<1>2. CASE \E m \in live[f] : n.id = m.id /\ n.status = m.status /\ n.retries = m.retries
  BY <1>1, <1>2 DEF FirstClaim
<1>3. CASE n.id = stamp + 1
  <2>1. stamp \in Nat /\ \A p \in Procs : ~Claims(p, stamp + 1)
    BY DEF Claims, IdsUnique, FirstClaim, TypeInv, TypeOK
  <2>. QED BY <1>1, <1>3, <2>1
<1>. QED BY <1>2, <1>3

\* Every step of the queue keeps it, while leases are forgotten or recorded.
LEMMA ClaimNext ==
    ASSUME TypeInv, IdsUnique, IdsUnique', FirstClaim, Evolves,
           \A p \in Consumers : lease'[p] \in {lease[p], held[p], 0}
    PROVE  FirstClaim'
<1>1. /\ stamp \in Nat /\ stamp' \in {stamp, stamp + 1}
      /\ held \in [Procs -> Nat]
      /\ \A f \in Files : \A m \in live[f] : m.id \in 1..stamp /\ m.retries \in Nat
      /\ \A p \in Consumers : p \in Procs
      /\ \A f \in Files : \A m \in live'[f] : m.id # 0
  <2>1. stamp' \in {stamp, stamp + 1}
    <3>1. \A f \in Files : GcStale(f) => stamp' = stamp
      BY DEF GcStale
    <3>. QED BY <3>1 DEF Evolves, OnlyRemoves, Adds, Delivers, Retries, GrowsOld, Becomes
  <2>. QED BY <2>1, ConsumerFacts DEF TypeInv, TypeOK, IdsUnique, Msg
<1>2. \A p \in Consumers : lease'[p] \in 0..stamp'
  BY <1>1 DEF IdsUnique, FirstClaim
<1>. DEFINE Few ==
       \A f \in Files : \A m \in live'[f] : m.retries = 0 =>
          /\ m.status = "pending" => \A p \in Procs : ~Claims(p, m.id)'
          /\ \A p, q \in Procs : Claims(p, m.id)' /\ Claims(q, m.id)' => p = q
<1>3. ASSUME \A p \in Procs : held'[p] \in {held[p], 0}
      PROVE  \A p \in Procs : \A i : Claims(p, i)' => Claims(p, i) \/ i = 0
  BY <1>3 DEF Claims
<1>4. ASSUME OnlyRemoves PROVE Few
  BY <1>1, <1>3, <1>4, ClaimsShrink DEF OnlyRemoves
<1>5. ASSUME NEW f \in Files, NEW j \in Nat, NEW n \in Msg, Adds(f, j, n) PROVE Few
  <2>1. \A g \in Files : live'[g] = IF g = f THEN live[f] \cup {n} ELSE live[g]
    BY <1>5 DEF Adds, TypeInv, TypeOK
  <2>2. held' = held /\ n.id = stamp + 1
    BY <1>5 DEF Adds
  <2>. QED BY <1>1, <1>3, <2>1, <2>2, ClaimsShrink
<1>6. ASSUME NEW p \in Procs, NEW f \in Files, NEW m \in live[f], NEW n \in Msg,
             Delivers(p, f, m, n)
      PROVE  Few
  <2>1. \A g \in Files : live'[g] = IF g = f THEN (live[f] \ {m}) \cup {n} ELSE live[g]
    BY <1>6, BecomesLive DEF Delivers
  <2>2. \A q \in Procs : held'[q] = IF q = p THEN m.id ELSE held[q]
    BY <1>1, <1>6 DEF Delivers
  <2>3. n.id = m.id /\ n.retries = m.retries /\ n.status # "pending" /\ m.status = "pending"
    BY <1>6 DEF Delivers, Becomes, IsFirst, Ready, Pending
  <2>4. \A q \in Procs : \A i : Claims(q, i)' => Claims(q, i) \/ i = 0 \/ (q = p /\ i = m.id)
    BY <2>2 DEF Claims
  <2>5. \A g \in Files : \A o \in live'[g] : o = n \/ (o \in live[g] /\ o.id # m.id)
    BY <2>1 DEF IdsUnique
  <2>6. n.retries = 0 => \A q \in Procs : Claims(q, n.id)' => q = p
    <3>1. m.retries = 0 => \A q \in Procs : ~Claims(q, m.id)
      BY <2>3 DEF FirstClaim
    <3>2. m.id # 0
      BY <1>1
    <3>. QED BY <2>3, <2>4, <3>1, <3>2
  <2>7. ASSUME NEW g \in Files, NEW o \in live[g], o.id # m.id, o.retries = 0
        PROVE  /\ o.status = "pending" => \A q \in Procs : ~Claims(q, o.id)'
               /\ \A q, r \in Procs : Claims(q, o.id)' /\ Claims(r, o.id)' => q = r
    <3>1. \A q \in Procs : Claims(q, o.id)' => Claims(q, o.id)
      BY <1>1, <2>4, <2>7
    <3>. QED BY <2>7, <3>1 DEF FirstClaim
  <2>. QED BY <2>3, <2>5, <2>6, <2>7
<1>7. ASSUME NEW p \in Procs, NEW f \in Files, NEW m \in live[f], NEW n \in Msg,
             Retries(p, f, m, n)
      PROVE  Few
  <2>1. \A g \in Files : live'[g] = IF g = f THEN (live[f] \ {m}) \cup {n} ELSE live[g]
    BY <1>7, BecomesLive DEF Retries
  <2>2. n.retries # 0 /\ \A q \in Procs : held'[q] \in {held[q], 0}
    BY <1>1, <1>7 DEF Retries
  <2>. QED BY <1>1, <1>3, <2>1, <2>2, ClaimsShrink
<1>8. ASSUME NEW f \in Files, NEW m \in live[f], NEW n \in Msg, GrowsOld(f, m, n) PROVE Few
  <2>1. \A g \in Files : live'[g] = IF g = f THEN (live[f] \ {m}) \cup {n} ELSE live[g]
    BY <1>8, BecomesLive DEF GrowsOld
  <2>2. n.id = m.id /\ n.status = m.status /\ n.retries = m.retries /\ held' = held
    BY <1>8 DEF GrowsOld, Becomes
  <2>. QED BY <1>1, <1>3, <2>1, <2>2, ClaimsShrink
<1>9. ASSUME NEW f \in Files, GcStale(f) PROVE Few
  <2>1. \A g \in Files : \A n \in live'[g] : n \in live[g] \/ n.retries # 0
    BY <1>9, CollectedFields
  <2>2. held' = held
    BY <1>9, CollectedMessages
  <2>. QED BY <1>1, <1>3, <2>1, <2>2, ClaimsShrink
<1>10. Few
  BY <1>4, <1>5, <1>6, <1>7, <1>8, <1>9 DEF Evolves
<1>. QED BY <1>2, <1>10 DEF FirstClaim

\* A consumer forgets its lease, keeps it, or records what it holds.
LEMMA LeaseMoves ==
    ASSUME ControlInv, [ConsumerNext]_allVars
    PROVE  \A p \in Consumers : lease'[p] \in {lease[p], held[p], 0}
<1>. USE DEF ControlInv, ControlTypes
<1>1. CASE Produce \/ Time \/ UNCHANGED allVars
  BY <1>1 DEF Produce, Time, allVars, state
<1>2. ASSUME NEW p \in Consumers,
             \/ Start(p) \/ Refuse(p) \/ Kill(p) \/ SigtermExit(p) \/ SigtermNack(p) \/ SigtermBlocks(p)
      PROVE  \A q \in Consumers : lease'[q] \in {lease[q], held[q], 0}
  BY <1>2 DEF Start, Refuse, Kill, Exit, SigtermExit, SigtermNack, SigtermBlocks
<1>3. ASSUME NEW p \in Consumers,
             \/ Collect(p) \/ Collected(p) \/ Receive(p) \/ NoMessage(p) \/ RecordLease(p)
             \/ Fetch(p) \/ FetchMissing(p) \/ ProcessorReturns(p) \/ ProcessorRaises(p)
      PROVE  \A q \in Consumers : lease'[q] \in {lease[q], held[q], 0}
  BY <1>3 DEF Collect, Collected, Receive, NoMessage, RecordLease, Fetch, FetchMissing,
              ProcessorReturns, ProcessorRaises, Goto, Exit, Counted, state
<1>4. ASSUME NEW p \in Consumers,
             \/ Look(p) \/ FirstWrite(p) \/ AckTrue(p) \/ AckFails(p) \/ Count(p)
             \/ NackReturns(p) \/ NackExit(p)
      PROVE  \A q \in Consumers : lease'[q] \in {lease[q], held[q], 0}
  BY <1>4 DEF Look, FirstWrite, AckTrue, AckFails, Count, NackReturns, NackExit,
              Goto, Exit, Counted, state
<1>. QED BY <1>1, <1>2, <1>3, <1>4 DEF ConsumerNext, Loop

\* The handler passes the recorded lease to nack(): that claims nothing new.
LEMMA HandlerClaims ==
    ASSUME TypeInv, IdsUnique, FirstClaim, ControlInv, NEW p \in Consumers, Handles(p),
           Interrupts
    PROVE  IdsUnique' /\ FirstClaim'
<1>1. /\ lease' = lease /\ held \in [Procs -> Nat] /\ stamp' = stamp /\ live' = live
      /\ \E i \in {held[p], lease[p], 0} : held' = [held EXCEPT ![p] = i]
  BY DEF Handles, SigtermExit, SigtermNack, SigtermBlocks, Interrupts, TypeInv, TypeOK
<1>2. /\ \A q \in Procs : \A i : Claims(q, i)' => Claims(q, i) \/ i = 0
      /\ \A q \in Procs : held'[q] \in 0..stamp
  BY <1>1, ConsumerFacts DEF Claims, IdsUnique, FirstClaim, TypeInv, TypeOK
<1>3. IdsUnique'
  BY <1>1, <1>2 DEF IdsUnique
<1>4. \A f \in Files : \A n \in live'[f] : n.id # 0 /\ n \in live[f]
  BY <1>1 DEF IdsUnique
<1>5. FirstClaim'
  <2>1. \A f \in Files : \A m \in live'[f] : m.retries = 0 =>
           /\ m.status = "pending" => \A q \in Procs : ~Claims(q, m.id)'
           /\ \A q, r \in Procs : Claims(q, m.id)' /\ Claims(r, m.id)' => q = r
    BY <1>2, <1>4, ClaimsShrink
  <2>. QED BY <1>1, <2>1 DEF FirstClaim
<1>. QED BY <1>3, <1>5

LeaseInv == KeyInv /\ ReplaysAsked /\ IdsUnique /\ FirstClaim

\* Two running consumers record a lease on one message only if it was given up in
\* between, in any deployment that does not put archived messages back: not even
\* a SIGTERM that hands a recorded lease to nack() makes them share one.
THEOREM ConsumersShareRecovered ==
    ASSUME "requeue" \notin Calls PROVE ConsumerSpec => []LeaseSharedOnlyAfterRecovery
<1>. DEFINE Inv == ConsumerInv /\ LeaseInv
<1>1. ConsumerInit => Inv
  <2>. SUFFICES ASSUME ConsumerInit PROVE Inv
    OBVIOUS
  <2>1. ConsumerInv /\ KeyInv
    BY ControlInit, OnceInit, KeyInit DEF ConsumerInit, ConsumerInv
  <2>2. ReplaysAsked /\ IdsUnique
    BY DEF ConsumerInit, Init, ReplaysAsked, Idle, IdsUnique
  <2>3. FirstClaim
    BY DEF ConsumerInit, Init, FirstClaim
  <2>. QED BY <2>1, <2>2, <2>3 DEF LeaseInv
<1>2. Inv /\ [ConsumerNext]_allVars => Inv'
  <2>. SUFFICES ASSUME Inv, [ConsumerNext]_allVars PROVE Inv'
    OBVIOUS
  <2>1. ConsumerInv' /\ TypeInv
    BY ControlNext, ConsumerOnce, ArchiveNext DEF ConsumerInv, OnceInv
  <2>2. CASE [Next]_vars
    <3>1. KeyInv' /\ ReplaysAsked' /\ Evolves
      BY <2>1, <2>2, KeyNext, AskedNext, StepEvolves DEF LeaseInv
    <3>2. IdsUnique'
      BY <2>1, <3>1, IdsNext DEF LeaseInv
    <3>3. FirstClaim'
      BY <2>1, <3>1, <3>2, LeaseMoves, ClaimNext DEF LeaseInv, ConsumerInv
    <3>. QED BY <2>1, <3>1, <3>2, <3>3 DEF LeaseInv
  <2>3. ASSUME NEW p \in Consumers, Handles(p) PROVE Inv'
    <3>1. Interrupts /\ TypeInv'
      BY <2>3, HandlerInterrupts DEF ConsumerInv, OnceInv, ControlInv, ControlTypes
    <3>2. KeyInv' /\ IdsUnique' /\ FirstClaim'
      BY <2>1, <2>3, <3>1, HandlerKeys, HandlerClaims DEF LeaseInv, ConsumerInv
    <3>3. ReplaysAsked'
      BY <3>1 DEF Interrupts, LeaseInv, ReplaysAsked, Idle
    <3>. QED BY <2>1, <3>2, <3>3 DEF LeaseInv
  <2>. QED BY <2>2, <2>3, ConsumerSteps
<1>3. Inv => LeaseSharedOnlyAfterRecovery
  <2>. SUFFICES ASSUME Inv, NEW p \in Consumers, NEW q \in Consumers, p # q, lease[p] = lease[q],
                       NEW f \in Files, NEW m \in Copies(f, lease[p])
                PROVE  m.retries >= 1
    BY DEF LeaseSharedOnlyAfterRecovery
  <2>1. m \in live[f] /\ m.id = lease[p] /\ m.retries \in Nat
    BY DEF Copies, LeaseInv, KeyInv, TypeInv, TypeOK, Msg
  <2>2. Claims(p, m.id) /\ Claims(q, m.id) /\ p \in Procs /\ q \in Procs
    BY <2>1, ConsumerFacts DEF Claims
  <2>3. m.retries # 0
    BY <2>1, <2>2 DEF LeaseInv, FirstClaim
  <2>. QED BY <2>1, <2>3
<1>. QED BY <1>1, <1>2, <1>3, PTL DEF ConsumerSpec


\* However the consumers, their signals and crashes interleave, a message is
\* archived only after the processor returned for it, without a crash it is
\* settled once, and its lease is shared only after it was given up.
THEOREM ConsumersAreSound == ConsumerSpec => []ConsumerSound
<1>1. ConsumerInit => ConsumerInv
  BY ControlInit, OnceInit DEF ConsumerInit, ConsumerInv
<1>2. ConsumerInv /\ [ConsumerNext]_allVars => ConsumerInv'
  BY ControlNext, ConsumerOnce, ArchiveNext DEF ConsumerInv
<1>3. ConsumerSpec => []ConsumerInv
  BY <1>1, <1>2, PTL DEF ConsumerSpec
<1>4. ConsumerInv => ConsumerTypeOK /\ SettledOnce /\ ArchivedWasProcessed
  <2>1. ConsumerInv => ConsumerTypeOK
    BY DEF ConsumerInv, OnceInv, TypeInv, ControlInv, ControlTypes, Standings, ConsumerTypeOK
  <2>. QED BY <2>1, OnceSettles DEF ConsumerInv
<1>5. CASE "requeue" \in Calls
  <2>1. ConsumerInv => ConsumerSound
    BY <1>4, <1>5 DEF ConsumerSound
  <2>. QED BY <1>3, <2>1, PTL
<1>6. CASE "requeue" \notin Calls
  <2>1. ConsumerInv /\ LeaseSharedOnlyAfterRecovery => ConsumerSound
    BY <1>4 DEF ConsumerSound
  <2>2. ConsumerSpec => []LeaseSharedOnlyAfterRecovery
    BY <1>6, ConsumersShareRecovered
  <2>. QED BY <1>3, <2>1, <2>2, PTL
<1>. QED BY <1>5, <1>6
=============================================================================
