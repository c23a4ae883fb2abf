------------------------------ MODULE MQConsumer ------------------------------
(***************************************************************************)
(* tools/dev_mq_consumer.py: the processes that drain one topic of the     *)
(* message queue through a processor function, with their single-consumer  *)
(* guard, their exit codes and their SIGTERM handler.                      *)
(*                                                                         *)
(* "pc" is where main() stands; the calls into the queue are the actions   *)
(* of MessageQueue.  A consumer that exited may be started again.  The     *)
(* processor is code of its own: it returns or raises.                     *)
(***************************************************************************)
EXTENDS MessageQueue

CONSTANTS
    Consumers,    \* the processes that run main()
    Steady,       \* the consumers that are started again whenever they exit
    Ids,          \* values of --consumer-id
    IdOf,         \* [Consumers -> Ids]
    Work,         \* --topic
    MaxMessages,  \* --max-messages
    MaxSignals    \* bound of the model: SIGTERMs sent

ASSUME ConsumerAssumption ==
    /\ Consumers \subseteq Procs
    /\ Steady \subseteq Consumers
    /\ IdOf \in [Consumers -> Ids]
    /\ Work \in Topics
    /\ MaxMessages \in Nat \ {0}
    /\ MaxSignals \in Nat

VARIABLES
    pc,         \* where main() stands; "off": not running
    lease,      \* _in_flight_lease["msg_id"] (0: None)
    processed,  \* messages counted by the loop
    result,     \* exit code of the last run (9: none yet, or killed)
    signals,    \* SIGTERMs sent so far
    ran,        \* history: ids the processor has returned for
    acks        \* history: acks of this run that returned True

queue == vars
state == <<pc, lease, processed, result, signals, ran, acks>>
allVars == <<queue, state>>

work == FileOf[Work]

Calling == {"ack", "nack", "term"}      \* in a call that settles the message
Busy == {"fetch", "work", "acked", "nacked"} \cup Calling  \* the lease is recorded

-----------------------------------------------------------------------------
Goto(p, l) ==
    /\ pc' = [pc EXCEPT ![p] = l]
    /\ UNCHANGED <<lease, processed, result, signals, ran, acks>>

Exit(p, code) ==
    /\ pc' = [pc EXCEPT ![p] = "off"]
    /\ lease' = [lease EXCEPT ![p] = 0]
    /\ result' = [result EXCEPT ![p] = code]
    /\ UNCHANGED <<processed, signals, ran, acks>>

\* One more message counted: the loop goes on, or main() returns 0.
Counted(p) ==
    /\ processed' = [processed EXCEPT ![p] = @ + 1]
    /\ lease' = [lease EXCEPT ![p] = 0]
    /\ IF processed[p] + 1 < MaxMessages
       THEN pc' = [pc EXCEPT ![p] = "gc"] /\ result' = result
       ELSE pc' = [pc EXCEPT ![p] = "off"] /\ result' = [result EXCEPT ![p] = 0]

-----------------------------------------------------------------------------
(* The start and the single-consumer check, which reads without the lock    *)

\* Mutation: the consumer's own id counts as well.
OthersAnyId(p) == {m \in live[work] : m.status = "in_flight"}

Others(p) == {m \in live[work] : m.status = "in_flight" /\ IdOf[m.holder] # IdOf[p]}

Start(p) ==
    /\ pc[p] = "off"
    /\ Others(p) = {}
    /\ pc' = [pc EXCEPT ![p] = "gc"]
    /\ processed' = [processed EXCEPT ![p] = 0]
    /\ acks' = [acks EXCEPT ![p] = 0]
    /\ result' = [result EXCEPT ![p] = 9]
    /\ UNCHANGED <<queue, lease, signals, ran>>

Refuse(p) ==
    /\ pc[p] = "off"
    /\ Others(p) # {}
    /\ result' = [result EXCEPT ![p] = 3]
    /\ acks' = [acks EXCEPT ![p] = 0]
    /\ processed' = [processed EXCEPT ![p] = 0]
    /\ UNCHANGED <<queue, pc, lease, signals, ran>>

-----------------------------------------------------------------------------
(* The loop: collect stale leases, consume, fetch, process                  *)

Collect(p) == pc[p] = "gc" /\ (\E f \in Files : GcStale(f)) /\ UNCHANGED state

Collected(p) ==
    /\ pc[p] = "gc"
    /\ \A f \in Files : CanLock(f) /\ Stale(f) = {}
    /\ Goto(p, "poll")
    /\ UNCHANGED queue

Receive(p) == pc[p] = "poll" /\ Consume(p, work) /\ Goto(p, "got")

\* Nothing is ready at the last look before the deadline.
NoMessage(p) ==
    /\ pc[p] = "poll"
    /\ CanLock(work)
    /\ Ready(work) = {}
    /\ Exit(p, IF processed[p] = 0 THEN 1 ELSE 0)
    /\ UNCHANGED queue

RecordLease(p) ==
    /\ pc[p] = "got"
    /\ lease' = [lease EXCEPT ![p] = held[p]]
    /\ pc' = [pc EXCEPT ![p] = "fetch"]
    /\ UNCHANGED <<queue, processed, result, signals, ran, acks>>

\* _find_msg_full finds the message, whatever its status is by now.
Fetch(p) ==
    /\ pc[p] = "fetch"
    /\ \E f \in Files : CanLock(f) /\ Copies(f, lease[p]) # {}
    /\ Goto(p, "work")
    /\ UNCHANGED queue

\* Somebody settled it meanwhile: it is counted as processed.
FetchMissing(p) ==
    /\ pc[p] = "fetch"
    /\ FindMissing(p)
    /\ Counted(p)
    /\ UNCHANGED <<signals, ran, acks>>

ProcessorReturns(p) ==
    /\ pc[p] = "work"
    /\ ran' = ran \cup {lease[p]}
    /\ pc' = [pc EXCEPT ![p] = "ack"]
    /\ UNCHANGED <<queue, lease, processed, result, signals, acks>>

ProcessorRaises(p) == pc[p] = "work" /\ Goto(p, "nack") /\ UNCHANGED queue

-----------------------------------------------------------------------------
(* The calls of ack() and nack(), from the loop or from the SIGTERM handler *)

Look(p) ==
    /\ pc[p] \in Calling
    /\ Find(p, IF pc[p] = "ack" THEN "ack" ELSE "nack")
    /\ UNCHANGED state

FirstWrite(p) ==
    /\ pc[p] \in Calling
    /\ AckArchive(p) \/ NackDead(p)
    /\ UNCHANGED state

AckTrue(p) ==
    /\ pc[p] = "ack"
    /\ WriteTopic(p)
    /\ acks' = [acks EXCEPT ![p] = @ + 1]
    /\ pc' = [pc EXCEPT ![p] = "acked"]
    /\ UNCHANGED <<lease, processed, result, signals, ran>>

AckFails(p) ==
    /\ pc[p] = "ack"
    /\ FindMissing(p) \/ FoundMoved(p) \/ WriteFails(p)
    /\ Exit(p, 3)

Count(p) == pc[p] = "acked" /\ Counted(p) /\ UNCHANGED <<queue, signals, ran, acks>>

\* What nack() returns, or that it raises, makes no difference.
NackReturns(p) ==
    /\ pc[p] \in {"nack", "term"}
    /\ NackRetry(p) \/ WriteTopic(p) \/ WriteFails(p) \/ FindMissing(p) \/ FoundMoved(p)
    /\ IF pc[p] = "nack" THEN Goto(p, "nacked") ELSE Exit(p, 0)

NackExit(p) == pc[p] = "nacked" /\ Exit(p, 2) /\ UNCHANGED queue

-----------------------------------------------------------------------------
(* SIGTERM: the handler runs on top of whatever main() was doing            *)

Signal(p) ==
    /\ pc[p] \notin {"off", "blocked"}
    /\ signals < MaxSignals
    /\ signals' = signals + 1

\* No lease is recorded: the process exits, whatever it has consumed.
SigtermExit(p) ==
    /\ Signal(p)
    /\ lease[p] = 0
    /\ pc' = [pc EXCEPT ![p] = "off"]
    /\ result' = [result EXCEPT ![p] = 0]
    /\ held' = [held EXCEPT ![p] = 0]
    /\ UNCHANGED <<files, lock, task, stamp, crashes, history, lease, processed, ran, acks>>

\* Outside of a critical section: the call in progress is abandoned, and the
\* handler calls nack() with the recorded id.
SigtermNack(p) ==
    /\ Signal(p)
    /\ lease[p] # 0
    /\ task[p].at # "writing"
    /\ pc' = [pc EXCEPT ![p] = "term"]
    /\ task' = [task EXCEPT ![p] = Idle]
    /\ held' = [held EXCEPT ![p] = lease[p]]
    /\ UNCHANGED <<files, lock, stamp, crashes, history, lease, processed, result, ran, acks>>

\* Mutation: the lock is released before the handler waits for it.
SigtermUnlocks(p) ==
    /\ Signal(p)
    /\ lease[p] # 0
    /\ task[p].at = "writing"
    /\ lock' = [lock EXCEPT ![task[p].file] = NoProc]
    /\ pc' = [pc EXCEPT ![p] = "blocked"]
    /\ UNCHANGED <<files, task, held, stamp, crashes, history,
                   lease, processed, result, ran, acks>>

\* Inside one: nack() opens the lock file again and waits for the lock that its
\* own process holds.
SigtermBlocks(p) ==
    /\ Signal(p)
    /\ lease[p] # 0
    /\ \/ task[p].at = "writing" /\ lock' = lock
       \/ /\ pc[p] \in Calling \cup {"fetch"}
          /\ task[p].at # "writing"
          /\ \E f \in Files : CanLock(f) /\ lock' = [lock EXCEPT ![f] = p]
    /\ pc' = [pc EXCEPT ![p] = "blocked"]
    /\ UNCHANGED <<files, task, held, stamp, crashes, history,
                   lease, processed, result, ran, acks>>

Kill(p) ==
    /\ pc[p] # "off"
    /\ Crash(p)
    /\ Exit(p, 9)

-----------------------------------------------------------------------------
ConsumerInit ==
    /\ Init
    /\ pc = [p \in Consumers |-> "off"]
    /\ lease = [p \in Consumers |-> 0]
    /\ processed = [p \in Consumers |-> 0]
    /\ result = [p \in Consumers |-> 9]
    /\ signals = 0
    /\ ran = {}
    /\ acks = [p \in Consumers |-> 0]

Loop(p) ==
    \/ Collect(p) \/ Collected(p) \/ Receive(p) \/ NoMessage(p) \/ RecordLease(p)
    \/ Fetch(p) \/ FetchMissing(p) \/ ProcessorReturns(p) \/ ProcessorRaises(p)
    \/ Look(p) \/ FirstWrite(p) \/ AckTrue(p) \/ AckFails(p) \/ Count(p)
    \/ NackReturns(p) \/ NackExit(p)

Produce == \E p \in Procs \ Consumers : Enqueue(p, Work, NoKey) /\ UNCHANGED state

Time == \E f \in Files : (LeaseAges(f) \/ BackoffElapses(f)) /\ UNCHANGED state

ConsumerNext ==
    \/ \E p \in Consumers :
         \/ Start(p) \/ Refuse(p) \/ Loop(p)
         \/ SigtermExit(p) \/ SigtermNack(p) \/ SigtermBlocks(p) \/ Kill(p)
    \/ Produce
    \/ Time

ConsumerSpec == ConsumerInit /\ [][ConsumerNext]_allVars

\* A running process goes on; a steady consumer is started again; time passes.
ConsumerFairness ==
    /\ \A p \in Consumers : WF_allVars(Loop(p))
    /\ \A p \in Steady : WF_allVars(Start(p))
    /\ \A f \in Files :
         WF_allVars(LeaseAges(f) /\ UNCHANGED state)
         /\ WF_allVars(BackoffElapses(f) /\ UNCHANGED state)

ConsumerFairSpec == ConsumerSpec /\ ConsumerFairness

-----------------------------------------------------------------------------
(* Properties                                                               *)

\* Every variable of the consumers has its type, and so have those of the queue.
ConsumerTypeOK ==
    /\ TypeOK
    /\ pc \in [Consumers -> {"off", "gc", "poll", "got", "blocked"} \cup Busy]
    /\ lease \in [Consumers -> Nat]
    /\ processed \in [Consumers -> 0..MaxMessages]
    /\ result \in [Consumers -> {0, 1, 2, 3, 9}]
    /\ signals \in 0..MaxSignals
    /\ ran \subseteq Nat
    /\ acks \in [Consumers -> 0..MaxMessages]

\* A message is archived only if the processor returned for it, whoever ran it.
ArchivedWasProcessed == \A f \in Files : IdsOf(done[f]) \subseteq ran

\* Two running consumers record a lease on one message only if it was given up
\* in between: by a nack, by the SIGTERM handler or by the collector.
LeaseSharedOnlyAfterRecovery ==
    \A p, q \in Consumers : p # q /\ lease[p] = lease[q] =>
        \A f \in Files : \A m \in Copies(f, lease[p]) : m.retries >= 1

\* With that, nothing is archived twice or both archived and dead, wherever a
\* SIGTERM arrives: in the loop, in the processor, or inside a call of the queue.
\* The last part ends with requeue(), which puts a settled message back while
\* another consumer may still have a lease on it.
ConsumerSound ==
    /\ ConsumerTypeOK /\ SettledOnce /\ ArchivedWasProcessed
    /\ "requeue" \notin Calls => LeaseSharedOnlyAfterRecovery

\* Every job is eventually archived or dead, while the consumers are restarted.
JobsSettle == \A j \in 1..MaxStamp : j \in accepted ~> j \in SettledJobs

-----------------------------------------------------------------------------
(* Stated by the code's comments, and not kept by it: see the README        *)

\* A consumer that got a SIGTERM eventually exits.
SigtermEnds ==
    \A p \in Consumers : pc[p] \in {"term", "blocked"} ~> pc[p] = "off"

\* After a clean exit the consumer holds no message in flight.
CleanExitHoldsNothing ==
    \A p \in Consumers : pc[p] = "off" /\ result[p] = 0 =>
        \A f \in Files : \A m \in live[f] : m.status = "in_flight" => m.holder # p

\* Two consumers with different ids never work on the topic at the same time.
SingleConsumer ==
    \A p, q \in Consumers :
        pc[p] \in Busy /\ pc[q] \in Busy => IdOf[p] = IdOf[q]

\* A consumer refuses to start only while another consumer is running.
RefusedWhileActive ==
    [][\A p \in Consumers : Refuse(p) =>
         \E q \in Consumers : pc[q] # "off" /\ IdOf[q] # IdOf[p]]_allVars

\* Exit code 0 means that a message was processed and acked.
ZeroMeansAcked == \A p \in Consumers : result[p] = 0 => acks[p] > 0

\* The handler gives up only a message that is in flight with its own process.
HandlerReleasesOwn ==
    [][\A p \in Consumers : pc[p] = "term" /\ (NackRetry(p) \/ NackDead(p)) =>
         \E f \in Files : \E m \in Copies(f, lease[p]) :
            m.status = "in_flight" /\ m.holder = p]_allVars

=============================================================================
