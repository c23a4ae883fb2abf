------------------------------ MODULE Recovery ------------------------------
(***************************************************************************)
(* Phoenix recovery: dev_phoenix_recovery_run.py runs the levels and       *)
(* publishes phoenix.recovery.completed; dev_phoenix_log_persister.py      *)
(* consumes it, logs it and escalates a degraded run to                    *)
(* monitor.health.degraded, where dev_health_monitor.py publishes too;     *)
(* dev_recovery_defib.py consumes that topic.                              *)
(*                                                                         *)
(* The queue is what AtLeastOnce promises: a message is pending, leased,   *)
(* done or dead, a lease whose holder died is given up later, a raising    *)
(* processor puts the message back until its retries are used up.  A level *)
(* is a run of WorkflowRunner: its process exits with 0 unless it could    *)
(* not load or order its steps.                                            *)
(***************************************************************************)
EXTENDS Integers, Sequences, FiniteSets

CONSTANTS
  Requests,      \* request ids of phoenix runs
  Checks,        \* request ids of the health monitor
  DefibCommands, \* commands of the health monitor, "UNKNOWN" for any other word
  Levels,        \* how many levels a run has (--levels)
  Summaries,     \* summaries a message of the monitor may carry
  MaxRetries,    \* retry_policy.max of a message
  MaxRuns,       \* bound: how often a request is run
  MaxFaults,     \* bound: crashes, failing enqueues and failing writes
  NoOne

ASSUME RecoveryAssumption ==
  /\ Levels \in Nat \ {0} /\ MaxRuns \in Nat /\ MaxRetries \in Nat /\ MaxFaults \in Nat
  /\ NoOne \notin Nat
  /\ DefibCommands \subseteq {"CHECK_HEALTH", "CHECK_RUNTIME", "LOG_SESSION", "RECOVER", "UNKNOWN"}

Completed == "phoenix.recovery.completed"
Degraded == "monitor.health.degraded"
Workers == {"persister", "defib"}
Topic == [w \in Workers |-> IF w = "persister" THEN Completed ELSE Degraded]

VARIABLES
  runs,        \* request -> the publisher's process
  mail,        \* the messages of both topics
  worker,      \* the two consumers: the message they hold and how far they are
  phoenixLog,  \* .mase/phoenix_logs/<request>.json
  defibLog,    \* .mase/recovery/log/<request>.json
  checks,      \* monitor request -> exit code of the last call
  unsent,      \* observation: requests whose escalation could not be enqueued
  cut,         \* observation: requests whose log was cut off in a write
  faults

recoveryVars == <<runs, mail, worker, phoenixLog, defibLog, checks, unsent, cut, faults>>

NoRun == [st |-> "idle", nth |-> 0, levels |-> <<>>, exit |-> NoOne]
Resting == [st |-> "idle", msg |-> NoOne, esc |-> NoOne]
NoLog == [status |-> "none", bad |-> {}, attention |-> FALSE, esc |-> NoOne]
(* A log that is opened for writing, and not yet whole.                     *)
Torn == [status |-> "torn", bad |-> {}, attention |-> FALSE, esc |-> NoOne]
NoSummary == [stale |-> FALSE, dlq |-> FALSE, dryRun |-> FALSE, daemonDown |-> FALSE,
              oldRules |-> FALSE]

Message(t, r, k, body) ==
  [topic |-> t, req |-> r, key |-> k, body |-> body, st |-> "pending", tries |-> 0]
Enqueued(m) ==
  IF m.key # NoOne /\ \E i \in DOMAIN mail : mail[i].key = m.key
                                           /\ mail[i].st \in {"pending", "leased"}
  THEN mail ELSE Append(mail, m)

Fault == faults < MaxFaults /\ faults' = faults + 1

-----------------------------------------------------------------------------
(* dev_phoenix_recovery_run.py                                              *)

(* _run_level(): a level passed if the runner exits with 0, which it does   *)
(* also for a workflow that failed, not when it was refused or timed out.   *)
LevelOk(came) == came \in {"ok", "failed"}
Passed(ls) == Cardinality({i \in DOMAIN ls : ls[i]})
Exited(r, code) == [runs EXCEPT ![r].st = "exited", ![r].levels = <<>>, ![r].exit = code]
FinalStatus(ls) == IF Passed(ls) = Len(ls) THEN "ok" ELSE "degraded"

RunAgain(r) ==
  /\ runs[r].st \in {"idle", "exited"} /\ runs[r].nth < MaxRuns
  /\ runs' = [runs EXCEPT ![r] = [NoRun EXCEPT !.st = "levels", !.nth = runs[r].nth + 1]]
  /\ UNCHANGED <<mail, worker, phoenixLog, defibLog, checks, unsent, cut, faults>>

RunLevel(r) ==
  /\ runs[r].st = "levels" /\ Len(runs[r].levels) < Levels
  /\ \E came \in {"ok", "failed", "refused"} :
       runs' = [runs EXCEPT ![r].levels = Append(@, LevelOk(came))]
  /\ UNCHANGED <<mail, worker, phoenixLog, defibLog, checks, unsent, cut, faults>>

(* main(): the completion has one key per request; exit 2 when that failed, *)
(* 0 when a level passed, else 1.  --dry-run sends nothing.                 *)
Publish(r) ==
  /\ runs[r].st = "levels" /\ Len(runs[r].levels) = Levels
  /\ LET ls == runs[r].levels
         m == Message(Completed, r, <<r, "phoenix-completion">>,
                      [status |-> FinalStatus(ls), passed |-> Passed(ls),
                       bad |-> {i \in DOMAIN ls : ~ls[i]}])
     IN  \/ /\ mail' = Enqueued(m)
            /\ runs' = Exited(r, IF Passed(ls) >= 1 THEN 0 ELSE 1)
            /\ UNCHANGED faults
         \/ /\ Fault
            /\ runs' = Exited(r, 2)
            /\ UNCHANGED mail
         \/ /\ runs' = Exited(r, 0)   \* --dry-run
            /\ UNCHANGED <<mail, faults>>
  /\ UNCHANGED <<worker, phoenixLog, defibLog, checks, unsent, cut>>

-----------------------------------------------------------------------------
(* The consumers.                                                           *)

Held(w) == mail[worker[w].msg]

Take(w) ==
  /\ worker[w].st = "idle"
  /\ \E i \in DOMAIN mail :
       /\ mail[i].topic = Topic[w] /\ mail[i].st = "pending"
       /\ \A j \in 1..(i - 1) : mail[j].topic = Topic[w] => mail[j].st # "pending"
       /\ mail' = [mail EXCEPT ![i].st = "leased"]
       /\ worker' = [worker EXCEPT ![w] = [st |-> "got", msg |-> i, esc |-> NoOne]]
  /\ UNCHANGED <<runs, phoenixLog, defibLog, checks, unsent, cut, faults>>

Ack(w) ==
  /\ worker[w].st = "returned"
  /\ mail' = [mail EXCEPT ![worker[w].msg].st = "done"]
  /\ worker' = [worker EXCEPT ![w] = Resting]
  /\ UNCHANGED <<runs, phoenixLog, defibLog, checks, unsent, cut, faults>>

(* The log a worker has opened is left as it is.                            *)
CutBy(w) == IF worker[w].st \in {"writing", "rewriting"} THEN {Held(w).req} ELSE {}

(* The processor raises (its log cannot be opened or written): nack.        *)
Raise(w) ==
  /\ worker[w].st \in {"got", "writing", "dispatched"} /\ Fault
  /\ mail' = [mail EXCEPT ![worker[w].msg] =
                [Held(w) EXCEPT !.tries = @ + 1,
                                !.st = IF Held(w).tries + 1 >= MaxRetries THEN "dead" ELSE "pending"]]
  /\ worker' = [worker EXCEPT ![w] = Resting]
  /\ cut' = cut \cup CutBy(w)
  /\ UNCHANGED <<runs, phoenixLog, defibLog, checks, unsent>>

Crash(w) ==
  /\ worker[w].st # "idle" /\ Fault
  /\ worker' = [worker EXCEPT ![w] = Resting]
  /\ cut' = cut \cup CutBy(w)
  /\ UNCHANGED <<runs, mail, phoenixLog, defibLog, checks, unsent>>

(* Mutation: only a message that was retried is looked at.                  *)
AbandonedRetried(i) ==
  mail[i].st = "leased" /\ mail[i].tries > 0 /\ \A w \in Workers : worker[w].msg # i

Abandoned(i) == mail[i].st = "leased" /\ \A w \in Workers : worker[w].msg # i
GivenUp(ms) == [i \in DOMAIN mail |->
                  IF i \in ms THEN [mail[i] EXCEPT !.st = "pending"] ELSE mail[i]]

LeaseGivenUp ==
  /\ \E i \in DOMAIN mail : Abandoned(i) /\ mail' = GivenUp({i})
  /\ UNCHANGED <<runs, worker, phoenixLog, defibLog, checks, unsent, cut, faults>>

-----------------------------------------------------------------------------
(* dev_phoenix_log_persister.process_msg()                                  *)

NeedsAttention(body) == body.status # "ok"

(* open(.., "w") empties the log of an earlier run of the request.          *)
OpenLog ==
  /\ worker["persister"].st = "got"
  /\ phoenixLog' = [phoenixLog EXCEPT ![Held("persister").req] = Torn]
  /\ worker' = [worker EXCEPT !["persister"].st = "writing"]
  /\ UNCHANGED <<runs, mail, defibLog, checks, unsent, cut, faults>>

LogOf(m, e) ==
  [status |-> m.body.status, bad |-> m.body.bad, attention |-> NeedsAttention(m.body), esc |-> e]

(* Mutation: the log is all there is.                                       *)
WriteLogOnly ==
  /\ worker["persister"].st = "writing"
  /\ phoenixLog' = [phoenixLog EXCEPT ![Held("persister").req] = LogOf(Held("persister"), NoOne)]
  /\ worker' = [worker EXCEPT !["persister"].st = "returned"]
  /\ UNCHANGED <<runs, mail, defibLog, checks, unsent, cut, faults>>

WriteLog ==
  /\ worker["persister"].st = "writing"
  /\ phoenixLog' = [phoenixLog EXCEPT ![Held("persister").req] = LogOf(Held("persister"), NoOne)]
  /\ worker' = [worker EXCEPT !["persister"].st =
                  IF NeedsAttention(Held("persister").body) THEN "logged" ELSE "returned"]
  /\ UNCHANGED <<runs, mail, defibLog, checks, unsent, cut, faults>>

(* The escalation has no idempotency key.  An exception of enqueue() only   *)
(* changes the value that is returned: the message is acked all the same.   *)
Escalate ==
  /\ worker["persister"].st = "logged"
  /\ LET m == Held("persister")
         e == Message(Degraded, m.req, NoOne,
                      [from |-> "persister", cmd |-> "PHOENIX_DEGRADED", problem |-> TRUE,
                       summary |-> NoSummary])
     IN  \/ /\ mail' = Enqueued(e)
            /\ worker' = [worker EXCEPT !["persister"].st = "escalated",
                                        !["persister"].esc = Len(mail) + 1]
            /\ UNCHANGED <<unsent, faults>>
         \/ /\ Fault
            /\ unsent' = unsent \cup {m.req}
            /\ worker' = [worker EXCEPT !["persister"].st = "returned"]
            /\ UNCHANGED mail
  /\ UNCHANGED <<runs, phoenixLog, defibLog, checks, cut>>

(* The log is written once more, with the id of the escalation.  What goes  *)
(* wrong from here on is only told in the value that is returned, too: the  *)
(* message is acked with the log as it is, the old one if it could not be   *)
(* opened, an empty or broken one if it could not be written.               *)
ReopenLog ==
  /\ worker["persister"].st = "escalated"
  /\ \/ /\ phoenixLog' = [phoenixLog EXCEPT ![Held("persister").req] = Torn]
        /\ worker' = [worker EXCEPT !["persister"].st = "rewriting"]
        /\ UNCHANGED faults
     \/ /\ Fault
        /\ worker' = [worker EXCEPT !["persister"].st = "returned"]
        /\ UNCHANGED phoenixLog
  /\ UNCHANGED <<runs, mail, defibLog, checks, unsent, cut>>

RewriteLog ==
  /\ worker["persister"].st = "rewriting"
  /\ \/ /\ phoenixLog' = [phoenixLog EXCEPT ![Held("persister").req] =
                            LogOf(Held("persister"), worker["persister"].esc)]
        /\ UNCHANGED <<cut, faults>>
     \/ /\ Fault
        /\ cut' = cut \cup CutBy("persister")
        /\ UNCHANGED phoenixLog
  /\ worker' = [worker EXCEPT !["persister"].st = "returned"]
  /\ UNCHANGED <<runs, mail, defibLog, checks, unsent>>

-----------------------------------------------------------------------------
(* dev_recovery_defib.process_msg()                                         *)

(* _classify(): every class that applies, the generic one if none does.     *)
Detected(cmd, s) ==
  {c \in {"stale_in_flight", "dlq_has_messages", "daemon_down", "knowledge_stale",
          "phoenix_recovery_incomplete"} :
     \/ c = "stale_in_flight" /\ s.stale
     \/ c = "dlq_has_messages" /\ s.dlq
     \/ c = "daemon_down" /\ cmd = "CHECK_DAEMON" /\ s.daemonDown
     \/ c = "knowledge_stale" /\ s.oldRules
     \/ c = "phoenix_recovery_incomplete" /\ cmd = "PHOENIX_DEGRADED"}
Classes(cmd, s) ==
  IF Detected(cmd, s) = {} THEN {"generic_health_degraded"} ELSE Detected(cmd, s)

(* _dispatch(): two classes act on the queue (unless it raises, which only  *)
(* goes into the report), the others only name who has to act.              *)
Touched(cs, s) ==
  (IF "stale_in_flight" \in cs THEN {i \in DOMAIN mail : Abandoned(i)} ELSE {}) \cup
  (IF "dlq_has_messages" \in cs /\ ~s.dryRun
   THEN {i \in DOMAIN mail : mail[i].st = "dead"} ELSE {})

Done(m) == IF m.body.problem THEN Classes(m.body.cmd, m.body.summary) ELSE {"noop"}

Dispatch ==
  /\ worker["defib"].st = "got"
  /\ LET m == Held("defib")
     IN  \/ mail' = GivenUp(Touched(Done(m), m.body.summary))
         \/ Touched(Done(m), m.body.summary) # {} /\ UNCHANGED mail
  /\ worker' = [worker EXCEPT !["defib"].st = "dispatched"]
  /\ UNCHANGED <<runs, phoenixLog, defibLog, checks, unsent, cut, faults>>

(* Nobody reads the report, so its write is one step.                       *)
Report ==
  /\ worker["defib"].st = "dispatched"
  /\ defibLog' = [defibLog EXCEPT ![Held("defib").req] =
                    [src |-> worker["defib"].msg, did |-> Done(Held("defib"))]]
  /\ worker' = [worker EXCEPT !["defib"].st = "returned"]
  /\ UNCHANGED <<runs, mail, phoenixLog, checks, unsent, cut, faults>>

-----------------------------------------------------------------------------
(* dev_health_monitor.py: a command finds a problem or not (an unknown one  *)
(* reports an error), publishes according to --publish, and exits with 1    *)
(* for a problem, but not for the error.                                    *)
Finds(c) == IF c \in {"LOG_SESSION", "UNKNOWN"} THEN {FALSE} ELSE BOOLEAN
ShouldPublish(mode, problem) == mode = "always" \/ (mode = "on-degraded" /\ problem)

Monitor(r) ==
  /\ checks[r] = NoOne
  /\ \E c \in DefibCommands, mode \in {"always", "on-degraded", "never"}, s \in Summaries :
     \E found \in Finds(c) :
       LET problem == found \/ c = "UNKNOWN"
           m == Message(Degraded, r, <<r, "monitor">>,
                        [from |-> "monitor", cmd |-> c, problem |-> problem, summary |-> s])
       IN  /\ checks' = [checks EXCEPT ![r] = IF found THEN 1 ELSE 0]
           /\ IF ShouldPublish(mode, problem)
              THEN \/ mail' = Enqueued(m) /\ UNCHANGED faults
                   \/ Fault /\ UNCHANGED mail       \* [PUBLISH-ERROR] on stderr
              ELSE UNCHANGED <<mail, faults>>
  /\ UNCHANGED <<runs, worker, phoenixLog, defibLog, unsent, cut>>

-----------------------------------------------------------------------------
RecoveryInit ==
  /\ runs = [r \in Requests |-> NoRun]
  /\ mail = <<>>
  /\ worker = [w \in Workers |-> Resting]
  /\ phoenixLog = [r \in Requests |-> NoLog]
  /\ defibLog = [r \in Requests \cup Checks |-> NoOne]
  /\ checks = [r \in Checks |-> NoOne]
  /\ unsent = {}
  /\ cut = {}
  /\ faults = 0

RecoveryNext ==
  \/ \E r \in Requests : RunAgain(r)
  \/ \E r \in Requests : RunLevel(r)
  \/ \E r \in Requests : Publish(r)
  \/ \E w \in Workers : Take(w)
  \/ \E w \in Workers : Ack(w)
  \/ \E w \in Workers : Raise(w)
  \/ \E w \in Workers : Crash(w)
  \/ LeaseGivenUp
  \/ OpenLog \/ WriteLog \/ Escalate \/ ReopenLog \/ RewriteLog
  \/ Dispatch \/ Report
  \/ \E r \in Checks : Monitor(r)

(* The consumers are started again by their workflows and keep working; the *)
(* queue gives up leases.  Nobody has to start a recovery or a check.       *)
RecoveryFairness ==
  /\ WF_recoveryVars(Take("persister")) /\ WF_recoveryVars(Take("defib"))
  /\ WF_recoveryVars(Ack("persister")) /\ WF_recoveryVars(Ack("defib"))
  /\ WF_recoveryVars(LeaseGivenUp)
  /\ WF_recoveryVars(OpenLog \/ WriteLog \/ Escalate \/ ReopenLog \/ RewriteLog)
  /\ WF_recoveryVars(Dispatch \/ Report)

RecoverySpec == RecoveryInit /\ [][RecoveryNext]_recoveryVars /\ RecoveryFairness

-----------------------------------------------------------------------------
Escalations(r) ==
  {i \in DOMAIN mail : mail[i].topic = Degraded /\ mail[i].req = r
                       /\ mail[i].body.from = "persister"}

(* A completion that is done and tells of a degraded run is logged, and it  *)
(* was escalated unless the queue refused the escalation.                   *)
DegradedIsEscalated ==
  \A i \in DOMAIN mail :
    mail[i].topic = Completed /\ mail[i].st = "done" /\ NeedsAttention(mail[i].body) =>
      /\ phoenixLog[mail[i].req].status # "none"
      /\ Escalations(mail[i].req) # {} \/ mail[i].req \in unsent

(* The log never names an escalation that is not in the queue.              *)
LoggedEscalationExists ==
  \A r \in Requests : phoenixLog[r].esc = NoOne \/ phoenixLog[r].esc \in Escalations(r)

(* Without a fault a run is escalated at most once.                         *)
OneEscalationWithoutFault ==
  faults = 0 => \A r \in Requests : Cardinality(Escalations(r)) <= runs[r].nth

(* A log that is not whole is being written, or a write of it was cut off:  *)
(* by a fault, and then the message comes again, is dead, or, after its     *)
(* escalation, is acked.                                                    *)
CutOffIsKnown ==
  /\ \A r \in Requests : phoenixLog[r].status = "torn" => r \in cut \/ r \in CutBy("persister")
  /\ faults = 0 => cut = {}

(* A published degraded run reaches the defibrillator, whatever crashes,    *)
(* unless the queue refused the escalation or gave up a message.            *)
DegradedReachesDefib ==
  \A r \in Requests :
    (\E i \in DOMAIN mail : mail[i].topic = Completed /\ mail[i].req = r
                            /\ NeedsAttention(mail[i].body)) ~>
      (defibLog[r] # NoOne \/ r \in unsent \/ \E i \in DOMAIN mail : mail[i].st = "dead")

(* A degraded run is logged and escalated, and the two tell the same.       *)
EscalationsSound ==
  DegradedIsEscalated /\ CutOffIsKnown /\ LoggedEscalationExists /\ OneEscalationWithoutFault

(* Not kept by the code, see the README: the comment at line 184 of the     *)
(* persister says that a failed escalation does not lose the original log.  *)
EscalationKeepsLog ==
  \A i \in DOMAIN mail :
    mail[i].topic = Completed /\ mail[i].st = "done" /\ NeedsAttention(mail[i].body) =>
      phoenixLog[mail[i].req].status # "torn" \/ mail[i].req \in CutBy("persister")
=============================================================================
