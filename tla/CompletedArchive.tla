-------------------------- MODULE CompletedArchive --------------------------
(***************************************************************************)
(* The archive of done messages of one topic, in dev_message_queue.py:     *)
(* ack() appends to it, requeue() takes from it, and compact_completed()   *)
(* copies it to a file named after the day and keeps its last lines.  Only *)
(* the first two hold the lock of the topic.  A dated archive looks like   *)
(* that of a topic of its own, and requeue() looks through all of them.    *)
(***************************************************************************)
EXTENDS Integers, Sequences, SequencesExt

CONSTANTS
  Jobs,       \* the messages
  Days,       \* the number of days that pass
  MaxLines, KeepRecent

ASSUME ArchiveAssumption ==
  /\ Days \in Nat \ {0} /\ KeepRecent \in Nat \ {0}
  /\ MaxLines \in Nat /\ KeepRecent <= MaxLines

VARIABLES
  live,       \* messages that are pending in the topic
  archive,    \* <topic>.completed.ndjson
  dated,      \* day -> <topic>.<day>.completed.ndjson
  stray,      \* day -> messages that are pending in the topic <topic>.<day>
  day,
  compaction, \* the call of compact_completed()
  kept,       \* observation: messages whose line a compaction left in two archives
  mishap      \* observation: what may have lost an archived message

archiveVars == <<live, archive, dated, stray, day, compaction, kept, mishap>>

DayNumbers == 1..Days
NoCompaction == [pc |-> "no", lines |-> << >>, to |-> 0]
During == IF compaction.pc # "no" THEN {"overlap"} ELSE {}
Lines(s) == {s[i] : i \in DOMAIN s}
Over(written, there) == written \o SubSeq(there, Len(written) + 1, Len(there))

(* ack(): archived first, removed then, under the lock of the topic.        *)
AckJob(j) ==
  /\ j \in live
  /\ archive' = Append(archive, j) /\ live' = live \ {j}
  /\ mishap' = mishap \cup During
  /\ UNCHANGED <<dated, stray, day, compaction, kept>>

(* requeue(): taken from the archive in which it was found first, and       *)
(* pending in the topic that is named as the archive.                       *)
RequeueLive(j) ==
  /\ j \in Lines(archive)
  /\ archive' = RemoveFirst(archive, j) /\ live' = live \cup {j}
  /\ mishap' = mishap \cup During
  /\ UNCHANGED <<dated, stray, day, compaction, kept>>
RequeueStray(j, d) ==
  /\ j \in Lines(dated[d])
  /\ dated' = [dated EXCEPT ![d] = RemoveFirst(@, j)]
  /\ stray' = [stray EXCEPT ![d] = @ \cup {j}]
  /\ UNCHANGED <<live, archive, day, compaction, kept, mishap>>

(* compact_completed(): read; overwrite the archive of the day; open the    *)
(* archive to write; write its last lines.                                  *)
ReadArchive ==
  /\ compaction.pc = "no" /\ Len(archive) > MaxLines
  /\ compaction' = [pc |-> "copy", lines |-> archive, to |-> day]
  /\ UNCHANGED <<live, archive, dated, stray, day, kept, mishap>>
(* Mutation: the first line is taken for a header.                          *)
WriteDatedRecent ==
  /\ compaction.pc = "copy"
  /\ mishap' = mishap
  /\ dated' = [dated EXCEPT ![compaction.to] = Tail(compaction.lines)]
  /\ compaction' = [compaction EXCEPT !.pc = "open"]
  /\ UNCHANGED <<live, archive, stray, day, kept>>

WriteDated ==
  /\ compaction.pc = "copy"
  /\ mishap' = mishap \cup (IF dated[compaction.to] # << >> THEN {"again"} ELSE {})
  /\ dated' = [dated EXCEPT ![compaction.to] = compaction.lines]
  /\ compaction' = [compaction EXCEPT !.pc = "open"]
  /\ UNCHANGED <<live, archive, stray, day, kept>>
OpenArchive ==
  /\ compaction.pc = "open"
  /\ archive' = << >>
  /\ compaction' = [compaction EXCEPT !.pc = "keep"]
  /\ UNCHANGED <<live, dated, stray, day, kept, mishap>>
KeepLast ==
  /\ compaction.pc = "keep"
  /\ LET n == Len(compaction.lines)
         recent == SubSeq(compaction.lines, n - KeepRecent + 1, n)
     IN  /\ archive' = Over(recent, archive)
         /\ kept' = kept \cup Lines(recent)
  /\ compaction' = NoCompaction
  /\ UNCHANGED <<live, dated, stray, day, mishap>>

NextDay ==
  /\ day < Days /\ day' = day + 1
  /\ UNCHANGED <<live, archive, dated, stray, compaction, kept, mishap>>

ArchiveInit ==
  /\ live = Jobs /\ archive = << >> /\ day = 1
  /\ dated = [d \in DayNumbers |-> << >>] /\ stray = [d \in DayNumbers |-> {}]
  /\ compaction = NoCompaction /\ kept = {} /\ mishap = {}

ArchiveNext ==
  \/ \E j \in live : AckJob(j)
  \/ \E j \in Lines(archive) : RequeueLive(j)
  \/ \E d \in DayNumbers : \E j \in Lines(dated[d]) : RequeueStray(j, d)
  \/ ReadArchive
  \/ WriteDated
  \/ OpenArchive
  \/ KeepLast
  \/ NextDay

ArchiveSpec == ArchiveInit /\ [][ArchiveNext]_archiveVars

-----------------------------------------------------------------------------
ArchiveTypeOK ==
  /\ live \in SUBSET Jobs
  /\ archive \in Seq(Jobs)
  /\ dated \in [DayNumbers -> Seq(Jobs)]
  /\ stray \in [DayNumbers -> SUBSET Jobs]
  /\ day \in DayNumbers
  /\ compaction \in [pc : {"no", "copy", "open", "keep"}, lines : Seq(Jobs), to : 0..Days]
  /\ kept \in SUBSET Jobs
  /\ mishap \in SUBSET {"overlap", "again"}

(* A message is pending or in an archive, unless somebody acked or requeued *)
(* during a compaction, or a second compaction of a day overwrote what the  *)
(* first had saved.                                                         *)
ArchivesKeep ==
  mishap = {} =>
    Jobs = live \cup Lines(archive) \cup UNION {Lines(dated[d]) \cup stray[d] : d \in DayNumbers}

(* The files a message can be pending or done in.                           *)
ArchivePlaces == {<<"pending", 0>>, <<"done", 0>>} \cup ({"stray", "dated"} \X DayNumbers)
Standing(p) ==
  CASE p[1] = "pending" -> live
    [] p[1] = "done"    -> Lines(archive)
    [] p[1] = "stray"   -> stray[p[2]]
    [] p[1] = "dated"   -> Lines(dated[p[2]])

(* A message is never pending twice, done twice, or pending and done, the   *)
(* archives of past days and their topics included, unless a compaction     *)
(* kept its line in the archive as well as in that of the day (or for the   *)
(* causes above).  While a compaction is between the two, what it has read  *)
(* is in both.                                                              *)
PendingOrDoneOnce ==
  mishap = {} =>
    /\ IsInjective(archive) /\ \A d \in DayNumbers : IsInjective(dated[d])
    /\ \A p, q \in ArchivePlaces :
         /\ p # q
         /\ compaction.pc \in {"open", "keep"} => p[1] # "done" /\ q[1] # "done"
         => Standing(p) \cap Standing(q) \subseteq kept

(* Compaction loses no settled job, and a job is settled in one place, but  *)
(* for the named causes.                                                    *)
ArchiveSound == ArchiveTypeOK /\ ArchivesKeep /\ PendingOrDoneOnce
=============================================================================
