--------------------------- MODULE DispatchTracker ---------------------------
(***************************************************************************)
(* dev_dispatch_tracker.py: the tree of delegated tasks.  A dispatch is    *)
(* appended to a log that everybody shares and copied to the topic         *)
(* `dispatches`; closing one reads the whole log and writes it anew.  No   *)
(* call takes a lock, and an id is a time stamp cut off after tenths of a  *)
(* second.                                                                 *)
(***************************************************************************)
EXTENDS Integers, Sequences

CONSTANTS
  Trackers,    \* processes that report dispatches
  Instants,    \* the time stamps: an id is one of them
  Root,        \* the parent of a dispatch without one
  MaxEntries,  \* bound of the log
  MaxShown     \* last_n of get_tree()

ASSUME TrackerAssumption ==
  /\ Root \notin Instants /\ MaxEntries \in Nat /\ MaxShown \in Nat

VARIABLES
  log,       \* entries of the NDJSON file
  closing,   \* tracker -> its call of done()
  told,      \* the events that the topic `dispatches` was given
  added,     \* observation: ids given out
  losses     \* observation: what may have removed or aged an entry

trackerVars == <<log, closing, told, added, losses>>

LogEntry(id, parent) == [id |-> id, parent |-> parent, status |-> "running"]
Open == [pc |-> "open", id |-> Root, read |-> << >>, hit |-> FALSE]
Ids == {log[i].id : i \in DOMAIN log}
Overlap == IF \E t \in Trackers : closing[t].pc # "open" THEN {"overlap"} ELSE {}

(* enqueue() under the key of the event; a failure is only logged.          *)
Tell(event, why) ==
  \/ told' = told \cup {event} /\ losses' = losses \cup why
  \/ told' = told /\ losses' = losses \cup why \cup {"queue"}

-----------------------------------------------------------------------------
(* add(): the id is that of an earlier dispatch if that one was added in    *)
(* the same tenth of a second.  Whoever is between reading and writing the  *)
(* log will write it without the new entry.                                 *)
AddDispatch(id, parent) ==
  /\ Len(log) < MaxEntries
  /\ parent \in {Root} \cup Ids
  /\ log' = Append(log, LogEntry(id, parent))
  /\ Tell(<<"start", id>>, (IF id \in added THEN {"clash"} ELSE {}) \cup Overlap)
  /\ added' = added \cup {id}
  /\ UNCHANGED closing

(* done() reads the log ...                                                 *)
ReadLog(t, id) ==
  /\ closing[t].pc = "open"
  /\ closing' = [closing EXCEPT ![t] = [pc |-> "read", id |-> id, read |-> log, hit |-> FALSE]]
  /\ losses' = losses \cup Overlap
  /\ UNCHANGED <<log, told, added>>

(* ... changes the first entry of that id, and opens the file to write ...  *)
FirstOf(entries, id) ==
  {i \in DOMAIN entries : entries[i].id = id /\ \A j \in 1..(i - 1) : entries[j].id # id}

Shut(entries, id) ==
  [i \in DOMAIN entries |->
     IF i \in FirstOf(entries, id) THEN [entries[i] EXCEPT !.status = "done"] ELSE entries[i]]

TruncateLog(t) ==
  /\ closing[t].pc = "read"
  /\ log' = << >>
  /\ LET id == closing[t].id
         entries == closing[t].read
     IN  closing' = [closing EXCEPT ![t] = [pc |-> "write", id |-> id, read |-> Shut(entries, id),
                                            hit |-> FirstOf(entries, id) # {}]]
  /\ UNCHANGED <<told, added, losses>>

(* Mutation: the first line is taken for a header.                         *)
WriteLogTail(t) ==
  /\ closing[t].pc = "write"
  /\ log' = SubSeq(closing[t].read, 2, Len(closing[t].read))
  /\ closing' = [closing EXCEPT ![t] = IF closing[t].hit THEN [closing[t] EXCEPT !.pc = "tell"] ELSE Open]
  /\ UNCHANGED <<told, added, losses>>

(* ... writes every entry that it read over whatever was appended meanwhile *)
(* and reports the one it changed.                                          *)
WriteLog(t) ==
  /\ closing[t].pc = "write"
  /\ log' = closing[t].read \o SubSeq(log, Len(closing[t].read) + 1, Len(log))
  /\ closing' = [closing EXCEPT ![t] = IF closing[t].hit THEN [closing[t] EXCEPT !.pc = "tell"] ELSE Open]
  /\ UNCHANGED <<told, added, losses>>

TellClosed(t) ==
  /\ closing[t].pc = "tell"
  /\ Tell(<<"done", closing[t].id>>, {})
  /\ closing' = [closing EXCEPT ![t] = Open]
  /\ UNCHANGED <<log, added>>

(* --clear removes the file: who is writing it writes a file without a name. *)
ClearLog ==
  /\ log # << >> /\ "clear" \notin losses   \* bound: once
  /\ log' = << >>
  /\ closing' = [t \in Trackers |->
        IF closing[t].pc = "write" THEN [closing[t] EXCEPT !.read = << >>] ELSE closing[t]]
  /\ losses' = losses \cup {"clear"}
  /\ UNCHANGED <<told, added>>

TrackerDies(t) ==
  /\ closing[t].pc # "open" /\ "death" \notin losses   \* bound: once
  /\ closing' = [closing EXCEPT ![t] = Open]
  /\ losses' = IF closing[t].pc \in {"write", "tell"} THEN losses \cup {"death"} ELSE losses
  /\ UNCHANGED <<log, told, added>>

-----------------------------------------------------------------------------
(* get_tree(): the last entries, printed from those without a parent down.  *)
TreeWindow == SubSeq(log, IF Len(log) > MaxShown THEN Len(log) - MaxShown + 1 ELSE 1, Len(log))
TreeRoots(w) == {i \in DOMAIN w : w[i].parent = Root}
ChildrenOf(w, i) == {j \in DOMAIN w : w[j].parent = w[i].id}
Downward(w, S) == TreeRoots(w) \subseteq S /\ \A i \in S : ChildrenOf(w, i) \subseteq S
Printed(w) == {i \in DOMAIN w : \A S \in SUBSET DOMAIN w : Downward(w, S) => i \in S}

TrackerInit ==
  /\ log = << >> /\ closing = [t \in Trackers |-> Open]
  /\ told = {} /\ added = {} /\ losses = {}

TrackerNext ==
  \/ \E id \in Instants, parent \in Instants \cup {Root} : AddDispatch(id, parent)
  \/ \E t \in Trackers, id \in Instants : ReadLog(t, id)
  \/ \E t \in Trackers : TruncateLog(t)
  \/ \E t \in Trackers : WriteLog(t)
  \/ \E t \in Trackers : TellClosed(t)
  \/ ClearLog
  \/ \E t \in Trackers : TrackerDies(t)

TrackerSpec == TrackerInit /\ [][TrackerNext]_trackerVars
-----------------------------------------------------------------------------
TrackerTypeOK ==
  /\ log \in Seq([id : Instants, parent : Instants \cup {Root},
                  status : {"running", "done"}])
  /\ closing \in [Trackers -> [pc : {"open", "read", "write", "tell"}, id : Instants \cup {Root},
                               read : Seq([id : Instants, parent : Instants \cup {Root},
                                           status : {"running", "done"}]),
                               hit : BOOLEAN]]
  /\ told \in SUBSET ({"start", "done"} \X Instants)
  /\ added \in SUBSET Instants
  /\ losses \in SUBSET {"clash", "overlap", "clear", "death", "queue"}

(* A dispatch leaves the log only when somebody cleared it, when two calls  *)
(* overlapped, when a writer died, or while one writes.                     *)
EntriesKept ==
  losses \subseteq {"clash", "queue"} /\ (\A t \in Trackers : closing[t].pc # "write")
    => added \subseteq Ids

(* As long as nothing of that sort happened, the log, the queue and the     *)
(* tree tell the same: an entry is closed iff its event was sent, nothing   *)
(* else was sent, and the tree shows every entry if none is too old.        *)
TreeAgrees ==
  losses = {} =>
    /\ \A i \in DOMAIN log :
         (\A t \in Trackers : closing[t].pc # "tell" \/ closing[t].id # log[i].id)
           => (log[i].status # "running" <=> <<"done", log[i].id>> \in told)
    /\ told \subseteq ({"start", "done"} \X added)
    /\ Len(log) <= MaxShown => Printed(TreeWindow) = DOMAIN log

(* The dispatch log loses an entry only for a named cause, and the tree     *)
(* shows what is there.                                                     *)
TrackerSound == TrackerTypeOK /\ EntriesKept /\ TreeAgrees
=============================================================================
