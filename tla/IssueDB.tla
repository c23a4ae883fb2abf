------------------------------- MODULE IssueDB -------------------------------
(***************************************************************************)
(* The issue database of the improvement pipeline, tools/dev_issue_db.py:  *)
(* one JSON file that several stages load, change in memory and save.      *)
(*                                                                         *)
(* A stage works in one of three ways.  Locked stages use save_with_lock:  *)
(* flock, load, change, save.  Plain ones (the scanner, the bulk import    *)
(* and the command line) load when they start and save at the end, without *)
(* the lock.  Reloading ones are the loops of the pipeline's recipes,      *)
(* which construct a new IssueDB for each item and save once at the end.   *)
(*                                                                         *)
(* save() writes a .tmp file whose name all processes share.  It has three *)
(* steps here: open (which truncates), write, rename.  A process that has  *)
(* the file open keeps writing to it when another one renames it.          *)
(***************************************************************************)
EXTENDS Naturals

CONSTANTS
    Procs,        \* stages and command-line calls
    NoProc,       \* nobody holds the lock
    Locked,       \* those that use save_with_lock
    Reloading,    \* those that reload for each item
    Hashes,       \* issue hashes
    MaxCount,     \* bound of the model: sightings of an issue
    MaxNotes,     \* bound of the model: designs and outcomes of an issue
    MaxCrashes    \* bound of the model: crashes

ASSUME IssueAssumption ==
    /\ NoProc \notin Procs
    /\ Locked \subseteq Procs
    /\ Reloading \subseteq Procs \ Locked
    /\ MaxCount \in Nat /\ MaxNotes \in Nat /\ MaxCrashes \in Nat

VARIABLES
    db,         \* issue_db.json
    tmp,        \* issue_db.json.tmp
    lock,       \* who holds issue_db.json.lock
    at,         \* where a stage stands
    mem,        \* its self._data["issues"]
    fd,         \* where the .tmp file it has open is by now
    session,    \* marks that returned True since it was constructed last saved
    marked,     \* history: marks whose save() has returned
    crashes

vars == <<db, tmp, lock, at, mem, fd, session, marked, crashes>>

-----------------------------------------------------------------------------
IssueStatus == {"unknown", "open", "fixed", "wontfix"}

Issue == [status : IssueStatus, count : 0..MaxCount, notes : 0..MaxNotes]

Unknown == [status |-> "unknown", count |-> 0, notes |-> 0]

Blank == [h \in Hashes |-> Unknown]

\* A file is absent, empty (just truncated), torn (no JSON) or complete.
File == [state : {"absent", "empty", "torn", "full"}, issues : [Hashes -> Issue]]

Absent == [state |-> "absent", issues |-> Blank]
Empty == [state |-> "empty", issues |-> Blank]
Torn == [state |-> "torn", issues |-> Blank]
Full(issues) == [state |-> "full", issues |-> issues]

\* _load_or_init returns; otherwise json.load raises.
Loads(file) == file.state \in {"absent", "full"}

\* Mutation: the flock is not waited for.
Unlocked(p) == p \in Procs

CanLock(p) == lock = NoProc

-----------------------------------------------------------------------------
(* The start of a session                                                   *)

LockAndLoad(p) ==
    /\ at[p] = "idle"
    /\ p \in Locked
    /\ CanLock(p)
    /\ Loads(db)
    /\ lock' = p
    /\ mem' = [mem EXCEPT ![p] = db.issues]
    /\ at' = [at EXCEPT ![p] = "editing"]
    /\ UNCHANGED <<db, tmp, fd, session, marked, crashes>>

Load(p) ==
    /\ at[p] = "idle"
    /\ p \notin Locked
    /\ Loads(db)
    /\ mem' = [mem EXCEPT ![p] = db.issues]
    /\ at' = [at EXCEPT ![p] = "editing"]
    /\ UNCHANGED <<db, tmp, lock, fd, session, marked, crashes>>

\* The next item of a recipe's loop: db = IssueDB() again.
Reload(p) ==
    /\ at[p] = "editing"
    /\ p \in Reloading
    /\ Loads(db)
    /\ mem' = [mem EXCEPT ![p] = db.issues]
    /\ UNCHANGED <<db, tmp, lock, at, fd, session, marked, crashes>>

-----------------------------------------------------------------------------
(* Changes in memory                                                        *)

Put(p, h, issue) ==
    /\ at[p] = "editing"
    /\ mem' = [mem EXCEPT ![p][h] = issue]
    /\ UNCHANGED <<db, tmp, lock, at, fd, marked, crashes>>

\* A sighting: a new issue, or one more instance of an open one.  A closed issue
\* is left as it is.
Register(p, h) ==
    /\ mem[p][h].status \in {"unknown", "open"}
    /\ mem[p][h].count < MaxCount
    /\ Put(p, h, [mem[p][h] EXCEPT !.status = "open", !.count = @ + 1])
    /\ UNCHANGED session

\* Mutation: an issue is marked whatever its status is.
MarkFixedAny(p, h) ==
    /\ mem[p][h].status # "unknown"
    /\ mem[p][h].notes < MaxNotes
    /\ Put(p, h, [mem[p][h] EXCEPT !.status = "fixed", !.notes = @ + 1])
    /\ session' = [session EXCEPT ![p] = @ \cup {<<h, "fixed">>}]

MarkFixed(p, h) ==
    /\ mem[p][h].status = "open"
    /\ mem[p][h].notes < MaxNotes
    /\ Put(p, h, [mem[p][h] EXCEPT !.status = "fixed", !.notes = @ + 1])
    /\ session' = [session EXCEPT ![p] = @ \cup {<<h, "fixed">>}]

MarkWontfix(p, h) ==
    /\ mem[p][h].status \in {"open", "fixed"}
    /\ Put(p, h, [mem[p][h] EXCEPT !.status = "wontfix"])
    /\ session' = [session EXCEPT ![p] = @ \cup {<<h, "wontfix">>}]

\* record_design and record_validation append to an issue of any status.
Record(p, h) ==
    /\ mem[p][h].status # "unknown"
    /\ mem[p][h].notes < MaxNotes
    /\ Put(p, h, [mem[p][h] EXCEPT !.notes = @ + 1])
    /\ UNCHANGED session

-----------------------------------------------------------------------------
(* save                                                                     *)

\* Mutation: the file is written in place.
SaveInPlace(p) ==
    /\ at[p] = "editing"
    /\ db' = Empty
    /\ fd' = [fd EXCEPT ![p] = "db"]
    /\ at' = [at EXCEPT ![p] = "opened"]
    /\ UNCHANGED <<tmp, lock, mem, session, marked, crashes>>

SaveOpen(p) ==
    /\ at[p] = "editing"
    /\ tmp' = Empty
    /\ fd' = [fd EXCEPT ![p] = "tmp"]
    /\ at' = [at EXCEPT ![p] = "opened"]
    /\ UNCHANGED <<db, lock, mem, session, marked, crashes>>

\* Writing over what another process wrote in the same file leaves the rest of
\* it behind if that was longer.
Written(p, file) == {Full(mem[p])} \cup IF file.state = "empty" THEN {} ELSE {Torn}

\* Mutation: the buffer is not flushed before the rename.
SaveUnflushed(p) ==
    /\ at[p] = "opened"
    /\ fd' = [fd EXCEPT ![p] = "none"]
    /\ at' = [at EXCEPT ![p] = "written"]
    /\ UNCHANGED <<db, tmp, lock, mem, session, marked, crashes>>

SaveWrite(p) ==
    /\ at[p] = "opened"
    /\ IF fd[p] = "tmp" THEN tmp' \in Written(p, tmp) ELSE tmp' = tmp
    /\ IF fd[p] = "db" THEN db' \in Written(p, db) ELSE db' = db
    /\ fd' = [fd EXCEPT ![p] = "none"]
    /\ at' = [at EXCEPT ![p] = "written"]
    /\ UNCHANGED <<lock, mem, session, marked, crashes>>

EndSession(p) ==
    /\ at' = [at EXCEPT ![p] = "idle"]
    /\ mem' = [mem EXCEPT ![p] = Blank]
    /\ session' = [session EXCEPT ![p] = {}]
    /\ lock' = IF lock = p THEN NoProc ELSE lock

\* Whoever has the .tmp file open has the database open now, and whoever had
\* the database open has a file without a name.
SaveRename(p) ==
    /\ at[p] = "written"
    /\ tmp.state # "absent"
    /\ db' = tmp
    /\ tmp' = Absent
    /\ fd' = [q \in Procs |-> CASE fd[q] = "tmp" -> "db"
                                [] fd[q] = "db" -> "gone"
                                [] OTHER -> fd[q]]
    /\ marked' = marked \cup session[p]
    /\ EndSession(p)
    /\ UNCHANGED crashes

\* Another process has renamed the .tmp file: os.rename raises.
SaveRaises(p) ==
    /\ at[p] = "written"
    /\ tmp.state = "absent"
    /\ EndSession(p)
    /\ UNCHANGED <<db, tmp, fd, marked, crashes>>

Crash(p) ==
    /\ crashes < MaxCrashes
    /\ at[p] # "idle"
    /\ crashes' = crashes + 1
    /\ fd' = [fd EXCEPT ![p] = "none"]
    /\ EndSession(p)
    /\ UNCHANGED <<db, tmp, marked>>

-----------------------------------------------------------------------------
Init ==
    /\ db = Absent
    /\ tmp = Absent
    /\ lock = NoProc
    /\ at = [p \in Procs |-> "idle"]
    /\ mem = [p \in Procs |-> Blank]
    /\ fd = [p \in Procs |-> "none"]
    /\ session = [p \in Procs |-> {}]
    /\ marked = {}
    /\ crashes = 0

Step(p) ==
    \/ LockAndLoad(p) \/ Load(p) \/ Reload(p)
    \/ \E h \in Hashes :
         Register(p, h) \/ MarkFixed(p, h) \/ MarkWontfix(p, h) \/ Record(p, h)
    \/ SaveOpen(p) \/ SaveWrite(p) \/ SaveRename(p) \/ SaveRaises(p)
    \/ Crash(p)

Next == \E p \in Procs : Step(p)

Spec == Init /\ [][Next]_vars

-----------------------------------------------------------------------------
(* Properties                                                               *)

\* Every variable has its type.
TypeOK ==
    /\ db \in File
    /\ tmp \in File
    /\ lock \in Procs \cup {NoProc}
    /\ at \in [Procs -> {"idle", "editing", "opened", "written"}]
    /\ mem \in [Procs -> [Hashes -> Issue]]
    /\ fd \in [Procs -> {"none", "tmp", "db", "gone"}]
    /\ session \in [Procs -> SUBSET (Hashes \X {"fixed", "wontfix"})]
    /\ marked \subseteq Hashes \X {"fixed", "wontfix"}
    /\ crashes \in Nat

\* At any time, whatever a stage or a crash has interrupted, the database can
\* be loaded.
Readable == Loads(db)

\* Without a crash an empty database is a passing state, even if the stages do
\* not lock: a process that is about to write has the file open.
EmptyIsBeingWritten ==
    crashes = 0 /\ db.state = "empty" => \E p \in Procs : fd[p] = "db"

\* A mark is in the database once mark_fixed or mark_wontfix has returned True
\* and save() has returned: nobody's save undoes it.
MarksKept ==
    \A h \in Hashes :
        /\ <<h, "wontfix">> \in marked => db.issues[h].status = "wontfix"
        /\ <<h, "fixed">> \in marked => db.issues[h].status \in {"fixed", "wontfix"}

\* The file implements the book of issues: what a stage saves builds on what
\* every other stage has saved before.
Book == INSTANCE IssueBook WITH book <- db.issues

BookImplements == Book!Spec

-----------------------------------------------------------------------------
(* Stated by the pipeline's recipes, and not kept without the lock          *)

\* An issue that is marked wontfix stays so.
WontfixPermanent ==
    [][\A h \in Hashes :
         db.issues[h].status = "wontfix" => db'.issues[h].status = "wontfix"]_vars

=============================================================================
