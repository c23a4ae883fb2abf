---------------------------- MODULE IssueDB_proofs ----------------------------
(***************************************************************************)
(* Theorems about IssueDB.  If every stage uses save_with_lock, the file   *)
(* can always be loaded, no mark that was saved is lost, and the file      *)
(* implements the book of issues, for any number of stages and issues and  *)
(* with crashes between any two steps of a save.                           *)
(***************************************************************************)
EXTENDS IssueDB, TLAPS

AllLocked == Locked = Procs

\* A mark is visible in a map of issues.
Shows(issues, mark) ==
    /\ mark[2] = "wontfix" => issues[mark[1]].status = "wontfix"
    /\ mark[2] = "fixed" => issues[mark[1]].status \in {"fixed", "wontfix"}

\* Whoever is in a session holds the lock.
SessionLocks == \A p \in Procs : at[p] # "idle" => lock = p

\* Where the .tmp file of a session stands.
TmpOwned ==
    \A p \in Procs :
        /\ fd[p] = "none" \/ fd[p] = "tmp"
        /\ at[p] = "opened" => fd[p] = "tmp" /\ tmp.state = "empty"
        /\ at[p] # "opened" => fd[p] = "none"
        /\ at[p] = "written" => tmp = Full(mem[p])

\* What a session has in memory builds on the database and shows its marks.
Builds ==
    \A p \in Procs :
        /\ at[p] = "idle" => session[p] = {}
        /\ at[p] # "idle" => \A h \in Hashes : Book!Later(db.issues[h], mem[p][h])
        /\ at[p] # "idle" => \A mark \in session[p] : Shows(mem[p], mark)

Saved == Readable /\ \A mark \in marked : Shows(db.issues, mark)

LockInv == TypeOK /\ SessionLocks /\ TmpOwned /\ Builds /\ Saved

-----------------------------------------------------------------------------
\* An issue is a later version of itself.
LEMMA LaterReflexive == \A i \in Issue : Book!Later(i, i)
BY IssueAssumption DEF Issue, IssueStatus, Book!Later

\* Versions of versions are versions.
LEMMA LaterTransitive ==
    \A i, j, k \in Issue : Book!Later(i, j) /\ Book!Later(j, k) => Book!Later(i, k)
BY IssueAssumption DEF Issue, IssueStatus, Book!Later

\* One more sighting of an issue is a later version of it.
LEMMA Sighting ==
    ASSUME NEW i \in Issue, i.count < MaxCount, i.status \in {"unknown", "open"}
    PROVE  LET j == [i EXCEPT !.status = "open", !.count = @ + 1]
           IN  j \in Issue /\ Book!Later(i, j)
<1>. DEFINE j == [i EXCEPT !.status = "open", !.count = @ + 1]
<1>1. i.count \in 0..MaxCount /\ i.notes \in 0..MaxNotes
  BY DEF Issue
<1>2. i.count + 1 \in 0..MaxCount /\ i.count =< i.count + 1 /\ i.notes =< i.notes
  BY <1>1, IssueAssumption
<1>3. j.status = "open" /\ j.count = i.count + 1 /\ j.notes = i.notes
  BY Zenon DEF Issue
<1>4. \A s \in IssueStatus, k \in 0..MaxCount :
        [i EXCEPT !.status = s, !.count = k] \in Issue
  BY DEF Issue
<1>5. j \in Issue
  BY <1>2, <1>4 DEF IssueStatus
<1>6. Book!Later(i, j)
  BY <1>2, <1>3 DEF Book!Later
<1>. QED BY <1>5, <1>6

\* A first fix of an open issue is a later version of it.
LEMMA Outcome ==
    ASSUME NEW i \in Issue, i.notes < MaxNotes, i.status = "open"
    PROVE  LET j == [i EXCEPT !.status = "fixed", !.notes = @ + 1]
           IN  j \in Issue /\ Book!Later(i, j)
<1>. DEFINE j == [i EXCEPT !.status = "fixed", !.notes = @ + 1]
<1>1. i.count \in 0..MaxCount /\ i.notes \in 0..MaxNotes
  BY DEF Issue
<1>2. i.notes + 1 \in 0..MaxNotes /\ i.notes =< i.notes + 1 /\ i.count =< i.count
  BY <1>1, IssueAssumption
<1>3. j.status = "fixed" /\ j.count = i.count /\ j.notes = i.notes + 1
  BY Zenon DEF Issue
<1>4. \A s \in IssueStatus, k \in 0..MaxNotes :
        [i EXCEPT !.status = s, !.notes = k] \in Issue
  BY DEF Issue
<1>5. j \in Issue
  BY <1>2, <1>4 DEF IssueStatus
<1>6. Book!Later(i, j)
  BY <1>2, <1>3 DEF Book!Later
<1>. QED BY <1>5, <1>6

\* A mark that shows in a map of issues shows in every later version of it.
LEMMA ShowsLater ==
    ASSUME NEW a \in [Hashes -> Issue], NEW b \in [Hashes -> Issue],
           NEW mark \in Hashes \X {"fixed", "wontfix"},
           \A h \in Hashes : Book!Later(a[h], b[h]), Shows(a, mark)
    PROVE  Shows(b, mark)
<1>1. Book!Later(a[mark[1]], b[mark[1]])
  OBVIOUS
<1>. QED BY <1>1 DEF Shows, Book!Later

\* The invariant holds initially.
LEMMA LockInit == ASSUME Init PROVE LockInv
<1>1. Unknown \in Issue
  BY IssueAssumption DEF Unknown, Issue, IssueStatus
<1>2. Blank \in [Hashes -> Issue]
  BY <1>1 DEF Blank
<1>3. Absent \in File
  BY <1>2 DEF Absent, File
<1>4. TypeOK
  BY <1>2, <1>3 DEF Init, TypeOK
<1>. QED
  BY <1>4 DEF Init, LockInv, SessionLocks, TmpOwned, Builds, Saved, Readable, Loads, Absent

\* A change in memory to a later version that shows the session's marks.
LEMMA EditStep ==
    ASSUME LockInv, NEW p \in Procs, NEW h \in Hashes, NEW issue \in Issue,
           Put(p, h, issue), Book!Later(mem[p][h], issue),
           session' \in [Procs -> SUBSET (Hashes \X {"fixed", "wontfix"})],
           \A q \in Procs : q # p => session'[q] = session[q],
           \A mark \in session'[p] : mark \in session[p] \/ Shows(mem'[p], mark)
    PROVE  LockInv' /\ db' = db
<1>. USE DEF LockInv
<1>0. at[p] = "editing" /\ lock = p /\ mem[p] \in [Hashes -> Issue]
  BY DEF Put, SessionLocks, TypeOK
<1>1. mem' \in [Procs -> [Hashes -> Issue]]
  BY DEF Put, TypeOK
<1>2. TypeOK'
  BY <1>1 DEF Put, TypeOK
<1>3. SessionLocks' /\ Saved'
  BY DEF Put, SessionLocks, Saved, Readable
<1>4. \A q \in Procs : q # p => mem'[q] = mem[q] /\ at[q] = "idle"
  BY <1>0, IssueAssumption DEF Put, TypeOK, SessionLocks
<1>5. TmpOwned'
  BY <1>0, <1>4 DEF Put, TmpOwned
<1>6. \A g \in Hashes : Book!Later(mem[p][g], mem'[p][g])
  <2>. TAKE g \in Hashes
  <2>1. mem'[p][g] = IF g = h THEN issue ELSE mem[p][g]
    BY DEF Put, TypeOK
  <2>2. Book!Later(mem[p][g], mem[p][g])
    BY <1>0, LaterReflexive
  <2>. QED BY <2>1, <2>2
<1>7. \A g \in Hashes : Book!Later(db.issues[g], mem'[p][g])
  <2>. TAKE g \in Hashes
  <2>1. db.issues[g] \in Issue /\ mem[p][g] \in Issue /\ mem'[p][g] \in Issue
    BY <1>0, <1>1 DEF TypeOK, File
  <2>2. Book!Later(db.issues[g], mem[p][g])
    BY <1>0 DEF Builds
  <2>. QED BY <2>1, <2>2, <1>6, LaterTransitive
<1>8. \A mark \in session'[p] : Shows(mem'[p], mark)
  <2>. SUFFICES ASSUME NEW mark \in session[p] PROVE Shows(mem'[p], mark)
    OBVIOUS
  <2>1. Shows(mem[p], mark) /\ mark \in Hashes \X {"fixed", "wontfix"}
    BY <1>0 DEF Builds, TypeOK
  <2>2. mem'[p] \in [Hashes -> Issue]
    BY <1>1
  <2>. QED BY <2>1, <2>2, <1>0, <1>6, ShowsLater
<1>9. Builds'
  <2>. SUFFICES ASSUME NEW q \in Procs
                PROVE  /\ at'[q] = "idle" => session'[q] = {}
                       /\ at'[q] # "idle" =>
                            \A g \in Hashes : Book!Later(db'.issues[g], mem'[q][g])
                       /\ at'[q] # "idle" => \A mark \in session'[q] : Shows(mem'[q], mark)
    BY DEF Builds
  <2>1. CASE q = p
    BY <2>1, <1>0, <1>7, <1>8 DEF Put
  <2>2. CASE q # p
    BY <2>2, <1>4 DEF Put, Builds
  <2>. QED BY <2>1, <2>2
<1>. QED BY <1>2, <1>3, <1>5, <1>9 DEF Put

\* The end of a session of p, after which nobody is in a session.
LEMMA EndStep ==
    ASSUME LockInv, NEW p \in Procs, EndSession(p), at[p] # "idle",
           tmp' \in File, db' \in File, Loads(db'), crashes' \in Nat,
           fd' = [q \in Procs |-> "none"],
           marked' \subseteq Hashes \X {"fixed", "wontfix"},
           \A mark \in marked' : Shows(db'.issues, mark)
    PROVE  LockInv'
<1>. USE DEF LockInv
<1>1. lock = p
  BY DEF SessionLocks
<1>2. \A q \in Procs : at'[q] = "idle" /\ session'[q] = {} /\ fd'[q] = "none"
  BY <1>1 DEF EndSession, SessionLocks, TypeOK, Builds
<1>3. Blank \in [Hashes -> Issue]
  BY IssueAssumption DEF Blank, Unknown, Issue, IssueStatus
<1>4. TypeOK'
  BY <1>3 DEF TypeOK, EndSession
<1>. QED BY <1>2, <1>4 DEF SessionLocks, TmpOwned, Builds, Saved, Readable

\* Every step keeps the invariant, and the file only moves on.
LEMMA LockNext ==
    ASSUME AllLocked, LockInv, [Next]_vars
    PROVE  LockInv' /\ [Book!Commit]_(db.issues)
<1>. USE DEF LockInv
<1>0. ASSUME NEW p \in Procs PROVE p \in Locked /\ p \notin Reloading
  BY IssueAssumption DEF AllLocked
<1>1. CASE UNCHANGED vars
  <2>1. LockInv'
    BY <1>1 DEF vars, TypeOK, SessionLocks, TmpOwned, Builds, Saved, Readable
  <2>. QED BY <1>1, <2>1 DEF vars
<1>2. ASSUME NEW p \in Procs, LockAndLoad(p) PROVE LockInv' /\ db' = db
  <2>1. \A q \in Procs : at[q] = "idle"
    BY <1>2, IssueAssumption DEF LockAndLoad, CanLock, SessionLocks
  <2>2. db.issues \in [Hashes -> Issue]
    BY DEF TypeOK, File
  <2>3. TypeOK'
    BY <1>2, <2>2 DEF LockAndLoad, TypeOK
  <2>4. \A q \in Procs : at'[q] # "idle" => q = p
    BY <1>2, <2>1 DEF LockAndLoad, TypeOK
  <2>5. SessionLocks' /\ Saved'
    BY <1>2, <2>4 DEF LockAndLoad, SessionLocks, Saved, Readable
  <2>6. TmpOwned'
    BY <1>2, <2>1, <2>4 DEF LockAndLoad, TmpOwned, TypeOK
  <2>7. \A h \in Hashes : Book!Later(db.issues[h], db.issues[h])
    BY <2>2, LaterReflexive
  <2>8. session[p] = {} /\ session' = session /\ mem'[p] = db.issues /\ db' = db
    BY <1>2, <2>1 DEF LockAndLoad, Builds, TypeOK
  <2>9. Builds'
    BY <2>1, <2>4, <2>7, <2>8 DEF Builds
  <2>. QED BY <1>2, <2>3, <2>5, <2>6, <2>9 DEF LockAndLoad
<1>3. ASSUME NEW p \in Procs, NEW h \in Hashes, Register(p, h) PROVE LockInv' /\ db' = db
  <2>. DEFINE issue == [mem[p][h] EXCEPT !.status = "open", !.count = @ + 1]
  <2>1. mem[p][h] \in Issue
    BY DEF TypeOK
  <2>2. issue \in Issue /\ Book!Later(mem[p][h], issue)
    BY <1>3, <2>1, Sighting DEF Register
  <2>. QED BY <1>3, <2>2, EditStep DEF Register, TypeOK
<1>4. ASSUME NEW p \in Procs, NEW h \in Hashes, MarkFixed(p, h) PROVE LockInv' /\ db' = db
  <2>. DEFINE issue == [mem[p][h] EXCEPT !.status = "fixed", !.notes = @ + 1]
  <2>1. mem[p][h] \in Issue
    BY DEF TypeOK
  <2>2. issue \in Issue /\ Book!Later(mem[p][h], issue)
    BY <1>4, <2>1, Outcome DEF MarkFixed
  <2>3. mem'[p][h].status = "fixed"
    BY <1>4, <2>1 DEF MarkFixed, Put, TypeOK, Issue
  <2>4. Shows(mem'[p], <<h, "fixed">>)
    BY <2>3 DEF Shows
  <2>5. session' \in [Procs -> SUBSET (Hashes \X {"fixed", "wontfix"})]
    BY <1>4 DEF MarkFixed, TypeOK
  <2>6. \A q \in Procs : q # p => session'[q] = session[q]
    BY <1>4 DEF MarkFixed, TypeOK
  <2>7. \A mark \in session'[p] : mark \in session[p] \/ Shows(mem'[p], mark)
    BY <1>4, <2>4 DEF MarkFixed, TypeOK
  <2>. QED BY <1>4, <2>2, <2>5, <2>6, <2>7, EditStep DEF MarkFixed
<1>5. ASSUME NEW p \in Procs, NEW h \in Hashes, MarkWontfix(p, h) PROVE LockInv' /\ db' = db
  <2>. DEFINE issue == [mem[p][h] EXCEPT !.status = "wontfix"]
  <2>1. mem[p][h] \in Issue
    BY DEF TypeOK
  <2>2. issue \in Issue /\ Book!Later(mem[p][h], issue)
    BY <1>5, <2>1, IssueAssumption DEF MarkWontfix, Issue, IssueStatus, Book!Later
  <2>3. mem'[p][h].status = "wontfix"
    BY <1>5, <2>1 DEF MarkWontfix, Put, TypeOK, Issue
  <2>4. Shows(mem'[p], <<h, "wontfix">>)
    BY <2>3 DEF Shows
  <2>5. session' \in [Procs -> SUBSET (Hashes \X {"fixed", "wontfix"})]
    BY <1>5 DEF MarkWontfix, TypeOK
  <2>6. \A q \in Procs : q # p => session'[q] = session[q]
    BY <1>5 DEF MarkWontfix, TypeOK
  <2>7. \A mark \in session'[p] : mark \in session[p] \/ Shows(mem'[p], mark)
    BY <1>5, <2>4 DEF MarkWontfix, TypeOK
  <2>. QED BY <1>5, <2>2, <2>5, <2>6, <2>7, EditStep DEF MarkWontfix
<1>6. ASSUME NEW p \in Procs, NEW h \in Hashes, Record(p, h) PROVE LockInv' /\ db' = db
  <2>. DEFINE issue == [mem[p][h] EXCEPT !.notes = @ + 1]
  <2>1. mem[p][h] \in Issue
    BY DEF TypeOK
  <2>2. issue \in Issue /\ Book!Later(mem[p][h], issue)
    BY <1>6, <2>1, IssueAssumption DEF Record, Issue, IssueStatus, Book!Later
  <2>. QED BY <1>6, <2>2, EditStep DEF Record, TypeOK
<1>7. ASSUME NEW p \in Procs, SaveOpen(p) PROVE LockInv' /\ db' = db
  <2>1. \A q \in Procs : q # p => at[q] = "idle"
    BY <1>7, IssueAssumption DEF SaveOpen, SessionLocks
  <2>2. Empty \in File
    BY IssueAssumption DEF Empty, File, Blank, Unknown, Issue, IssueStatus
  <2>3. TypeOK'
    BY <1>7, <2>2 DEF SaveOpen, TypeOK
  <2>4. SessionLocks' /\ Saved'
    BY <1>7 DEF SaveOpen, SessionLocks, Saved, Readable, TypeOK
  <2>5. TmpOwned'
    BY <1>7, <2>1 DEF SaveOpen, TmpOwned, TypeOK, Empty
  <2>6. Builds'
    BY <1>7 DEF SaveOpen, Builds, TypeOK
  <2>. QED BY <1>7, <2>3, <2>4, <2>5, <2>6 DEF SaveOpen
<1>8. ASSUME NEW p \in Procs, SaveWrite(p) PROVE LockInv' /\ db' = db
  <2>1. \A q \in Procs : q # p => at[q] = "idle"
    BY <1>8, IssueAssumption DEF SaveWrite, SessionLocks
  <2>2. fd[p] = "tmp" /\ tmp.state = "empty"
    BY <1>8 DEF SaveWrite, TmpOwned
  <2>3. tmp' = Full(mem[p]) /\ db' = db
    BY <1>8, <2>2 DEF SaveWrite, Written
  <2>4. Full(mem[p]) \in File
    BY DEF Full, File, TypeOK
  <2>5. TypeOK'
    BY <1>8, <2>3, <2>4 DEF SaveWrite, TypeOK
  <2>6. SessionLocks' /\ Saved'
    BY <1>8, <2>3 DEF SaveWrite, SessionLocks, Saved, Readable, TypeOK
  <2>7. TmpOwned'
    BY <1>8, <2>1, <2>3 DEF SaveWrite, TmpOwned, TypeOK
  <2>8. Builds'
    BY <1>8, <2>3 DEF SaveWrite, Builds, TypeOK
  <2>. QED BY <2>3, <2>5, <2>6, <2>7, <2>8
<1>9. ASSUME NEW p \in Procs, SaveRename(p) PROVE LockInv' /\ [Book!Commit]_(db.issues)
  <2>1. tmp = Full(mem[p]) /\ at[p] = "written"
    BY <1>9 DEF SaveRename, TmpOwned
  <2>2. db' = Full(mem[p]) /\ db'.issues = mem[p]
    BY <1>9, <2>1 DEF SaveRename, Full
  <2>3. \A h \in Hashes : Book!Later(db.issues[h], db'.issues[h])
    BY <2>1, <2>2 DEF Builds
  <2>4. \A q \in Procs : fd[q] = "none"
    BY <2>1, IssueAssumption DEF TmpOwned, SessionLocks
  <2>5. fd' = [q \in Procs |-> "none"]
    BY <1>9, <2>4 DEF SaveRename
  <2>6. marked' \subseteq Hashes \X {"fixed", "wontfix"}
    BY <1>9 DEF SaveRename, TypeOK
  <2>7. \A mark \in marked' : Shows(db'.issues, mark)
    <3>. SUFFICES ASSUME NEW mark \in marked' PROVE Shows(db'.issues, mark)
      OBVIOUS
    <3>1. CASE mark \in session[p]
      BY <3>1, <2>1, <2>2 DEF Builds
    <3>2. CASE mark \in marked
      <4>1. Shows(db.issues, mark) /\ mark \in Hashes \X {"fixed", "wontfix"}
        BY <3>2 DEF Saved, TypeOK
      <4>2. db.issues \in [Hashes -> Issue] /\ db'.issues \in [Hashes -> Issue]
        BY <2>2 DEF TypeOK, File
      <4>. QED BY <4>1, <4>2, <2>3, ShowsLater
    <3>. QED BY <3>1, <3>2, <1>9 DEF SaveRename
  <2>8. Absent \in File
    BY IssueAssumption DEF Absent, File, Blank, Unknown, Issue, IssueStatus
  <2>9. db' \in File /\ Loads(db') /\ tmp' \in File /\ crashes' \in Nat
    BY <1>9, <2>2, <2>8 DEF SaveRename, TypeOK, Loads, Full
  <2>10. EndSession(p)
    BY <1>9 DEF SaveRename
  <2>11. LockInv'
    BY <2>1, <2>5, <2>6, <2>7, <2>9, <2>10, EndStep
  <2>. QED BY <2>3, <2>11 DEF Book!Commit
<1>10. ASSUME NEW p \in Procs, SaveRaises(p) PROVE FALSE
  BY <1>10 DEF SaveRaises, TmpOwned, Full
<1>11. ASSUME NEW p \in Procs, Crash(p) PROVE LockInv' /\ db' = db
  <2>1. \A q \in Procs : q # p => at[q] = "idle"
    BY <1>11, IssueAssumption DEF Crash, SessionLocks
  <2>2. fd' = [q \in Procs |-> "none"]
    BY <1>11, <2>1 DEF Crash, TmpOwned, TypeOK
  <2>3. \A mark \in marked' : Shows(db'.issues, mark)
    BY <1>11 DEF Crash, Saved
  <2>4. tmp' \in File /\ db' \in File /\ Loads(db') /\ crashes' \in Nat
        /\ marked' \subseteq Hashes \X {"fixed", "wontfix"}
    BY <1>11 DEF Crash, TypeOK, Saved, Readable
  <2>. QED BY <1>11, <2>2, <2>3, <2>4, EndStep DEF Crash
<1>12. ASSUME NEW p \in Procs PROVE ~Load(p) /\ ~Reload(p)
  BY <1>0 DEF Load, Reload
<1>13. ASSUME db' = db PROVE [Book!Commit]_(db.issues)
  BY <1>13
<1>. QED
  BY <1>1, <1>2, <1>3, <1>4, <1>5, <1>6, <1>7, <1>8, <1>9, <1>10, <1>11, <1>12, <1>13
     DEF Next, Step

-----------------------------------------------------------------------------
\* If all stages lock, the invariant always holds.
LEMMA LockAlways == ASSUME AllLocked PROVE Spec => []LockInv
BY LockInit, LockNext, PTL DEF Spec

\* If all stages use save_with_lock, the file, the copies in memory and the
\* sessions have their types, with any number of stages and crashes.
THEOREM LockedTypes == ASSUME AllLocked PROVE Spec => []TypeOK
<1>1. LockInv => TypeOK
  BY DEF LockInv
<1>. QED BY <1>1, LockAlways, PTL

\* If all stages use save_with_lock, the database can be loaded at any time,
\* whatever a crash has interrupted.
THEOREM AlwaysReadable == ASSUME AllLocked PROVE Spec => []Readable
<1>1. LockInv => Readable
  BY DEF LockInv, Saved
<1>. QED BY <1>1, LockAlways, PTL

\* If all stages use save_with_lock, no saved mark is ever lost.
THEOREM MarksAreKept == ASSUME AllLocked PROVE Spec => []MarksKept
<1>1. LockInv => MarksKept
  BY DEF LockInv, Saved, Shows, MarksKept
<1>. QED BY <1>1, LockAlways, PTL

\* If all stages use save_with_lock, the file implements the book of issues: no
\* closed issue is reopened and no sighting or record is dropped.
THEOREM LockedImplements == ASSUME AllLocked PROVE Spec => BookImplements
<1>1. Init => Book!Init
  BY DEF Init, Book!Init, Absent, Blank, Unknown
<1>. QED BY <1>1, LockInit, LockNext, PTL DEF Spec, BookImplements, Book!Spec

-----------------------------------------------------------------------------
(* Without the lock.                                                        *)

\* Who has a file open is about to write, and as long as nobody crashed an empty
\* file is open.
OpenInv ==
    /\ fd \in [Procs -> {"none", "tmp", "db", "gone"}]
    /\ at \in [Procs -> {"idle", "editing", "opened", "written"}]
    /\ crashes \in Nat
    /\ \A p \in Procs : at[p] # "opened" => fd[p] = "none"
    /\ crashes = 0 /\ tmp.state = "empty" => \E p \in Procs : fd[p] = "tmp"
    /\ crashes = 0 /\ db.state = "empty" => \E p \in Procs : fd[p] = "db"

\* Every step keeps it, whoever locks.
LEMMA OpenNext == ASSUME OpenInv, [Next]_vars PROVE OpenInv'
<1>. USE DEF OpenInv
<1>1. CASE UNCHANGED vars
  BY <1>1 DEF vars
<1>2. ASSUME NEW p \in Procs, LockAndLoad(p) \/ Load(p) \/ Reload(p) PROVE OpenInv'
  BY <1>2 DEF LockAndLoad, Load, Reload
<1>3. ASSUME NEW p \in Procs, NEW h \in Hashes,
             Register(p, h) \/ MarkFixed(p, h) \/ MarkWontfix(p, h) \/ Record(p, h)
      PROVE  OpenInv'
  BY <1>3 DEF Register, MarkFixed, MarkWontfix, Record, Put
<1>4. ASSUME NEW p \in Procs, SaveOpen(p) PROVE OpenInv'
  <2>1. fd'[p] = "tmp" /\ \A q \in Procs : q # p => fd'[q] = fd[q]
    BY <1>4 DEF SaveOpen
  <2>2. fd[p] = "none"
    BY <1>4 DEF SaveOpen
  <2>. QED BY <1>4, <2>1, <2>2 DEF SaveOpen
<1>5. ASSUME NEW p \in Procs, SaveWrite(p) PROVE OpenInv'
  <2>1. fd'[p] = "none" /\ \A q \in Procs : q # p => fd'[q] = fd[q]
    BY <1>5 DEF SaveWrite
  <2>2. \A file \in Written(p, tmp) \cup Written(p, db) : file.state # "empty"
    BY DEF Written, Full, Torn
  <2>3. crashes' = 0 /\ tmp'.state = "empty" => \E q \in Procs : fd'[q] = "tmp"
    BY <1>5, <2>1, <2>2 DEF SaveWrite
  <2>4. crashes' = 0 /\ db'.state = "empty" => \E q \in Procs : fd'[q] = "db"
    BY <1>5, <2>1, <2>2 DEF SaveWrite
  <2>. QED BY <1>5, <2>3, <2>4 DEF SaveWrite
<1>6. ASSUME NEW p \in Procs, SaveRename(p) PROVE OpenInv'
  <2>1. \A q \in Procs : fd'[q] = (CASE fd[q] = "tmp" -> "db"
                                     [] fd[q] = "db" -> "gone"
                                     [] OTHER -> fd[q])
    BY <1>6 DEF SaveRename
  <2>2. fd' \in [Procs -> {"none", "tmp", "db", "gone"}]
    BY <1>6, <2>1 DEF SaveRename
  <2>3. at' \in [Procs -> {"idle", "editing", "opened", "written"}]
        /\ \A q \in Procs : at'[q] # "opened" => fd'[q] = "none"
    BY <1>6, <2>1 DEF SaveRename, EndSession
  <2>4. db' = tmp /\ tmp'.state = "absent" /\ crashes' = crashes
    BY <1>6 DEF SaveRename, Absent
  <2>5. crashes' = 0 /\ db'.state = "empty" => \E q \in Procs : fd'[q] = "db"
    BY <2>1, <2>4
  <2>. QED BY <2>2, <2>3, <2>4, <2>5
<1>7. ASSUME NEW p \in Procs, SaveRaises(p) PROVE OpenInv'
  BY <1>7 DEF SaveRaises, EndSession
<1>8. ASSUME NEW p \in Procs, Crash(p) PROVE OpenInv'
  BY <1>8 DEF Crash, EndSession
<1>. QED BY <1>1, <1>2, <1>3, <1>4, <1>5, <1>6, <1>7, <1>8 DEF Next, Step

\* However the stages save, with the lock, without it or reloading in between, an
\* empty database means that somebody who has it open still writes it, unless a
\* stage crashed.
THEOREM EmptyIsTransient == Spec => []EmptyIsBeingWritten
<1>1. Init => OpenInv
  BY DEF Init, OpenInv, Absent
<1>2. OpenInv => EmptyIsBeingWritten
  BY DEF OpenInv, EmptyIsBeingWritten
<1>. QED BY <1>1, <1>2, OpenNext, PTL DEF Spec
=============================================================================
