------------------------------- MODULE Editor -------------------------------
(***************************************************************************)
(* dev_editor.py: do_patch() checks a file, backs it up, commits it,       *)
(* replaces a text, checks and commits again, or puts the back-up back;    *)
(* --backup and --rollback-dir do one half each.  A back-up directory is   *)
(* named after the second, the copy in it after the last part of the path. *)
(* Any number of editors run, nothing keeps two of them from patching one  *)
(* file at a time, and each may die at any step.                           *)
(***************************************************************************)
EXTENDS Integers, Sequences, FiniteSets

CONSTANTS
  Editors, Paths,
  BaseName,      \* path -> last part
  HasGit,        \* the workspace is a git repository
  MaxVersion,    \* bound: contents a file may get
  MaxSecond,     \* bound of the clock
  MaxCalls,      \* bound: calls and deaths
  None

ASSUME EditorAssumption ==
  /\ BaseName \in [Paths -> STRING] /\ HasGit \in BOOLEAN
  /\ MaxVersion \in Nat \ {0} /\ MaxSecond \in Nat /\ MaxCalls \in Nat
  /\ None \notin Paths

VARIABLES
  content,   \* path -> version of its text, 0 if it is empty
  versions,  \* how many versions were written
  broken,    \* versions that are no YAML
  saved,     \* <<second, base name>> -> version in that back-up, -1 if none
  shared,    \* observation: back-ups that were written more than once
  head,      \* path -> committed version
  second,
  patch,     \* editor -> its call
  calls,     \* calls that began, and deaths
  done,      \* observation: the patches that succeeded
  clash      \* observation: files that two calls worked on at once, or that a
             \* death left half done

editorVars == <<content, versions, broken, saved, shared, head, second, patch,
                calls, done, clash>>

Slots == (0..MaxSecond) \X {BaseName[f] : f \in Paths}
Slot(f) == <<second, BaseName[f]>>

\* `before` is the text that was read to be changed, `wrote` the new one.
Call(pc, f, slot, before, wrote) ==
  [pc |-> pc, file |-> f, slot |-> slot, before |-> before, wrote |-> wrote]
NoPatch == Call("idle", None, None, 0, 0)

(* Mutation: a file that is there is taken for valid.                       *)
ValidIfThere(v) == v # -1

\* An empty text is YAML, and grep finds nothing in it.
Valid(v) == v \notin broken
At(e, pc) == patch[e].pc = pc
Move(e, call) == patch' = [patch EXCEPT ![e] = call]
End(e) == Move(e, NoPatch)
Goto(e, pc) ==
  LET p == patch[e] IN Move(e, Call(pc, p.file, p.slot, p.before, p.wrote))
Touch(f) == clash' = IF \E e \in Editors : patch[e].file = f THEN clash \cup {f} ELSE clash

(* git add and commit; what they return is ignored.                         *)
Commit(f) == head' = head \/ (HasGit /\ head' = [head EXCEPT ![f] = content[f]])

-----------------------------------------------------------------------------
(* create_backup()                                                          *)
Copy(f, text) ==
  /\ saved' = [saved EXCEPT ![Slot(f)] = text]
  /\ shared' = IF saved[Slot(f)] # -1 THEN shared \cup {Slot(f)} ELSE shared

(* remainderore_backup()                                                    *)
PutBack(slot, f) == content' = [content EXCEPT ![f] = saved[slot]]

(* Step 1: the file is there and valid and grep finds the old text; else    *)
(* the call fails and nothing has changed.                                  *)
Begin(e, f) ==
  /\ calls < MaxCalls /\ calls' = calls + 1
  /\ At(e, "idle") /\ Valid(content[f]) /\ content[f] # 0
  /\ Touch(f)
  /\ Move(e, Call("checked", f, None, 0, 0))
  /\ UNCHANGED <<content, versions, broken, saved, shared, head, second, done>>

(* Step 2                                                                   *)
BackUp(e) ==
  /\ At(e, "checked")
  /\ LET f == patch[e].file
     IN  Copy(f, content[f]) /\ Move(e, Call("backed", f, Slot(f), 0, 0))
  /\ UNCHANGED <<calls, content, versions, broken, head, second, done, clash>>

(* Step 2b, and the text is read.                                           *)
Read(e) ==
  /\ At(e, "backed")
  /\ LET p == patch[e]
     IN  Commit(p.file) /\ Move(e, Call("read", p.file, p.slot, content[p.file], 0))
  /\ UNCHANGED <<calls, content, versions, broken, saved, shared, second, done, clash>>

(* Step 3.  The old text is a regular expression for grep and a literal for *)
(* replace(): it may not be found, and the call ends here.                  *)
Change(e) ==
  /\ At(e, "read")
  /\ LET p == patch[e]
     IN  \/ End(e) /\ UNCHANGED <<content, versions, broken>>
         \/ /\ versions < MaxVersion
            /\ content' = [content EXCEPT ![p.file] = versions + 1]
            /\ versions' = versions + 1
            /\ broken' \in {broken, broken \cup {versions + 1}}
            /\ Move(e, Call("changed", p.file, p.slot, p.before, versions + 1))
  /\ UNCHANGED <<calls, saved, shared, head, second, done, clash>>

(* Step 4: a valid file is committed, an invalid one is checked out and     *)
(* then put back.                                                           *)
Judge(e) ==
  /\ At(e, "changed")
  /\ LET f == patch[e].file
     IN  \/ Valid(content[f]) /\ Goto(e, "valid") /\ UNCHANGED content
         \/ /\ ~Valid(content[f]) /\ Goto(e, "restoring")
            /\ content' = IF HasGit THEN [content EXCEPT ![f] = head[f]] ELSE content
  /\ UNCHANGED <<calls, versions, broken, saved, shared, head, second, done, clash>>

Restore(e) ==
  /\ At(e, "restoring")
  /\ PutBack(patch[e].slot, patch[e].file)
  /\ End(e)
  /\ UNCHANGED <<calls, versions, broken, saved, shared, head, second, done, clash>>

(* Step 4b, and grep for the new text, which is a regular expression too:   *)
(* if it finds none the file is put back, but not the commit.  The patch is *)
(* then counted (see RuleChecker) and documented by dev_changes.py, whose   *)
(* result is ignored.                                                       *)
Accept(e) ==
  /\ At(e, "valid")
  /\ Commit(patch[e].file)
  /\ LET p == patch[e]
         change == [file |-> p.file, slot |-> p.slot, before |-> p.before, after |-> p.wrote]
     IN  \/ End(e) /\ done' = done \cup {change}
         \/ Goto(e, "restoring") /\ done' = done
  /\ UNCHANGED <<calls, content, versions, broken, saved, shared, second, clash>>

(* An editor dies; what it was writing may be left empty.                   *)
EditorDies(e) ==
  /\ calls < MaxCalls /\ calls' = calls + 1
  /\ patch[e].pc # "idle" /\ End(e)
  /\ LET f == patch[e].file
     IN  \/ /\ UNCHANGED <<content, saved, shared>>
            /\ clash' = IF Valid(content[f]) THEN clash ELSE clash \cup {f}
         \/ /\ At(e, "checked") /\ Copy(f, 0) /\ clash' = clash \cup {f}
            /\ UNCHANGED content
         \/ /\ patch[e].pc \in {"read", "restoring"} /\ clash' = clash \cup {f}
            /\ content' = [content EXCEPT ![f] = 0]
            /\ UNCHANGED <<saved, shared>>
  /\ UNCHANGED <<versions, broken, head, second, done>>

(* --backup                                                                 *)
OnlyBackUp(f) ==
  /\ calls < MaxCalls /\ calls' = calls + 1
  /\ Copy(f, content[f]) /\ Touch(f)
  /\ UNCHANGED <<content, versions, broken, head, second, patch, done>>

(* --rollback-dir names any directory that has a copy of this name.         *)
RollBack(slot, f) ==
  /\ calls < MaxCalls /\ calls' = calls + 1
  /\ slot[2] = BaseName[f] /\ saved[slot] # -1
  /\ PutBack(slot, f) /\ Touch(f)
  /\ UNCHANGED <<versions, broken, saved, shared, head, second, patch, done>>

Tick ==
  /\ second < MaxSecond /\ second' = second + 1
  /\ UNCHANGED <<calls, content, versions, broken, saved, shared, head, patch, done, clash>>

EditorInit ==
  /\ content \in [Paths -> {1}]
  /\ versions = 1
  /\ broken = {}
  /\ saved = [s \in Slots |-> -1]
  /\ shared = {}
  /\ head = content
  /\ second = 0
  /\ patch = [e \in Editors |-> NoPatch]
  /\ calls = 0
  /\ done = {}
  /\ clash = {}

EditorNext ==
  \/ \E e \in Editors : \E f \in Paths : Begin(e, f)
  \/ \E e \in Editors : BackUp(e)
  \/ \E e \in Editors : Read(e)
  \/ \E e \in Editors : Change(e)
  \/ \E e \in Editors : Judge(e)
  \/ \E e \in Editors : Restore(e)
  \/ \E e \in Editors : Accept(e)
  \/ \E e \in Editors : EditorDies(e)
  \/ \E f \in Paths : OnlyBackUp(f)
  \/ \E slot \in Slots, f \in Paths : RollBack(slot, f)
  \/ Tick

EditorSpec == EditorInit /\ [][EditorNext]_editorVars

-----------------------------------------------------------------------------
EditorCalls ==
  [pc : {"idle", "checked", "backed", "read", "changed", "valid", "restoring"},
   file : Paths \cup {None}, slot : Slots \cup {None},
   before : 0..MaxVersion, wrote : 0..MaxVersion]
EditorTypeOK ==
  /\ content \in [Paths -> 0..MaxVersion]
  /\ versions \in 0..MaxVersion
  /\ broken \in SUBSET (1..MaxVersion)
  /\ saved \in [Slots -> -1..MaxVersion]
  /\ shared \in SUBSET Slots
  /\ head \in [Paths -> 0..MaxVersion]
  /\ second \in 0..MaxSecond
  /\ patch \in [Editors -> EditorCalls]
  /\ calls \in Nat
  /\ clash \in SUBSET Paths

(* As long as no two calls met on a file or on one of its name, and none    *)
(* died while it wrote there, no text of it that is no YAML and no empty    *)
(* one is committed or backed up, or is in a file that nobody is patching.  *)
Met(name) == \E f \in clash : BaseName[f] = name
Whole(v) == v # 0 /\ v \notin broken
Mends(e, f) == patch[e].file = f /\ patch[e].pc \in {"changed", "restoring"}
BrokenIsContained ==
  /\ \A f \in Paths : ~Met(BaseName[f]) =>
       /\ Whole(head[f])
       /\ Whole(content[f]) \/ (content[f] # 0 /\ \E e \in Editors : Mends(e, f))
  /\ \A s \in Slots : ~Met(s[2]) => Whole(saved[s])

(* The directory a change names holds the text that the change replaced, as *)
(* long as no other call met it and nobody wrote the same name into the     *)
(* directory in the same second: the copy is older than what was read.      *)
BackupIsOfChange ==
  \A c \in done : c.slot \notin shared /\ c.file \notin clash => saved[c.slot] = c.before

(* Patches are contained and backed up as they were made.                   *)
EditorSound == EditorTypeOK /\ BrokenIsContained /\ BackupIsOfChange
=============================================================================
