---------------------------- MODULE ChangeLedger ----------------------------
(***************************************************************************)
(* .mase/changes.json and the five calls that write it: add_change() and   *)
(* mark_rolled_back() of dev_changes.py, which keep a dictionary, and the  *)
(* log_change() of dev_recursion_override.py and dev_directive_applier.py  *)
(* and _update_changes_json() of dev_template_generator.py, which keep a   *)
(* list.  Each one reads the whole file, changes it in memory and writes   *)
(* it back over a truncated file; none takes a lock.                       *)
(***************************************************************************)
EXTENDS Integers, Sequences, FiniteSets, SequencesExt, FiniteSetsExt

CONSTANTS
  Callers,      \* processes
  MaxCalls,     \* bound: calls that begin
  InitLedgers,  \* ledgers of installations
  None

ASSUME LedgerAssumption == MaxCalls \in Nat /\ None \notin Callers

Ops == {"add", "mark", "override", "directive", "template"}

VARIABLES
  ledger,    \* the file
  call,      \* caller -> its call
  calls,     \* how many calls began: tags the entries
  reported,  \* tags of the entries that were there or whose call has ended
  marked,    \* tags of the entries whose mark_rolled_back() has ended
  causes     \* observation: what happened to the file that may lose entries

ledgerVars == <<ledger, call, calls, reported, marked, causes>>

(* An entry of either form.  The number stands for the id: ch_NNN or, after *)
(* a migration, ch_legacy_NNN.                                              *)
Entry(t, legacy, n, dated) ==
  [tag |-> t, legacy |-> legacy, num |-> n, dated |-> dated, rolled |-> FALSE]

(* form: "none" no file, "empty" a truncated one, else what it holds.       *)
File(form, es, total, rolled) ==
  [form |-> form, entries |-> es, total |-> total, rolled |-> rolled]
NoFile == File("none", <<>>, 0, 0)
Truncated == File("empty", <<>>, 0, 0)
NoCall == [pc |-> "idle", op |-> None, tag |-> 0, mem |-> NoFile, seen |-> NoFile]

Tags(f) == {f.entries[i].tag : i \in DOMAIN f.entries}

UniqueNumbers(f) == \A i, j \in DOMAIN f.entries : f.entries[i].num = f.entries[j].num => i = j
CountsRight(f) ==
  f.total = Len(f.entries) /\ f.rolled >= Cardinality({i \in DOMAIN f.entries : f.entries[i].rolled})

(* An installation has no ledger, a torn one, or one these calls have       *)
(* written: no list holds an entry that was rolled back.                    *)
LedgerEntries == [tag : Nat, legacy : BOOLEAN, num : Nat, dated : BOOLEAN, rolled : BOOLEAN]
Ledgers == [form : {"none", "empty", "list", "dict"}, entries : Seq(LedgerEntries),
            total : Nat, rolled : Nat]
WellFormed(f) ==
  /\ f.form = "none" => f = NoFile
  /\ f.form = "empty" => f = Truncated
  /\ f.form = "list" => \A i \in DOMAIN f.entries : ~f.entries[i].rolled
  /\ f.form = "dict" => UniqueNumbers(f) /\ CountsRight(f)

ASSUME LedgersAssumption == \A f \in InitLedgers : f \in Ledgers /\ WellFormed(f)

-----------------------------------------------------------------------------
(* dev_changes.py                                                           *)

(* load(): a list becomes a dictionary, its entries numbered from 1.        *)
Migrated(f) ==
  File("dict", [i \in DOMAIN f.entries |-> [f.entries[i] EXCEPT !.legacy = TRUE, !.num = i]],
       Len(f.entries), 0)
Load(f) == CASE f.form = "list" -> Migrated(f)
             [] f.form = "none" -> File("dict", <<>>, 0, 0)
             [] OTHER -> f

(* save() writes total_changes from the list of changes.                    *)
Saved(es, rolled) == File("dict", es, Len(es), rolled)

(* Mutation: the largest number is given out again.                         *)
NextIdAgain(f) == Max({0} \cup {f.entries[i].num : i \in DOMAIN f.entries})

NextId(f) == 1 + Max({0} \cup {f.entries[i].num : i \in DOMAIN f.entries})
Added(f, t) == Saved(Append(f.entries, Entry(t, FALSE, NextId(f), TRUE)), f.rolled)

(* rolled_back counts every call, also for a change that is marked already. *)
Marked(f, i) == Saved([f.entries EXCEPT ![i].rolled = TRUE], f.rolled + 1)

(* The count of the last 24 hours raises on an entry without a timestamp.   *)
AllDated(f) == \A i \in DOMAIN f.entries : f.entries[i].dated

(* The log_change() calls drop what is not a list; the template generator   *)
(* makes a dictionary the first entry of a list, an entry without a         *)
(* timestamp.                                                               *)
Nested == Entry(0, FALSE, 0, FALSE)
Listed(f, op, t) ==
  File("list", Append(CASE f.form = "list" -> f.entries
                        [] f.form = "dict" /\ op = "template" -> <<Nested>>
                        [] OTHER -> <<>>, Entry(t, FALSE, 0, TRUE)), 0, 0)

-----------------------------------------------------------------------------
Note(c, when) == causes' = causes \cup (IF when THEN {c} ELSE {})

(* The call reads the file.  init_state() writes a missing one at once.     *)
Read(p, op, tag, mem) ==
  /\ call[p].pc = "idle" /\ calls < MaxCalls
  /\ calls' = calls + 1
  /\ call' = [call EXCEPT ![p] = [pc |-> "read", op |-> op, tag |-> tag,
                                  mem |-> mem, seen |-> ledger]]

ReadAdd(p) ==
  /\ ledger.form # "empty"
  /\ Read(p, "add", calls + 1, Added(Load(ledger), calls + 1))
  /\ ledger' = IF ledger.form = "none" THEN Load(ledger) ELSE ledger
  /\ UNCHANGED <<reported, marked, causes>>

ReadMark(p) ==
  /\ ledger.form # "empty"
  /\ LET f == Load(ledger)
     IN  \E i \in DOMAIN f.entries : Read(p, "mark", f.entries[i].tag, Marked(f, i))
  /\ UNCHANGED <<ledger, reported, marked, causes>>

ReadList(p) ==
  /\ \E op \in {"override", "directive", "template"} :
       /\ op = "template" => ledger.form # "empty"
       /\ Read(p, op, calls + 1, Listed(ledger, op, calls + 1))
       /\ Note(IF op = "template" THEN "nested" ELSE "wiped", ledger.form = "dict")
  /\ UNCHANGED <<ledger, reported, marked>>

(* json.load() of a file that is being written raises, and so does an entry *)
(* without a timestamp: nothing is saved.  dev_editor.py does not look at   *)
(* the exit code, the template generator prints a warning.                  *)
AddFails(p) ==
  /\ \/ call[p].pc = "idle" /\ ledger.form = "empty" /\ calls < MaxCalls /\ calls' = calls + 1
     \/ call[p].pc = "read" /\ call[p].op = "add" /\ ~AllDated(call[p].mem) /\ UNCHANGED calls
  /\ call' = [call EXCEPT ![p] = NoCall]
  /\ UNCHANGED <<ledger, reported, marked, causes>>

(* open(.., "w") empties the file.                                          *)
Truncate(p) ==
  /\ call[p].pc = "read"
  /\ call[p].op = "add" => AllDated(call[p].mem)
  /\ call' = [call EXCEPT ![p].pc = "writing"]
  /\ ledger' = Truncated
  /\ Note("stale", ledger # call[p].seen
                   /\ ~(call[p].seen.form = "none" /\ ledger = Load(NoFile)))
  /\ UNCHANGED <<calls, reported, marked>>

Write(p) ==
  /\ call[p].pc = "writing"
  /\ ledger' = call[p].mem
  /\ IF call[p].op = "mark"
     THEN marked' = marked \cup {call[p].tag} /\ UNCHANGED reported
     ELSE reported' = reported \cup {call[p].tag} /\ UNCHANGED marked
  /\ call' = [call EXCEPT ![p] = NoCall]
  /\ Note("stale", ledger # Truncated)
  /\ UNCHANGED calls

Die(p) ==
  /\ call[p].pc # "idle"
  /\ Note("torn", call[p].pc = "writing")
  /\ call' = [call EXCEPT ![p] = NoCall]
  /\ UNCHANGED <<ledger, calls, reported, marked>>

LedgerInit ==
  /\ ledger \in InitLedgers
  /\ call = [p \in Callers |-> NoCall]
  /\ calls = 0
  /\ reported = Tags(ledger)
  /\ marked = {}
  /\ causes = {}

LedgerNext ==
  \/ \E p \in Callers : ReadAdd(p)
  \/ \E p \in Callers : ReadMark(p)
  \/ \E p \in Callers : ReadList(p)
  \/ \E p \in Callers : AddFails(p)
  \/ \E p \in Callers : Truncate(p)
  \/ \E p \in Callers : Write(p)
  \/ \E p \in Callers : Die(p)

LedgerSpec == LedgerInit /\ [][LedgerNext]_ledgerVars

-----------------------------------------------------------------------------
(* An entry or a mark whose call has ended is missing only after one of     *)
(* four things: a call wrote back what it had read before another call      *)
(* wrote (stale), a list writer met the dictionary (wiped, or nested in one *)
(* entry), or a call died with the file truncated (torn).                   *)
LossHasCause ==
  causes = {} /\ (\A p \in Callers : call[p].pc # "writing") =>
    /\ reported \subseteq Tags(ledger)
    /\ \A t \in marked : \E i \in DOMAIN ledger.entries :
         ledger.entries[i].tag = t /\ ledger.entries[i].rolled

(* The ids of a dictionary are unique, also across a migration and whatever *)
(* was lost.                                                                *)
IdsUnique == ledger.form = "dict" => UniqueNumbers(ledger)

(* The count of changes is right and the count of undone ones never short.  *)
CountsCover == ledger.form = "dict" => CountsRight(ledger)

(* The ledger loses a change only for one of the named causes, and its      *)
(* numbers stay unique.                                                     *)
LedgerSound == LossHasCause /\ IdsUnique /\ CountsCover
=============================================================================
