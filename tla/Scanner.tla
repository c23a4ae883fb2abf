------------------------------- MODULE Scanner -------------------------------
(***************************************************************************)
(* dev_im_finder_scan.py: one scan looks for defects in stages (recipes,   *)
(* tools, then four checks of texts), leaves out what the issue database   *)
(* knows, prints the rest, saves the database and, with --publish, sends   *)
(* the worst findings to the topic im.finding.created.                     *)
(*                                                                         *)
(* A defect is known by its identity: file, type and pattern.  Two defects *)
(* of one type in one file may share it; that of the text checks contains  *)
(* the line, so an edit of the file gives an old defect a new one.         *)
(***************************************************************************)
EXTENDS Integers, Sequences, FiniteSets, FiniteSetsExt

CONSTANTS
  Defects,
  StageOf, SeverityOf, IdentOf,   \* functions on Defects
  SeverityFilter,                 \* --severity
  MaxTop,                         \* findings that fit into a message
  RequestIds,                     \* --publish-request-id, or the second
  MaxEdits                        \* bound: edits of the repository

Stages == <<"yaml", "tool", "drift", "reverse", "hardcode", "stale">>
Checks == {"drift", "reverse", "hardcode", "stale"}

ASSUME ScannerAssumption ==
  /\ StageOf \in [Defects -> {Stages[i] : i \in DOMAIN Stages}]
  /\ IsFiniteSet(Defects) /\ MaxTop \in Nat /\ MaxEdits \in Nat
  /\ SeverityFilter \subseteq {"low", "medium", "high", "blocker"}

VARIABLES
  present,   \* the defects of the repository
  line,      \* defect -> where it is
  edits,
  useDb,     \* --issue-db
  issues,    \* identity -> status in the saved database
  scan,      \* the running scan
  queued,    \* requests with a live message in im.finding.created
  shipped,   \* identities that were sent
  quiet,     \* observation: nothing changed since a whole scan was saved
  missed     \* observation: identities that a scan found and did not send

scannerVars == <<present, line, edits, useDb, issues, scan, queued, shipped, quiet, missed>>

Identities == {IdentOf[d] : d \in Defects} \X (0..MaxEdits)
Identity(d) == <<IdentOf[d], IF StageOf[d] \in Checks THEN line[d] ELSE 0>>
Serious(d) == SeverityOf[d] \in {"high", "blocker"}
NoScan == [pc |-> "idle", stage |-> 0, todo |-> {}, before |-> {}, mem |-> [i \in Identities |-> "none"],
           found |-> {}, bound |-> FALSE, whole |-> TRUE, publish |-> FALSE]
Of(stage) == {d \in present : StageOf[d] = stage}
KnownIn(db) == {i \in Identities : db[i] # "none"}

-----------------------------------------------------------------------------
(* The repository between two scans; a stage that records a verdict; and a  *)
(* message that a consumer is done with.                                    *)
Edit(d) ==
  /\ scan.pc = "idle" /\ edits < MaxEdits /\ edits' = edits + 1
  /\ \/ present' = (present \ {d}) \cup ({d} \ present) /\ UNCHANGED line
     \/ line' = [line EXCEPT ![d] = edits + 1] /\ UNCHANGED present
  /\ quiet' = FALSE
  /\ UNCHANGED <<useDb, issues, scan, queued, shipped, missed>>

Settle(i) ==
  /\ scan.pc = "idle" /\ issues[i] = "open"
  /\ issues' = [issues EXCEPT ![i] = "settled"]
  /\ UNCHANGED <<present, line, edits, useDb, scan, queued, shipped, quiet, missed>>

Consume(r) ==
  /\ r \in queued /\ queued' = queued \ {r}
  /\ UNCHANGED <<present, line, edits, useDb, issues, scan, shipped, quiet, missed>>

-----------------------------------------------------------------------------
StartScan(publish) ==
  /\ scan.pc = "idle"
  /\ scan' = [NoScan EXCEPT !.pc = "stage", !.stage = 1, !.todo = Of("yaml"), !.mem = issues,
                            !.before = KnownIn(issues), !.publish = publish]
  /\ UNCHANGED <<present, line, edits, useDb, issues, queued, shipped, quiet, missed>>

(* add_finding(): the severity, the identity, the database.  A call from    *)
(* the tool stage is what binds `findings` in the module of the command.    *)

(* Mutation: the issue is registered before it is looked up.                *)
EncounterRegisters(d) ==
  /\ scan.pc = "stage" /\ d \in scan.todo
  /\ LET wanted == SeverityOf[d] \in SeverityFilter
     IN  scan' = [scan EXCEPT
           !.todo = @ \ {d},
           !.bound = @ \/ StageOf[d] # "yaml",
           !.found = IF wanted /\ ~useDb THEN @ \cup {d} ELSE @,
           !.mem = IF wanted /\ useDb THEN [@ EXCEPT ![Identity(d)] = "open"] ELSE @]
  /\ UNCHANGED <<present, line, edits, useDb, issues, queued, shipped, quiet, missed>>

Encounter(d) ==
  /\ scan.pc = "stage" /\ d \in scan.todo
  /\ LET known == useDb /\ scan.mem[Identity(d)] # "none"
         wanted == SeverityOf[d] \in SeverityFilter
     IN  scan' = [scan EXCEPT
           !.todo = @ \ {d},
           !.bound = @ \/ StageOf[d] # "yaml",
           !.found = IF wanted /\ ~known THEN @ \cup {d} ELSE @,
           !.mem = IF wanted /\ useDb /\ ~known THEN [@ EXCEPT ![Identity(d)] = "open"] ELSE @]
  /\ UNCHANGED <<present, line, edits, useDb, issues, queued, shipped, quiet, missed>>

(* The next stage.  The call of the first check evaluates `findings`: as    *)
(* long as it is unbound that raises NameError, which becomes a finding of  *)
(* low severity, and the check has not run.                                 *)
Skipped(s) == Stages[s] = "drift" /\ ~scan.bound
NextStage ==
  /\ scan.pc = "stage" /\ scan.todo = {}
  /\ LET s == scan.stage + 1
     IN  scan' = IF s > Len(Stages) THEN [scan EXCEPT !.pc = "report"]
                 ELSE [scan EXCEPT !.stage = s, !.bound = @ \/ Stages[s] \in Checks,
                                   !.todo = IF Skipped(s) THEN {} ELSE Of(Stages[s]),
                                   !.whole = @ /\ ~(Skipped(s) /\ Of(Stages[s]) # {})]
  /\ UNCHANGED <<present, line, edits, useDb, issues, queued, shipped, quiet, missed>>

(* An exception within a check ends that check, within another stage the    *)
(* scan.                                                                    *)
StageRaises ==
  /\ scan.pc = "stage" /\ scan.todo # {}
  /\ scan' = IF Stages[scan.stage] \in Checks
             THEN [scan EXCEPT !.todo = {}, !.whole = FALSE] ELSE NoScan
  /\ UNCHANGED <<present, line, edits, useDb, issues, queued, shipped, quiet, missed>>

Report ==
  /\ scan.pc = "report"
  /\ scan' = [scan EXCEPT !.pc = IF useDb THEN "save" ELSE "publish"]
  /\ UNCHANGED <<present, line, edits, useDb, issues, queued, shipped, quiet, missed>>

SaveIssues ==
  /\ scan.pc = "save"
  /\ issues' = scan.mem
  /\ scan' = [scan EXCEPT !.pc = "publish"]
  /\ quiet' = scan.whole
  /\ UNCHANGED <<present, line, edits, useDb, queued, shipped, missed>>

(* The first serious findings go into one message.  It has the request for  *)
(* its key: while the message of an earlier scan with that key is live, the *)
(* queue keeps that one and returns its id, which is reported as PUBLISH-OK.*)
(* A queue that refuses is reported on stderr; the scan ends with 0 all the *)
(* same.                                                                    *)
Ships(r, sent) ==
  /\ r \notin queued /\ queued' = queued \cup {r}
  /\ shipped' = shipped \cup {Identity(d) : d \in sent}

SeriousIn(found) == {d \in found : Serious(d)}
Top(found) ==
  LET all == SeriousIn(found)
  IN  IF Cardinality(all) <= MaxTop THEN {all} ELSE kSubset(MaxTop, all)
Missing(unsent) == missed' = missed \cup {Identity(d) : d \in unsent}

Publish ==
  /\ scan.pc = "publish"
  /\ \/ /\ scan.publish
        /\ \E r \in RequestIds, top \in Top(scan.found) :
             \/ Ships(r, top) /\ Missing(SeriousIn(scan.found) \ top)
             \/ r \in queued /\ Missing(SeriousIn(scan.found)) /\ UNCHANGED <<queued, shipped>>
     \/ Missing(SeriousIn(scan.found)) /\ UNCHANGED <<queued, shipped>>  \* refused, or not asked for
  /\ scan' = NoScan
  /\ UNCHANGED <<present, line, edits, useDb, issues, quiet>>

(* A scan that dies after its save sends nothing.                           *)
ScanDies ==
  /\ scan.pc # "idle"
  /\ scan' = NoScan
  /\ Missing(IF scan.pc = "publish" THEN SeriousIn(scan.found) ELSE {})
  /\ UNCHANGED <<present, line, edits, useDb, issues, queued, shipped, quiet>>

ScannerInit ==
  /\ present \in SUBSET Defects /\ line = [d \in Defects |-> 0] /\ edits = 0
  /\ useDb \in BOOLEAN /\ issues = [i \in Identities |-> "none"]
  /\ scan = NoScan /\ queued = {} /\ shipped = {} /\ quiet = FALSE /\ missed = {}

ScannerNext ==
  \/ \E d \in Defects : Edit(d)
  \/ \E i \in Identities : Settle(i)
  \/ \E r \in RequestIds : Consume(r)
  \/ \E publish \in BOOLEAN : StartScan(publish)
  \/ \E d \in Defects : Encounter(d)
  \/ NextStage
  \/ StageRaises
  \/ Report
  \/ SaveIssues
  \/ Publish
  \/ ScanDies

ScannerSpec == ScannerInit /\ [][ScannerNext]_scannerVars

-----------------------------------------------------------------------------
ScannerTypeOK ==
  /\ present \in SUBSET Defects /\ line \in [Defects -> 0..MaxEdits] /\ edits \in 0..MaxEdits
  /\ useDb \in BOOLEAN /\ issues \in [Identities -> {"none", "open", "settled"}]
  /\ scan.pc \in {"idle", "stage", "report", "save", "publish"}
  /\ scan.found \in SUBSET present /\ scan.todo \in SUBSET present
  /\ queued \subseteq RequestIds /\ shipped \in SUBSET Identities /\ missed \in SUBSET Identities

(* A report names every defect that passes the filter, unless its identity  *)
(* was known before the scan or is that of another defect it names, or a    *)
(* check was skipped or raised.                                             *)
ReportComplete ==
  scan.pc = "report" /\ scan.whole =>
    \A d \in present : SeverityOf[d] \in SeverityFilter =>
      \/ d \in scan.found
      \/ useDb /\ Identity(d) \in scan.before \cup {Identity(e) : e \in scan.found}

(* A scan that was not followed by an edit has found all there is: the next *)
(* one with the database finds nothing.                                     *)
SecondScanQuiet == useDb /\ quiet /\ scan.pc \in {"stage", "report", "save"} => scan.found = {}

(* A serious issue that the saved database knows, and so no later scan will *)
(* send, was sent, unless the scan that found it ended between its save and *)
(* its message, nobody asked for one, the queue refused it, the message of  *)
(* an earlier scan with the same request was still there, or more findings  *)
(* than it holds were found.                                                *)
KnownWasSent ==
  scan.pc # "publish" =>
    \A d \in Defects : Serious(d) /\ issues[Identity(d)] # "none" =>
      \/ Identity(d) \in shipped \cup missed
      \/ \E e \in Defects : ~Serious(e) /\ IdentOf[e] = IdentOf[d]

(* What is there is reported once, to the report and to the queue.          *)
ScannerSound == ScannerTypeOK /\ ReportComplete /\ SecondScanQuiet /\ KnownWasSent
=============================================================================
