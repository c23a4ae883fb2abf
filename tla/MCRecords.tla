------------------------------ MODULE MCRecords ------------------------------
(***************************************************************************)
(* Small instances, for TLC, of the modules about shared files that no     *)
(* lock protects, and about the tools that check an action before it is    *)
(* done.  The components do not act on one another's files, so they are    *)
(* checked side by side: a behaviour is one of one component.              *)
(***************************************************************************)
EXTENDS ChangeLedger, DispatchTracker, CompletedArchive, ParallelPool, Directives,
        ProjectInit, GenericRules, Gatekeeper, RuleChecker, RecipeChecks

VARIABLE part

MCLedgers ==
  {NoFile,
   File("list", <<Entry(101, FALSE, 0, TRUE)>>, 0, 0),
   File("dict", <<Entry(101, TRUE, 1, TRUE), Entry(102, FALSE, 2, TRUE)>>, 2, 0)}
MCTallies == {NoTally, [t \in Types |-> 2]}
MCRequests ==
  {Request("edit", "home", "elsewhere", FALSE), Request("delete", "git", "git", TRUE),
   Request("delete", "git", "elsewhere", TRUE), Request("shell", "elsewhere", "elsewhere", TRUE)}
MCActs ==
  {PlannedAct({"write", "checkpoint", "immune"}, "f", "f", "yaml", NotGiven, NotGiven, NotGiven, 0),
   PlannedAct({"write", "checkpoint", "force"}, "f", "f", "md", NotGiven, NotGiven, NotGiven, 0),
   PlannedAct({"cp", "git add"}, "g", "f", "md", NotGiven, NotGiven, NotGiven, 0),
   PlannedAct({"edit", "checkpoint", "mas-self"}, NotGiven, "g", "md", "ghost", NotGiven, NotGiven, 0),
   PlannedAct({"apply patches"}, NotGiven, NotGiven, "md", NotGiven, NotGiven, NotGiven, 2),
   PlannedAct({"signal done"}, NotGiven, NotGiven, "md", NotGiven, NotGiven, NotGiven, 0)}
MCBrings == [p \in {"p1", "p2", "p3", "p4"} |->
               CASE p = "p1" -> {"p1"} [] p = "p2" -> {"p3"} [] OTHER -> {}]
MCId == [j \in {"a1", "a2", "b"} |-> IF j = "b" THEN "b" ELSE "a"]

(* A recipe "m" and a text "s"; one name may mean either of the two.        *)
MCCandidates == [k \in {"m", "s"} \X {"own", "other"} |-> IF k[2] = "own" THEN {"m", "s"} ELSE {"s"}]
Whole == Document(TRUE, TRUE, TRUE, Top({"other"}), NoTop, Required, {"b1", "b2", "b3"})
MCDocuments ==
  {Whole, [Whole EXCEPT !.parses = FALSE], [Whole EXCEPT !.top = OddTop, !.fields = {}],
   [Whole EXCEPT !.mapping = FALSE, !.fields = {}],
   [Whole EXCEPT !.top = NoTop, !.below = OddTop],
   [Whole EXCEPT !.top = NoTop, !.below = Top({"other"}), !.meets = {"b2"}],
   [Whole EXCEPT !.top = Top({}), !.below = Top({"other"}), !.same = FALSE],
   [Whole EXCEPT !.top = Top({"own"}), !.fields = {"title", "version"}, !.meets = {"b1"}],
   [Whole EXCEPT !.top = Top({"own", "other"})]}
MCPractices == <<<<"b1", "b2">>, <<"b3">>, <<>>>>

\* Of two processes of the rule checkers it does not matter which is which.
MCSymmetry == Permutations(Askers) \cup Permutations(Checkers)

Parts == {"ledger", "tracker", "archive", "legacy", "jobs", "directives", "override",
          "setup", "generic", "gate", "rules", "recipe"}

\* The first states that are told apart, where there are more.
DirectivesMay ==
  /\ DirectivesInit
  /\ part # "override" => first = [p \in Patches |-> 0] /\ gate = "block"
RulesMay ==
  IF part # "rules" THEN ~inside /\ ~listed /\ \A m \in DOMAIN modes : modes[m] = NotGiven
  ELSE /\ \A m \in DOMAIN modes : modes[m] # NotGiven => m = "mas"
       /\ ~listed => ~inside /\ modes["mas"] = "mas"

SideInit ==
  /\ part \in Parts
  /\ LedgerInit /\ (part # "ledger" => ledger = NoFile)
  /\ DirectivesMay
  /\ TrackerInit /\ ArchiveInit /\ PoolInit
  /\ SetupInit /\ (part # "setup" => source)
  /\ GenericInit /\ (part # "generic" => tally = NoTally)
  /\ GateInit /\ (part # "gate" => fresh = {})
  /\ RulesInit /\ RulesMay
  /\ ChecksInit /\ (part # "recipe" => recipe = [f \in Recipes |-> Absent])

recordVars == <<ledgerVars, trackerVars, archiveVars, poolVars, directiveVars, overrideVars>>
checkVars == <<setupVars, genericVars, gateVars, ruleVars, validationVars>>

RecordNext ==
  /\ UNCHANGED checkVars
  /\ \/ part = "ledger" /\ LedgerNext
        /\ UNCHANGED <<trackerVars, archiveVars, poolVars, directiveVars, overrideVars>>
     \/ part = "tracker" /\ TrackerNext
        /\ UNCHANGED <<ledgerVars, archiveVars, poolVars, directiveVars, overrideVars>>
     \/ part = "archive" /\ ArchiveNext
        /\ UNCHANGED <<ledgerVars, trackerVars, poolVars, directiveVars, overrideVars>>
     \/ part = "legacy" /\ LegacyNext
        /\ UNCHANGED <<ledgerVars, trackerVars, archiveVars, directiveVars, overrideVars>>
     \/ part = "jobs" /\ JobsNext
        /\ UNCHANGED <<ledgerVars, trackerVars, archiveVars, directiveVars, overrideVars>>
     \/ part = "directives" /\ DirectiveNext
        /\ UNCHANGED <<ledgerVars, trackerVars, archiveVars, poolVars>>
     \/ part = "override" /\ OverrideNext
        /\ UNCHANGED <<ledgerVars, trackerVars, archiveVars, poolVars>>

CheckNext ==
  /\ UNCHANGED recordVars
  /\ \/ part = "setup" /\ SetupNext /\ UNCHANGED <<genericVars, gateVars, ruleVars, validationVars>>
     \/ part = "generic" /\ GenericNext /\ UNCHANGED <<setupVars, gateVars, ruleVars, validationVars>>
     \/ part = "gate" /\ GateNext /\ UNCHANGED <<setupVars, genericVars, ruleVars, validationVars>>
     \/ part = "rules" /\ RulesNext /\ UNCHANGED <<setupVars, genericVars, gateVars, validationVars>>
     \/ part = "recipe" /\ ChecksNext /\ UNCHANGED <<setupVars, genericVars, gateVars, ruleVars>>

SideNext == UNCHANGED part /\ (RecordNext \/ CheckNext)

SideSpec == SideInit /\ [][SideNext]_<<part, recordVars, checkVars>>

(* Two causes of loss at once show nothing that one does not.               *)
FewLosses == part = "tracker" => Cardinality(losses) <= 1
=============================================================================
