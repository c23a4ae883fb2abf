------------------------------- MODULE MCTools -------------------------------
(***************************************************************************)
(* Small instances, for TLC, of the tools that a person or an agent runs   *)
(* by hand: the scanner and its fixer, the editor, the workspace manager's *)
(* installation and projects, the generator of agents, and the issue       *)
(* database with stages of all three kinds.  They share no state (Scanner  *)
(* has the part of the database it looks at), so they are checked side by  *)
(* side: a behaviour is one of one tool.                                   *)
(***************************************************************************)
EXTENDS Scanner, RecipeRepair, Editor, Projects, Installation, AgentFactory, IssueDB, TLC

VARIABLE tool

-----------------------------------------------------------------------------
(* Two recipe files with the same defect, one that a tool check finds, and  *)
(* one of a check whose identity is a line.                                 *)
MCDefects == {"y1", "y2", "t1", "d1"}
MCStageOf == [y1 |-> "yaml", y2 |-> "yaml", t1 |-> "tool", d1 |-> "drift"]
MCSeverityOf == [y1 |-> "medium", y2 |-> "medium", t1 |-> "high", d1 |-> "high"]
MCIdentOf == [y1 |-> "Q1", y2 |-> "Q1", t1 |-> "Q4c", d1 |-> "SD"]

(* A sub-recipe with few findings, one with too many tools that parses or   *)
(* not, and the main recipe.                                                *)
Words == {"mode", "stop", "step", "try", "retry", "clean", "log", "output",
          "undo", "valid", "format", "pattern", "MODE-CHECK"}
Good ==
  [shape |-> "mapping", place |-> "sub", fields |-> Fields \ {"title"}, says |-> Words,
   prompt |-> {"I_AM", "MODE-CHECK", "context"}, long |-> "medium", timeout |-> 300,
   turns |-> 50, steps |-> 0, temperature |-> TRUE, tools |-> 1, summon |-> TRUE, big |-> TRUE,
   splitLately |-> FALSE, broad |-> FALSE, roles |-> 2, numbered |-> TRUE]
Sub == [Good EXCEPT !.says = @ \ {"retry"}, !.prompt = {"context"}, !.timeout = 20, !.summon = FALSE]
Main == [Good EXCEPT !.place = "orchestrator", !.says = @ \ {"step", "MODE-CHECK"}, !.turns = 20]
Overloaded == [Sub EXCEPT !.says = Words, !.tools = 5]
MCGiven ==
  [f1 |-> {Sub, [Overloaded EXCEPT !.shape = "broken"], Overloaded}, f2 |-> {Main}]

MCBaseName == [f \in Paths |-> "x"]
MCShared == [r1 |-> 1]

(* The callers of the editor are interchangeable, and so are its files, all  *)
(* of one name.                                                             *)
Symmetry == Permutations(Editors) \cup Permutations(Paths)

-----------------------------------------------------------------------------
Tools == {"scanner", "repair", "editor", "projects", "installation", "factory", "issues"}

SideInit ==
  /\ tool \in Tools
  /\ ScannerInit /\ RepairInit /\ EditorInit /\ ProjectsInit /\ InstallationInit /\ FactoryInit /\ Init
  /\ IF tool = "scanner" THEN present \in {{}, {"y1", "d1"}, Defects} ELSE present = {} /\ ~useDb
  /\ tool # "repair" => recipe = [f1 |-> Sub, f2 |-> Main]
  /\ tool # "factory" => templates = RecoveryAgents

SideNext ==
  /\ UNCHANGED tool
  /\ \/ tool = "scanner" /\ ScannerNext
        /\ UNCHANGED <<repairVars, editorVars, projectVars, installationVars, factoryVars, vars>>
     \/ tool = "repair" /\ RepairNext
        /\ UNCHANGED <<scannerVars, editorVars, projectVars, installationVars, factoryVars, vars>>
     \/ tool = "editor" /\ EditorNext
        /\ UNCHANGED <<scannerVars, repairVars, projectVars, installationVars, factoryVars, vars>>
     \/ tool = "projects" /\ ProjectsNext
        /\ UNCHANGED <<scannerVars, repairVars, editorVars, installationVars, factoryVars, vars>>
     \/ tool = "installation" /\ InstallationNext
        /\ UNCHANGED <<scannerVars, repairVars, editorVars, projectVars, factoryVars, vars>>
     \/ tool = "factory" /\ FactoryNext
        /\ UNCHANGED <<scannerVars, repairVars, editorVars, projectVars, installationVars, vars>>
     \/ tool = "issues" /\ Next
        /\ UNCHANGED <<scannerVars, repairVars, editorVars, projectVars, installationVars, factoryVars>>

SideSpec ==
  SideInit /\ [][SideNext]_<<tool, scannerVars, repairVars, editorVars, projectVars,
                             installationVars, factoryVars, vars>>
=============================================================================
