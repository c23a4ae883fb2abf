---------------------------- MODULE Installation ----------------------------
(***************************************************************************)
(* The other commands of dev_workspace.py: two products, the framework and *)
(* the MAS-Engineer, are copied between the installation under ~/.config/  *)
(* goose and a workspace, and each can be removed on its own.  Beside it,  *)
(* dev_recipe_manager.py installs and removes single recipes of the two.   *)
(*                                                                         *)
(* A file is its version; 0 is an absent file.  Directories that are       *)
(* copied as a whole (tools, documents) are one file each.                 *)
(***************************************************************************)
EXTENDS Integers, FiniteSets

CONSTANTS
  Recipes,      \* framework recipes besides framework-starter.yaml
  Subs,         \* sub_mas-*.yaml
  Shared,       \* recipe -> version in ~/.local/share/goose/_framework at the
                \* start; only the recipe manager writes there
  Offered,      \* recipes that the recipe manager finds in its checkout
  MaxEditions,  \* bound: versions that are written
  MaxCommits    \* bound: different workspaces that were committed

Starter == "framework-starter.yaml"
Mas == "dev-mas-engineer.yaml"
MasParts == {Mas, "mas tools", "mas docs"} \cup Subs
FwParts == {Starter, "fw docs"} \cup Recipes
Parts == MasParts \cup FwParts
Fixed == {Starter, Mas, "mas tools", "mas docs", "fw docs"}
Yaml == {Starter, Mas} \cup Recipes \cup Subs

ASSUME InstallationAssumption ==
  /\ MaxEditions \in Nat /\ MaxCommits \in Nat /\ Shared \in [Recipes -> {0, 1}] /\ Offered \subseteq Yaml \ Subs
  /\ Recipes \cap Subs = {} /\ (Recipes \cup Subs) \cap Fixed = {}

VARIABLES
  top,      \* part -> version in the installation
  hidden,   \* recipe -> version in its _framework directory
  fwDir,    \* whether that directory exists
  managed,  \* recipe -> version in ~/.local/share/goose/_framework
  work,     \* part -> version in the workspace
  dev,      \* "none" without a workspace, else how it was initialized
  commits,  \* versions of the workspace that git has
  edition,  \* counter
  passed,   \* products whose uninstall has passed its check and removes them next
  taken     \* observation: a product was taken away by something else than an
            \* uninstall, or two uninstalls passed their checks before either removed

installationVars == <<top, hidden, fwDir, managed, work, dev, commits, edition, passed, taken>>

Nothing == [p \in Parts |-> 0]

-----------------------------------------------------------------------------
(* init: recipes of the framework that the workspace lacks, visible ones    *)
(* first, then those of ~/.local/share; its documents anew.  With "dev" the *)
(* parts of the MAS that are installed replace those of the workspace.      *)
(* Then everything is committed.  Without "dev" the last call of the        *)
(* command raises, with all of this done.                                   *)
(* Mutation: the installed version comes first.                             *)
CopiedInstalled(p) ==
  IF top[p] # 0 THEN top[p]
  ELSE IF work[p] # 0 THEN work[p]
  ELSE IF p \in Recipes THEN managed[p] ELSE 0

CopiedRecipe(p) ==
  IF work[p] # 0 THEN work[p]
  ELSE IF top[p] # 0 THEN top[p]
  ELSE IF p \in Recipes THEN managed[p] ELSE 0
Initialized(mode) == [p \in Parts |->
  IF p \in {Starter} \cup Recipes THEN CopiedRecipe(p)
  ELSE IF top[p] # 0 /\ (p = "fw docs" \/ mode = "dev") THEN top[p] ELSE work[p]]
InitWorkspace(mode) ==
  /\ Cardinality(commits) < MaxCommits \/ Initialized(mode) \in commits
  /\ work' = Initialized(mode)
  /\ dev' = IF dev = "dev" THEN dev ELSE mode
  /\ commits' = commits \cup {Initialized(mode)}
  /\ UNCHANGED <<top, hidden, fwDir, managed, edition, passed, taken>>

WithMas == [p \in Parts |-> IF p \in MasParts /\ work[p] # 0 THEN work[p] ELSE top[p]]

(* install: the installer of the workspace, which is not part of the        *)
(* repository, installs the framework and may take the MAS away; the MAS is *)
(* then put back from the workspace.                                        *)
Install(keepsMas) ==
  /\ dev = "dev"
  /\ LET installed == [p \in Parts |->
           IF p \in MasParts THEN (IF keepsMas THEN top[p] ELSE 0)
           ELSE IF p \notin Recipes /\ work[p] # 0 THEN work[p] ELSE top[p]]
         there == installed[Mas] # 0 /\ installed["mas tools"] # 0
     IN  top' = IF there THEN installed
                ELSE [p \in Parts |-> IF p \in MasParts /\ work[p] # 0 THEN work[p] ELSE installed[p]]
  /\ hidden' = [r \in Recipes |-> IF work[r] # 0 THEN work[r] ELSE hidden[r]]
  /\ fwDir' = (fwDir \/ \E r \in Recipes : work[r] # 0)
  /\ taken' = (taken \/ (top'[Mas] = 0 /\ top[Mas] # 0))
  /\ UNCHANGED <<managed, work, dev, commits, edition, passed>>

InstallMas ==
  /\ work[Mas] # 0
  /\ top' = WithMas
  /\ UNCHANGED <<hidden, fwDir, managed, work, dev, commits, edition, passed, taken>>

(* Each uninstall looks for the other product and removes its own later; of *)
(* the hidden recipes only the directory is looked for, and it stays when   *)
(* its last recipe is removed.                                              *)
(* Mutation: one of the two signs of the framework is enough.               *)
SeesFrameworkSigns == top[Starter] # 0 \/ fwDir

SeesFramework == top[Starter] # 0 /\ fwDir
Sees(product) == IF product = "mas" THEN SeesFramework ELSE top[Mas] # 0

CheckUninstall(product) ==
  /\ product \notin passed /\ Sees(product)
  /\ passed' = passed \cup {product}
  /\ taken' = (taken \/ passed # {})
  /\ UNCHANGED <<top, hidden, fwDir, managed, work, dev, commits, edition>>

(* uninstall: every visible recipe but the one of the MAS.                  *)
Uninstall ==
  /\ "framework" \in passed /\ passed' = passed \ {"framework"}
  /\ top' = [p \in Parts |-> IF p \in Yaml \ {Mas} \/ p = "fw docs" THEN 0 ELSE top[p]]
  /\ hidden' = [r \in Recipes |-> 0] /\ fwDir' = FALSE
  /\ UNCHANGED <<managed, work, dev, commits, edition, taken>>

UninstallMas ==
  /\ "mas" \in passed /\ passed' = passed \ {"mas"}
  /\ top' = [p \in Parts |-> IF p \in MasParts THEN 0 ELSE top[p]]
  /\ UNCHANGED <<hidden, fwDir, managed, work, dev, commits, edition, taken>>

AddRecipe(p) ==
  /\ p \in {Starter} \cup Recipes /\ work[p] # 0
  /\ IF p = Starter THEN top' = [top EXCEPT ![p] = work[p]] /\ UNCHANGED <<hidden, fwDir>>
     ELSE /\ hidden' = [hidden EXCEPT ![p] = work[p]] /\ fwDir' = TRUE
          /\ top' = [top EXCEPT ![p] = 0]
  /\ UNCHANGED <<managed, work, dev, commits, edition, passed, taken>>

RemoveRecipe(p) ==
  /\ p \in Yaml
  /\ IF top[p] # 0 THEN top' = [top EXCEPT ![p] = 0] /\ UNCHANGED hidden
     ELSE p \in Recipes /\ hidden[p] # 0 /\ hidden' = [hidden EXCEPT ![p] = 0] /\ UNCHANGED top
  /\ taken' = (taken \/ p \in {Starter, Mas})
  /\ UNCHANGED <<fwDir, managed, work, dev, commits, edition, passed>>

(* dev_recipe_manager: a category or a file.  What is installed comes from  *)
(* the repository, version 1; the recipes go where dev_workspace does not   *)
(* look for the framework; what is not found is skipped.  Of a file that is *)
(* in both places the visible one is removed.                               *)
ManagerSpecs == {{Starter, Mas} \cup Recipes} \cup {{p} : p \in Yaml}

ManagerInstall(files) ==
  /\ top' = [p \in Parts |-> IF p \in files \cap Offered \cap {Starter, Mas} THEN 1 ELSE top[p]]
  /\ managed' = [r \in Recipes |-> IF r \in files \cap Offered THEN 1 ELSE managed[r]]
  /\ UNCHANGED <<hidden, fwDir, work, dev, commits, edition, passed, taken>>

ManagerUninstall(files) ==
  /\ top' = [p \in Parts |-> IF p \in files THEN 0 ELSE top[p]]
  /\ managed' = [r \in Recipes |-> IF r \in files /\ top[r] = 0 THEN 0 ELSE managed[r]]
  /\ taken' = (taken \/ {Starter, Mas} \cap files # {})
  /\ UNCHANGED <<hidden, fwDir, work, dev, commits, edition, passed>>

Clean ==
  /\ dev # "none"
  /\ work' = Nothing /\ dev' = "none" /\ commits' = {}
  /\ UNCHANGED <<top, hidden, fwDir, managed, edition, passed, taken>>

Rollback(c) ==
  /\ dev # "none" /\ c \in commits
  /\ work' = c
  /\ UNCHANGED <<top, hidden, fwDir, managed, dev, commits, edition, passed, taken>>

(* Somebody works on a part in the workspace.                               *)
EditWork(p) ==
  /\ work[p] # 0 /\ edition < MaxEditions
  /\ edition' = edition + 1 /\ work' = [work EXCEPT ![p] = edition']
  /\ UNCHANGED <<top, hidden, fwDir, managed, dev, commits, passed, taken>>

InstallationInit ==
  /\ top = [p \in Parts |-> IF p \in Recipes THEN 0 ELSE 1]
  /\ hidden = [r \in Recipes |-> 1] /\ fwDir = TRUE /\ managed = Shared
  /\ work = Nothing /\ dev = "none" /\ commits = {} /\ edition = 1
  /\ passed = {} /\ taken = FALSE

InstallationNext ==
  \/ \E mode \in {"dev", "framework"} : InitWorkspace(mode)
  \/ \E keepsMas \in BOOLEAN : Install(keepsMas)
  \/ InstallMas
  \/ \E product \in {"framework", "mas"} : CheckUninstall(product)
  \/ Uninstall
  \/ UninstallMas
  \/ \E p \in Parts : AddRecipe(p) \/ RemoveRecipe(p) \/ EditWork(p)
  \/ \E files \in ManagerSpecs : ManagerInstall(files) \/ ManagerUninstall(files)
  \/ Clean
  \/ \E c \in commits : Rollback(c)

InstallationSpec == InstallationInit /\ [][InstallationNext]_installationVars

-----------------------------------------------------------------------------
(* Each uninstall insists on the other product, so one of the two is always  *)
(* there, whatever is installed again between check and removal, unless two  *)
(* uninstalls passed their checks before either removed, or --remove-recipe, *)
(* the recipe manager or an installer that takes away what the workspace     *)
(* lacks removed one.                                                        *)
NeverNeither == ~taken => top[Mas] # 0 \/ top[Starter] # 0

(* A recipe of the framework that was changed in the workspace is never     *)
(* overwritten: only Clean and Rollback give its version up.                *)
WorkKept ==
  [][\/ \A p \in Recipes \cup {Starter} : work[p] > 1 => work'[p] >= work[p]
     \/ Clean \/ \E c \in commits : Rollback(c)]_installationVars

(* The docstring of cmd_uninstall: MAS bleibt keep.                         *)
UninstallKeepsMas ==
  [][Uninstall => \A p \in MasParts : top'[p] = top[p]]_installationVars
=============================================================================
