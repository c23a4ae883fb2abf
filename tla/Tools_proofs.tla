----------------------------- MODULE Tools_proofs -----------------------------
(***************************************************************************)
(* Theorems about the tools that a person or an agent runs by hand.  Each  *)
(* tool is a specification of its own; the theorems hold for every value   *)
(* of its constants.                                                       *)
(***************************************************************************)
EXTENDS Scanner, RecipeRepair, Editor, Projects, Installation, AgentFactory, FiniteSetTheorems, TLAPS

-----------------------------------------------------------------------------
(* The installation.                                                        *)

\* Every version that is anywhere was written, at the start or by an edit.
InstallationTypeOK ==
  /\ edition \in Nat \ {0}
  /\ top \in [Parts -> 0..edition]
  /\ hidden \in [Recipes -> 0..edition]
  /\ fwDir \in BOOLEAN
  /\ managed \in [Recipes -> 0..edition]
  /\ work \in [Parts -> 0..edition]
  /\ dev \in {"none", "dev", "framework"}
  /\ commits \subseteq [Parts -> 0..edition]
  /\ passed \subseteq {"framework", "mas"}
  /\ taken \in BOOLEAN

\* The parts that the manager looks for are parts, and different ones.
LEMMA NamedParts ==
  /\ Starter \in Parts /\ Mas \in Parts /\ "mas tools" \in Parts /\ "fw docs" \in Parts
  /\ Starter # Mas /\ Starter # "fw docs" /\ Mas # "fw docs"
  /\ Starter \notin MasParts /\ Mas \in MasParts /\ Mas \in Yaml /\ Starter \in Yaml
  /\ Starter \notin Recipes /\ Mas \notin Recipes
  /\ Recipes \subseteq Parts /\ Yaml \subseteq Parts
BY InstallationAssumption DEF Parts, FwParts, MasParts, Starter, Mas, Yaml, Fixed

\* The initial state has its type.
LEMMA InstallationTypeInit == ASSUME InstallationInit PROVE InstallationTypeOK
<1>1. edition = 1 /\ 0 \in 0..edition /\ 1 \in 0..edition
  BY DEF InstallationInit
<1>2. top \in [Parts -> 0..edition] /\ work \in [Parts -> 0..edition]
  BY <1>1 DEF InstallationInit, Nothing
<1>3. hidden \in [Recipes -> 0..edition] /\ managed \in [Recipes -> 0..edition]
  BY <1>1, InstallationAssumption DEF InstallationInit
<1>4. edition \in Nat \ {0} /\ dev \in {"none", "dev", "framework"}
  BY <1>1 DEF InstallationInit
<1>5. commits \subseteq [Parts -> 0..edition]
  BY DEF InstallationInit
<1>6. taken \in BOOLEAN /\ fwDir \in BOOLEAN /\ passed \subseteq {"framework", "mas"}
  BY DEF InstallationInit
<1>. QED BY <1>2, <1>3, <1>4, <1>5, <1>6 DEF InstallationTypeOK

\* Every step keeps it.
LEMMA InstallationTypeNext ==
  ASSUME InstallationTypeOK, [InstallationNext]_installationVars PROVE InstallationTypeOK'
<1>. USE DEF InstallationTypeOK
<1>1. 0 \in 0..edition /\ 1 \in 0..edition
  OBVIOUS
<1>2. ASSUME NEW mode \in {"dev", "framework"}, InitWorkspace(mode) PROVE InstallationTypeOK'
  <2>1. Initialized(mode) \in [Parts -> 0..edition]
    BY NamedParts DEF Initialized, CopiedRecipe
  <2>. QED BY <1>2, <2>1 DEF InitWorkspace
<1>3. ASSUME NEW keepsMas \in BOOLEAN, Install(keepsMas) PROVE InstallationTypeOK'
  <2>1. top' \in [Parts -> 0..edition]
    <3>1. PICK installed \in [Parts -> 0..edition] :
            \/ top' = installed
            \/ top' = [p \in Parts |-> IF p \in MasParts /\ work[p] # 0 THEN work[p] ELSE installed[p]]
      <4>1. [p \in Parts |->
               IF p \in MasParts THEN (IF keepsMas THEN top[p] ELSE 0)
               ELSE IF p \notin Recipes /\ work[p] # 0 THEN work[p] ELSE top[p]] \in [Parts -> 0..edition]
        BY <1>1
      <4>. QED BY <1>3, <4>1 DEF Install
    <3>. QED BY <3>1
  <2>2. hidden' \in [Recipes -> 0..edition]
    BY <1>3, NamedParts DEF Install
  <2>. QED BY <1>3, <2>1, <2>2 DEF Install
<1>4. ASSUME InstallMas \/ Uninstall \/ UninstallMas PROVE InstallationTypeOK'
  <2>1. top' \in [Parts -> 0..edition]
    BY <1>1, <1>4 DEF InstallMas, Uninstall, UninstallMas, WithMas
  <2>2. hidden' \in [Recipes -> 0..edition]
    BY <1>1, <1>4 DEF InstallMas, Uninstall, UninstallMas
  <2>3. fwDir' \in BOOLEAN /\ passed' \subseteq {"framework", "mas"}
    BY <1>4 DEF InstallMas, Uninstall, UninstallMas
  <2>. QED BY <1>4, <2>1, <2>2, <2>3 DEF InstallMas, Uninstall, UninstallMas
<1>5. ASSUME NEW p \in Parts, AddRecipe(p) PROVE InstallationTypeOK'
  <2>1. CASE p = Starter
    BY <1>5, <2>1 DEF AddRecipe
  <2>2. CASE p # Starter
    <3>1. p \in Recipes /\ work[p] \in 0..edition
      BY <1>5, <2>2 DEF AddRecipe
    <3>2. hidden' = [hidden EXCEPT ![p] = work[p]] /\ fwDir' = TRUE /\ top' = [top EXCEPT ![p] = 0]
      BY <1>5, <2>2 DEF AddRecipe
    <3>3. UNCHANGED <<managed, work, dev, commits, edition, passed, taken>>
      BY <1>5 DEF AddRecipe
    <3>. QED BY <1>1, <3>1, <3>2, <3>3
  <2>. QED BY <2>1, <2>2
<1>6. ASSUME NEW p \in Parts, RemoveRecipe(p) PROVE InstallationTypeOK'
  BY <1>6 DEF RemoveRecipe
<1>7. ASSUME NEW p \in Parts, EditWork(p) PROVE InstallationTypeOK'
  BY <1>7 DEF EditWork
<1>8. ASSUME NEW files \in ManagerSpecs, ManagerInstall(files) PROVE InstallationTypeOK'
  BY <1>1, <1>8 DEF ManagerInstall
<1>9. ASSUME NEW files \in ManagerSpecs, ManagerUninstall(files) PROVE InstallationTypeOK'
  BY <1>9 DEF ManagerUninstall
<1>10. ASSUME Clean PROVE InstallationTypeOK'
  BY <1>10 DEF Clean, Nothing
<1>11. ASSUME NEW c \in commits, Rollback(c) PROVE InstallationTypeOK'
  BY <1>11 DEF Rollback
<1>12. ASSUME NEW product \in {"framework", "mas"}, CheckUninstall(product)
       PROVE  InstallationTypeOK'
  BY <1>12 DEF CheckUninstall
<1>13. CASE UNCHANGED installationVars
  BY <1>13 DEF installationVars
<1>. QED
  BY <1>2, <1>3, <1>4, <1>5, <1>6, <1>7, <1>8, <1>9, <1>10, <1>11, <1>12, <1>13
  DEF InstallationNext

\* No command invents a version of a part: what is installed, in the
\* workspace or committed is a version that was there or that an edit wrote.
THEOREM InstallationTypes == InstallationSpec => []InstallationTypeOK
BY InstallationTypeInit, InstallationTypeNext, PTL DEF InstallationSpec

\* While nothing else takes a product away, an uninstall that passed its check
\* is alone, and the product that it looked for is still there.
StillSeen ==
  ~taken => /\ ~ {"framework", "mas"} \subseteq passed
            /\ "framework" \in passed => top[Mas] # 0
            /\ "mas" \in passed => top[Starter] # 0

\* A step that takes neither product away and lets no uninstall pass keeps
\* what is claimed of them.
LEMMA ProductsKept ==
  ASSUME NeverNeither, StillSeen, passed' = passed, taken' = taken,
         top[Mas] # 0 => top'[Mas] # 0, top[Starter] # 0 => top'[Starter] # 0
  PROVE  NeverNeither' /\ StillSeen'
BY DEF NeverNeither, StillSeen

\* One of the two products is there after any sequence of the commands, though
\* each uninstall looks for the other product some time before it removes its
\* own, unless two of them passed their checks before either removed, or a
\* product was taken away by something else.
THEOREM OneProductStays == InstallationSpec => []NeverNeither
<1>. DEFINE Inv == InstallationTypeOK /\ NeverNeither /\ StillSeen
<1>1. InstallationInit => Inv
  <2>1. InstallationInit => top[Mas] = 1 /\ passed = {}
    BY NamedParts DEF InstallationInit
  <2>. QED BY <2>1, InstallationTypeInit DEF NeverNeither, StillSeen
<1>2. Inv /\ [InstallationNext]_installationVars => Inv'
  <2>. SUFFICES ASSUME Inv, [InstallationNext]_installationVars
                PROVE  NeverNeither' /\ StillSeen'
    BY InstallationTypeNext
  <2>1. ASSUME NEW files, ManagerInstall(files) PROVE NeverNeither' /\ StillSeen'
    <3>1. \A p \in Parts : top'[p] = 1 \/ top'[p] = top[p]
      BY <2>1 DEF ManagerInstall
    <3>2. \A p \in Parts : top[p] # 0 => top'[p] # 0
      BY <3>1
    <3>3. taken' = taken /\ passed' = passed
      BY <2>1 DEF ManagerInstall
    <3>. QED BY <3>2, <3>3, NamedParts, ProductsKept
  <2>2. ASSUME NEW mode \in {"dev", "framework"}, InitWorkspace(mode)
        PROVE  NeverNeither' /\ StillSeen'
    BY <2>2, ProductsKept DEF InitWorkspace
  <2>3. ASSUME NEW keepsMas \in BOOLEAN, Install(keepsMas) PROVE NeverNeither' /\ StillSeen'
    <3>1. top[Starter] # 0 => top'[Starter] # 0
      BY <2>3, NamedParts DEF Install
    <3>2. passed' = passed /\ taken' = (taken \/ (top'[Mas] = 0 /\ top[Mas] # 0))
      BY <2>3 DEF Install
    <3>3. CASE taken'
      BY <3>3 DEF NeverNeither, StillSeen
    <3>4. CASE ~taken'
      BY <3>1, <3>2, <3>4, ProductsKept DEF InstallationTypeOK
    <3>. QED BY <3>3, <3>4
  <2>4. ASSUME InstallMas PROVE NeverNeither' /\ StillSeen'
    <3>1. \A p \in Parts : top[p] # 0 => top'[p] # 0
      BY <2>4 DEF InstallMas, WithMas
    <3>. QED BY <2>4, <3>1, NamedParts, ProductsKept DEF InstallMas
  <2>5. ASSUME NEW product \in {"framework", "mas"}, CheckUninstall(product)
        PROVE  NeverNeither' /\ StillSeen'
    <3>1. CASE product = "framework"
      BY <2>5, <3>1 DEF CheckUninstall, Sees, NeverNeither, StillSeen, InstallationTypeOK
    <3>2. CASE product = "mas"
      BY <2>5, <3>2
      DEF CheckUninstall, Sees, SeesFramework, NeverNeither, StillSeen, InstallationTypeOK
    <3>. QED BY <3>1, <3>2
  <2>6. ASSUME Uninstall PROVE NeverNeither' /\ StillSeen'
    <3>1. top'[Mas] = top[Mas]
      BY <2>6, NamedParts DEF Uninstall
    <3>2. "framework" \in passed /\ passed' = passed \ {"framework"} /\ taken' = taken
      BY <2>6 DEF Uninstall
    <3>. QED BY <3>1, <3>2 DEF NeverNeither, StillSeen
  <2>7. ASSUME UninstallMas PROVE NeverNeither' /\ StillSeen'
    <3>1. top'[Starter] = top[Starter]
      BY <2>7, NamedParts DEF UninstallMas
    <3>2. "mas" \in passed /\ passed' = passed \ {"mas"} /\ taken' = taken
      BY <2>7 DEF UninstallMas
    <3>. QED BY <3>1, <3>2 DEF NeverNeither, StillSeen
  <2>8. ASSUME NEW p \in Parts, AddRecipe(p) PROVE NeverNeither' /\ StillSeen'
    <3>1. /\ top[Mas] # 0 => top'[Mas] # 0
          /\ top[Starter] # 0 => top'[Starter] # 0
      BY <2>8, NamedParts DEF AddRecipe, InstallationTypeOK
    <3>. QED BY <2>8, <3>1, ProductsKept DEF AddRecipe
  <2>9. ASSUME NEW p \in Parts, RemoveRecipe(p) PROVE NeverNeither' /\ StillSeen'
    <3>1. CASE taken'
      BY <3>1 DEF NeverNeither, StillSeen
    <3>2. CASE ~taken'
      <4>1. p \notin {Starter, Mas} /\ taken' = taken /\ passed' = passed
        BY <2>9, <3>2 DEF RemoveRecipe, InstallationTypeOK
      <4>2. top'[Mas] = top[Mas] /\ top'[Starter] = top[Starter]
        BY <2>9, <4>1, NamedParts DEF RemoveRecipe, InstallationTypeOK
      <4>. QED BY <4>1, <4>2, ProductsKept
    <3>. QED BY <3>1, <3>2
  <2>10. ASSUME NEW p \in Parts, EditWork(p) PROVE NeverNeither' /\ StillSeen'
    BY <2>10, ProductsKept DEF EditWork
  <2>11. ASSUME NEW files \in ManagerSpecs, ManagerUninstall(files)
         PROVE  NeverNeither' /\ StillSeen'
    <3>1. CASE taken'
      BY <3>1 DEF NeverNeither, StillSeen
    <3>2. CASE ~taken'
      <4>1. Mas \notin files /\ Starter \notin files /\ taken' = taken /\ passed' = passed
        BY <2>11, <3>2 DEF ManagerUninstall, InstallationTypeOK
      <4>2. top'[Mas] = top[Mas] /\ top'[Starter] = top[Starter]
        BY <2>11, <4>1, NamedParts DEF ManagerUninstall
      <4>. QED BY <4>1, <4>2, ProductsKept
    <3>. QED BY <3>1, <3>2
  <2>12. ASSUME Clean \/ \E c \in commits : Rollback(c) PROVE NeverNeither' /\ StillSeen'
    BY <2>12, ProductsKept DEF Clean, Rollback
  <2>13. CASE UNCHANGED installationVars
    BY <2>13, ProductsKept DEF installationVars
  <2>. QED
    BY <2>1, <2>2, <2>3, <2>4, <2>5, <2>6, <2>7, <2>8, <2>9, <2>10, <2>11, <2>12, <2>13
    DEF InstallationNext
<1>. QED BY <1>1, <1>2, PTL DEF InstallationSpec

\* A recipe of the framework that was changed in the workspace is not
\* overwritten by an older one: only Clean and Rollback give its version up.
THEOREM WorkIsKept == InstallationSpec => WorkKept
<1>. DEFINE Keeps == \/ \A p \in Recipes \cup {Starter} : work[p] > 1 => work'[p] >= work[p]
                     \/ Clean \/ \E c \in commits : Rollback(c)
<1>1. InstallationTypeOK /\ [InstallationNext]_installationVars => [Keeps]_installationVars
  <2>. SUFFICES ASSUME InstallationTypeOK, InstallationNext, NEW p \in Recipes \cup {Starter},
                       work[p] > 1, ~Clean, ~ \E c \in commits : Rollback(c)
                PROVE  work'[p] >= work[p]
    OBVIOUS
  <2>1. p \in Parts /\ work[p] \in 0..edition /\ edition \in Nat
    BY NamedParts DEF InstallationTypeOK
  <2>2. ASSUME NEW mode \in {"dev", "framework"}, InitWorkspace(mode)
        PROVE  work'[p] = work[p]
    <3>1. p \in {Starter} \cup Recipes /\ work[p] # 0
      BY <2>1
    <3>2. Initialized(mode)[p] = work[p]
      BY <2>1, <3>1 DEF Initialized, CopiedRecipe
    <3>. QED BY <2>2, <3>2 DEF InitWorkspace
  <2>3. ASSUME NEW q \in Parts, EditWork(q) PROVE work'[p] >= work[p]
    BY <2>1, <2>3 DEF EditWork, InstallationTypeOK
  <2>4. ASSUME work' = work PROVE work'[p] >= work[p]
    BY <2>1, <2>4
  <2>5. \/ \E mode \in {"dev", "framework"} : InitWorkspace(mode)
        \/ \E q \in Parts : EditWork(q)
        \/ work' = work
    BY DEF InstallationNext, Install, InstallMas, CheckUninstall, Uninstall, UninstallMas,
       AddRecipe, RemoveRecipe, ManagerInstall, ManagerUninstall
  <2>. QED BY <2>1, <2>2, <2>3, <2>4, <2>5
<1>. QED
  BY <1>1, InstallationTypeInit, InstallationTypeNext, PTL DEF InstallationSpec, WorkKept

-----------------------------------------------------------------------------
(* The projects.                                                            *)

ProjectsTypeOK ==
  /\ registry \subseteq Places
  /\ active \in Places
  /\ link \in Places \cup {NoLink}
  /\ folder \in [Places -> SUBSET Nat]
  /\ trash \subseteq Nat
  /\ command \in [name : Places \cup {""}, to : Places \cup {""},
                  steps : SUBSET {"add", "link", "remove", "move"}]
  /\ command.steps # {} => command.name \in Places /\ command.to \in Places
  /\ contents \in Nat
  /\ origin \in [basis : Places, cut : BOOLEAN]

\* The registered projects without one have their directories.
DirectoriesBut(n) == \A m \in registry \ {origin.basis, n} : Exists(m)
Directories == \A m \in registry \ {origin.basis} : Exists(m)

\* What is left of each command, and how the registry, the link and the
\* directories stand when it gets there.
Creating == /\ command.steps = {"add", "link"} /\ command.to = command.name
            /\ Exists(command.name) /\ Directories /\ link \in {NoLink, active}
Linking == command.steps = {"link"} /\ active = command.to /\ Directories
Removing == /\ command.name # Basis /\ DirectoriesBut(command.name)
            /\ command.to \in (registry \ {command.name}) \cup {Basis}
            /\ command.steps \in {{"link", "remove"}, {"remove"}}
            /\ "link" \notin command.steps => link \in {NoLink, command.to}
Moving == /\ DirectoriesBut(command.name) /\ command.name \in registry /\ command.to \notin registry
          /\ command.name = origin.basis \/ Exists(command.to)
          /\ command.steps \in {{"link", "move"}, {"move"}}
          /\ "link" \in command.steps => active = command.name
          /\ "link" \notin command.steps =>
               link \in {NoLink, IF active = command.name THEN command.to ELSE active}
Resting == Idle /\ Directories /\ link \in {NoLink, active}

\* A command that is not interrupted brings the three from one agreement to
\* the next; the active project is a registered one or the basis.
CommandInv ==
  ~origin.cut =>
    /\ active \in registry \cup {Basis}
    /\ origin.basis = Basis => Basis \in registry
    /\ Creating \/ Linking \/ Removing \/ Moving \/ Resting

ProjectsInv == ProjectsTypeOK /\ ContentsKept /\ CommandInv

\* Counting the contents.
LEMMA Counting == \A k \in Nat : k + 1 \in Nat /\ \A i \in 1..(k + 1) : i = k + 1 \/ i \in 1..k
OBVIOUS

\* A command that has to save a new project is no other one.
LEMMA OnlyCreateAdds == \A S : "add" \in S =>
  S # {} /\ S # {"link"} /\ S \notin {{"link", "remove"}, {"remove"}, {"link", "move"}, {"move"}}
OBVIOUS

\* A content is kept if it is in the trash or in one of the directories.
LEMMA KeptSomewhere ==
  /\ ContentsKept <=> \A c \in 1..contents : c \in trash \/ \E n \in Places : c \in folder[n]
  /\ ContentsKept' <=>
       \A c \in 1..contents' : c \in trash' \/ \E n \in Places : c \in folder'[n]
<1>1. \A c : c \in UNION {folder[n] : n \in Places} <=> \E n \in Places : c \in folder[n]
  OBVIOUS
<1>2. \A c : c \in UNION {folder'[n] : n \in Places} <=> \E n \in Places : c \in folder'[n]
  OBVIOUS
<1>. QED BY <1>1, <1>2 DEF ContentsKept

\* The invariant holds initially.
LEMMA ProjectsStart == ASSUME ProjectsInit PROVE ProjectsInv
<1>1. Basis \in Places
  BY ProjectsAssumption DEF Places
<1>2. ProjectsTypeOK
  <2>1. /\ registry \subseteq Places /\ active \in Places /\ link \in Places \cup {NoLink}
        /\ trash \subseteq Nat /\ contents \in Nat
    BY <1>1 DEF ProjectsInit
  <2>2. folder \in [Places -> SUBSET Nat]
    <3>1. {} \in SUBSET Nat /\ {0} \in SUBSET Nat
      OBVIOUS
    <3>. QED BY <3>1 DEF ProjectsInit
  <2>3. /\ command \in [name : Places \cup {""}, to : Places \cup {""},
                         steps : SUBSET {"add", "link", "remove", "move"}]
        /\ command.steps = {}
    BY DEF ProjectsInit, NoCommand
  <2>4. origin \in [basis : Places, cut : BOOLEAN]
    BY <1>1 DEF ProjectsInit
  <2>. QED BY <2>1, <2>2, <2>3, <2>4 DEF ProjectsTypeOK
<1>3. ContentsKept
  BY DEF ProjectsInit, ContentsKept
<1>4. CommandInv
  BY DEF ProjectsInit, CommandInv, Resting, Directories, Idle, NoCommand
<1>. QED BY <1>2, <1>3, <1>4 DEF ProjectsInv

\* The steps that begin a command.
LEMMA ProjectsBegin ==
  ASSUME ProjectsInv,
         \/ \E n \in Places, source \in Places \cup {""} : Create(n, source)
         \/ \E n \in Places : Switch(n) \/ Delete(n)
         \/ \E old \in Places, new \in ProjectNames : Rename(old, new)
  PROVE  ProjectsInv'
<1>. USE DEF ProjectsInv, ProjectsTypeOK
<1>1. Basis \in Places /\ ProjectNames \subseteq Places
  BY ProjectsAssumption DEF Places
<1>2. Idle /\ (~origin.cut => Directories /\ (Resting \/ command.steps = {}))
  BY DEF Create, Switch, Delete, Rename, CommandInv, Creating, Linking, Removing, Moving,
         Resting, Idle
<1>3. ~origin.cut => Resting
  BY <1>2 DEF CommandInv, Creating, Linking, Removing, Moving, Idle
<1>4. ASSUME NEW n \in Places, NEW source \in Places \cup {""}, Create(n, source)
      PROVE  ProjectsInv'
  <2>1. /\ folder' = [folder EXCEPT ![n] = @ \cup {contents + 1}]
        /\ contents' = contents + 1 /\ trash' = trash /\ origin' = origin
        /\ registry' = registry /\ active' = active /\ link' = link
        /\ command' = [name |-> n, to |-> n, steps |-> {"add", "link"}]
    BY <1>4 DEF Create
  <2>2. ProjectsTypeOK'
    <3>1. folder' \in [Places -> SUBSET Nat] /\ contents' \in Nat
      <4>2. folder[n] \subseteq Nat /\ contents + 1 \in Nat
        BY Counting
      <4>. QED BY <2>1, <4>2
    <3>2. /\ command' \in [name : Places \cup {""}, to : Places \cup {""},
                            steps : SUBSET {"add", "link", "remove", "move"}]
          /\ command'.name \in Places /\ command'.to \in Places
      BY <2>1
    <3>. QED BY <2>1, <3>1, <3>2
  <2>3. \A m \in Places : folder[m] \subseteq folder'[m]
    BY <2>1
  <2>4. ContentsKept'
    <3>. SUFFICES ASSUME NEW c \in 1..contents'
                  PROVE  c \in trash' \/ \E m \in Places : c \in folder'[m]
      BY KeptSomewhere
    <3>1. CASE c = contents + 1
      <4>1. c \in folder[n] \cup {contents + 1}
        BY <3>1
      <4>2. c \in folder'[n]
        BY <2>1, <4>1
      <4>. QED BY <4>2
    <3>2. CASE c \in 1..contents
      BY <2>1, <2>3, <3>2, KeptSomewhere
    <3>3. c = contents + 1 \/ c \in 1..contents
      BY <2>1, Counting
    <3>. QED BY <3>1, <3>2, <3>3
  <2>5. CommandInv'
    BY <1>3, <2>1, <2>3 DEF CommandInv, Creating, Resting, Directories, Exists
  <2>. QED BY <2>2, <2>4, <2>5
<1>5. ASSUME NEW n \in Places, Switch(n) PROVE ProjectsInv'
  <2>1. /\ active' = n /\ n \in registry /\ registry' = registry /\ link' = link
        /\ folder' = folder /\ trash' = trash /\ contents' = contents /\ origin' = origin
        /\ command' = [name |-> n, to |-> n, steps |-> {"link"}]
    BY <1>5 DEF Switch
  <2>2. ProjectsTypeOK'
    BY <2>1
  <2>3. ContentsKept'
    BY <2>1, KeptSomewhere
  <2>4. CommandInv'
    BY <1>3, <2>1 DEF CommandInv, Linking, Resting, Directories, Exists
  <2>. QED BY <2>2, <2>3, <2>4
<1>6. ASSUME NEW n \in Places, Delete(n) PROVE ProjectsInv'
  <2>1. /\ folder' = [folder EXCEPT ![n] = {}] /\ trash' = trash \cup folder[n]
        /\ n \in registry /\ n # Basis /\ registry' = registry /\ active' = active
        /\ link' = link /\ contents' = contents /\ origin' = origin
        /\ command' = [name |-> n, to |-> IF active = n THEN Basis ELSE active,
                       steps |-> IF active = n THEN {"link", "remove"} ELSE {"remove"}]
    BY <1>6 DEF Delete
  <2>2. ProjectsTypeOK'
    BY <1>1, <2>1
  <2>3. ContentsKept'
    <3>. SUFFICES ASSUME NEW c \in 1..contents
                  PROVE  c \in trash' \/ \E m \in Places : c \in folder'[m]
      BY <2>1, KeptSomewhere
    <3>1. c \in trash \/ \E m \in Places : c \in folder[m]
      BY KeptSomewhere
    <3>2. \A m \in Places : m # n => folder'[m] = folder[m]
      BY <2>1
    <3>. QED BY <2>1, <3>1, <3>2
  <2>4. CommandInv'
    BY <1>3, <2>1 DEF CommandInv, Removing, Resting, Directories, DirectoriesBut, Exists
  <2>. QED BY <2>2, <2>3, <2>4
<1>7. ASSUME NEW old \in Places, NEW new \in ProjectNames, Rename(old, new) PROVE ProjectsInv'
  <2>1. /\ old \in registry /\ new \notin registry /\ old # new /\ new \in Places
        /\ Exists(old) => ~Exists(new)
        /\ folder' = IF Exists(old) THEN [folder EXCEPT ![new] = folder[old], ![old] = {}] ELSE folder
        /\ registry' = registry /\ active' = active /\ link' = link
        /\ trash' = trash /\ contents' = contents /\ origin' = origin
        /\ command' = [name |-> old, to |-> new,
                       steps |-> {"move"} \cup IF active = old THEN {"link"} ELSE {}]
    BY <1>1, <1>7 DEF Rename
  <2>2. \A m \in Places : folder'[m] = IF ~Exists(old) THEN folder[m]
                                       ELSE IF m = old THEN {} ELSE IF m = new THEN folder[old] ELSE folder[m]
    BY <2>1
  <2>3. ProjectsTypeOK'
    BY <2>1
  <2>4. ContentsKept'
    <3>. SUFFICES ASSUME NEW c \in 1..contents, NEW m \in Places, c \in folder[m]
                  PROVE  \E n \in Places : c \in folder'[n]
      BY <2>1, KeptSomewhere
    <3>. QED BY <2>1, <2>2 DEF Exists
  <2>5. CommandInv'
    <3>. SUFFICES ASSUME ~origin.cut PROVE CommandInv'
      BY <2>1 DEF CommandInv
    <3>1. Directories /\ link \in {NoLink, active}
      BY <1>3 DEF Resting
    <3>2. DirectoriesBut(old)' /\ (old = origin.basis \/ folder'[new] # {})
      BY <2>1, <2>2, <3>1 DEF Directories, DirectoriesBut, Exists
    <3>3. Moving'
      BY <2>1, <3>1, <3>2 DEF Moving, DirectoriesBut, Exists
    <3>. QED BY <2>1, <3>3 DEF CommandInv
  <2>. QED BY <2>3, <2>4, <2>5
<1>. QED BY <1>4, <1>5, <1>6, <1>7

\* The steps that go on with a command, and its interruption.
LEMMA ProjectsContinue ==
  ASSUME ProjectsInv, SaveAdd \/ Link \/ SaveRemove \/ SaveMove \/ Interrupt
  PROVE  ProjectsInv'
<1>. USE DEF ProjectsInv, ProjectsTypeOK
<1>1. folder' = folder /\ trash' = trash /\ contents' = contents
  BY DEF SaveAdd, Link, SaveRemove, SaveMove, Interrupt
<1>2. ContentsKept'
  BY <1>1, KeptSomewhere
<1>3. Basis \in Places /\ Basis # ""
  BY ProjectsAssumption DEF Places, Basis
<1>4. ASSUME NEW r, registry' = r, r \subseteq Places, active' \in Places,
             link' \in Places \cup {NoLink}, origin' \in [basis : Places, cut : BOOLEAN],
             \/ command' = NoCommand
             \/ \E past \in SUBSET {"add", "link", "remove", "move"} :
                  command' = [command EXCEPT !.steps = @ \ past]
      PROVE  ProjectsTypeOK'
  <2>. DEFINE Commands == [name : Places \cup {""}, to : Places \cup {""},
                           steps : SUBSET {"add", "link", "remove", "move"}]
  <2>1. CASE command' = NoCommand
    <3>1. NoCommand \in Commands /\ NoCommand.steps = {}
      BY DEF NoCommand
    <3>. QED BY <1>1, <1>4, <2>1, <3>1
  <2>2. ASSUME NEW past, command' = [command EXCEPT !.steps = @ \ past] PROVE ProjectsTypeOK'
    <3>1. /\ command' \in Commands /\ command'.name = command.name /\ command'.to = command.to
          /\ command'.steps \subseteq command.steps
      BY <2>2
    <3>. QED BY <1>1, <1>4, <3>1
  <2>. QED BY <1>4, <2>1, <2>2
<1>5. ASSUME SaveAdd PROVE ProjectsInv'
  <2>1. /\ "add" \in command.steps /\ registry' = registry \cup {command.name}
        /\ active' = command.name /\ command' = [command EXCEPT !.steps = @ \ {"add"}]
        /\ link' = link /\ origin' = origin
    BY <1>5 DEF SaveAdd
  <2>2. ProjectsTypeOK'
    <3>1. registry \cup {command.name} \subseteq Places /\ command.name \in Places
      BY <2>1
    <3>. QED BY <1>4, <2>1, <3>1
  <2>3. CommandInv'
    <3>. SUFFICES ASSUME ~origin.cut PROVE CommandInv'
      BY <2>1 DEF CommandInv
    <3>1. Creating
      <4>1. ~Linking /\ ~Resting
        BY <2>1, OnlyCreateAdds, Zenon DEF Linking, Resting, Idle
      <4>2. ~Removing /\ ~Moving
        BY <2>1, OnlyCreateAdds, Zenon DEF Removing, Moving
      <4>. QED BY <4>1, <4>2 DEF CommandInv
    <3>2. Linking'
      BY <1>1, <2>1, <3>1 DEF Creating, Linking, Directories, Exists
    <3>. QED BY <2>1, <3>2 DEF CommandInv
  <2>. QED BY <1>2, <2>2, <2>3
<1>6. ASSUME Link PROVE ProjectsInv'
  <2>1. /\ "link" \in command.steps /\ "add" \notin command.steps /\ link' = command.to
        /\ command' = [command EXCEPT !.steps = @ \ {"link"}]
        /\ registry' = registry /\ active' = active /\ origin' = origin
    BY <1>6 DEF Link
  <2>2. ProjectsTypeOK'
    BY <1>4, <2>1
  <2>3. /\ command'.name = command.name /\ command'.to = command.to
        /\ command'.steps = command.steps \ {"link"}
    BY <2>1
  <2>4. CommandInv'
    <3>. SUFFICES ASSUME ~origin.cut PROVE CommandInv'
      BY <2>1 DEF CommandInv
    <3>1. CASE Linking
      BY <1>1, <2>1, <2>3, <3>1 DEF CommandInv, Linking, Resting, Idle, Directories, Exists
    <3>2. CASE Removing
      BY <1>1, <2>1, <2>3, <3>2 DEF CommandInv, Removing, DirectoriesBut, Exists
    <3>3. CASE Moving
      BY <1>1, <2>1, <2>3, <3>3 DEF CommandInv, Moving, DirectoriesBut, Exists
    <3>. QED BY <2>1, <3>1, <3>2, <3>3 DEF CommandInv, Creating, Resting, Idle
  <2>. QED BY <1>2, <2>2, <2>4
<1>7. ASSUME SaveRemove PROVE ProjectsInv'
  <2>1. /\ command.steps = {"remove"} /\ registry' = registry \ {command.name}
        /\ active' = command.to /\ command' = NoCommand
        /\ link' = link /\ origin' = origin
    BY <1>7 DEF SaveRemove
  <2>2. ProjectsTypeOK'
    <3>1. registry \ {command.name} \subseteq Places /\ command.to \in Places
      BY <2>1
    <3>. QED BY <1>4, <2>1, <3>1
  <2>3. CommandInv'
    BY <1>1, <2>1 DEF CommandInv, Creating, Linking, Removing, Moving, Resting, Idle, NoCommand,
                      Directories, DirectoriesBut, Exists
  <2>. QED BY <1>2, <2>2, <2>3
<1>8. ASSUME SaveMove PROVE ProjectsInv'
  <2>1. /\ command.steps = {"move"}
        /\ registry' = (registry \ {command.name}) \cup {command.to}
        /\ active' = IF active = command.name THEN command.to ELSE active
        /\ origin'.basis = IF origin.basis = command.name THEN command.to ELSE origin.basis
        /\ origin'.cut = origin.cut /\ origin' \in [basis : Places, cut : BOOLEAN]
        /\ command' = NoCommand /\ link' = link
    BY <1>8 DEF SaveMove
  <2>2. ProjectsTypeOK'
    <3>1. (registry \ {command.name}) \cup {command.to} \subseteq Places
      BY <2>1
    <3>2. active' \in Places /\ link' \in Places \cup {NoLink}
      BY <2>1
    <3>. QED BY <1>4, <2>1, <3>1, <3>2
  <2>3. CommandInv'
    <3>. SUFFICES ASSUME ~origin.cut PROVE CommandInv'
      BY <2>1 DEF CommandInv
    <3>1. Moving
      BY <2>1 DEF CommandInv, Creating, Linking, Removing, Resting, Idle
    <3>2. Resting'
      BY <1>1, <2>1, <3>1 DEF Moving, Resting, Idle, NoCommand, Directories, DirectoriesBut, Exists
    <3>. QED BY <2>1, <3>1, <3>2 DEF CommandInv, Moving
  <2>. QED BY <1>2, <2>2, <2>3
<1>9. ASSUME Interrupt PROVE ProjectsInv'
  <2>1. /\ registry' = registry /\ active' = active /\ link' = link
        /\ command' = NoCommand /\ origin' = [origin EXCEPT !.cut = TRUE]
    BY <1>9 DEF Interrupt
  <2>2. origin' \in [basis : Places, cut : BOOLEAN] /\ origin'.cut
    BY <2>1
  <2>3. ProjectsTypeOK'
    BY <1>4, <2>1, <2>2
  <2>. QED BY <1>2, <2>2, <2>3 DEF CommandInv
<1>. QED BY <1>5, <1>6, <1>7, <1>8, <1>9

\* After any sequence of the project commands the registry, the link and the
\* directories agree as long as no command was interrupted, and no content of
\* a project is lost, even if one was.
THEOREM ProjectsAgreeAlways == ProjectsSpec => []ProjectsSound
<1>1. ProjectsInit => ProjectsInv
  BY ProjectsStart
<1>2. ProjectsInv /\ [ProjectsNext]_projectVars => ProjectsInv'
  <2>1. ProjectsInv /\ UNCHANGED projectVars => ProjectsInv'
    <3>. SUFFICES ASSUME ProjectsInv, UNCHANGED projectVars PROVE ProjectsInv'
      OBVIOUS
    <3>. USE DEF projectVars
    <3>1. ProjectsTypeOK' /\ ContentsKept'
      <4>1. ProjectsTypeOK'
        BY DEF ProjectsInv, ProjectsTypeOK
      <4>2. ContentsKept'
        BY KeptSomewhere DEF ProjectsInv
      <4>. QED BY <4>1, <4>2
    <3>2. /\ Directories' = Directories /\ Idle' = Idle
          /\ DirectoriesBut(command.name)' = DirectoriesBut(command.name)
          /\ Exists(command.name)' = Exists(command.name)
          /\ Exists(command.to)' = Exists(command.to)
      BY DEF Directories, Idle, DirectoriesBut, Exists
    <3>3. CommandInv'
      BY <3>2, Zenon DEF ProjectsInv, CommandInv, Creating, Linking, Removing, Moving, Resting
    <3>. QED BY <3>1, <3>3 DEF ProjectsInv
  <2>. QED BY <2>1, ProjectsBegin, ProjectsContinue DEF ProjectsNext
<1>3. ProjectsInv => ProjectsSound
  BY DEF ProjectsInv, ProjectsSound, ProjectsAgree, CommandInv, Creating, Linking, Removing,
         Moving, Resting, Idle, Directories, ProjectsTypeOK
<1>. QED BY <1>1, <1>2, <1>3, PTL DEF ProjectsSpec

-----------------------------------------------------------------------------
(* The editor.                                                              *)

Changes == [file : Paths, slot : Slots, before : 0..versions, after : 0..versions]

Fine(v, bad) == v # 0 /\ v \notin bad

\* Every text that is anywhere is a version that was written.
EditorVersions ==
  /\ EditorTypeOK /\ versions \in Nat
  /\ broken \subseteq 1..versions
  /\ content \in [Paths -> 0..versions] /\ saved \in [Slots -> -1..versions]
  /\ head \in [Paths -> 0..versions]
  /\ \A e \in Editors : patch[e].before \in 0..versions /\ patch[e].wrote \in 0..versions
  /\ done \subseteq Changes

\* A copy is of the text that a change replaced, unless another one has its
\* name or another call met the change.
IsCopyOf(dir, f, text) ==
  /\ dir \in Slots /\ dir[2] = BaseName[f] /\ saved[dir] # -1
  /\ dir \notin shared /\ f \notin clash => saved[dir] = text

\* What a call has done so far.
CallIsSound(e) ==
  /\ At(e, "idle") => patch[e].file = None
  /\ ~At(e, "idle") => patch[e].file \in Paths
  /\ At(e, "backed") => IsCopyOf(patch[e].slot, patch[e].file, content[patch[e].file])
  /\ patch[e].pc \notin {"idle", "checked", "backed"} =>
       IsCopyOf(patch[e].slot, patch[e].file, patch[e].before)

\* A file in which no two calls met has one call at most.
OneCall ==
  \A d, e \in Editors : patch[d].file = patch[e].file /\ patch[e].file \in Paths \ clash => d = e

EditorInv ==
  /\ EditorVersions /\ OneCall /\ BrokenIsContained
  /\ \A e \in Editors : CallIsSound(e)
  /\ \A c \in done : IsCopyOf(c.slot, c.file, c.before)

\* A back-up of a file has a slot.
LEMMA SlotOfFile ==
  ASSUME NEW f \in Paths, second \in 0..MaxSecond PROVE Slot(f) \in Slots /\ Slot(f)[2] = BaseName[f]
BY DEF Slot, Slots

\* The fields of a call.
LEMMA CallFields ==
  ASSUME EditorVersions, NEW e \in Editors
  PROVE  /\ patch[e].pc \in {"idle", "checked", "backed", "read", "changed", "valid", "restoring"}
         /\ patch[e].file \in Paths \cup {None} /\ patch[e].slot \in Slots \cup {None}
         /\ patch[e].before \in 0..versions /\ patch[e].wrote \in 0..versions
BY DEF EditorVersions, EditorTypeOK, EditorCalls

\* The move of a call.
LEMMA CallMoves ==
  ASSUME EditorVersions, versions' \in 0..MaxVersion, versions <= versions', NEW e \in Editors,
         NEW pc \in {"idle", "checked", "backed", "read", "changed", "valid", "restoring"},
         NEW f \in Paths \cup {None}, NEW dir \in Slots \cup {None},
         NEW before \in 0..versions', NEW wrote \in 0..versions',
         Move(e, Call(pc, f, dir, before, wrote))
  PROVE  /\ patch' \in [Editors -> EditorCalls]
         /\ \A d \in Editors : patch'[d].before \in 0..versions' /\ patch'[d].wrote \in 0..versions'
         /\ \A d \in Editors : d # e => patch'[d] = patch[d]
         /\ patch'[e].pc = pc /\ patch'[e].file = f /\ patch'[e].slot = dir
         /\ patch'[e].before = before /\ patch'[e].wrote = wrote
<1>1. PICK new : new = [pc |-> pc, file |-> f, slot |-> dir, before |-> before, wrote |-> wrote]
  OBVIOUS
<1>2. patch' = [patch EXCEPT ![e] = new] /\ patch \in [Editors -> EditorCalls]
  BY <1>1 DEF Move, Call, EditorVersions, EditorTypeOK
<1>3. versions \in Nat /\ MaxVersion \in Nat
  BY EditorAssumption DEF EditorVersions
<1>4. new \in EditorCalls
  BY <1>1, <1>3 DEF EditorCalls
<1>5. \A d \in Editors : patch'[d] = IF d = e THEN new ELSE patch[d]
  BY <1>2
<1>6. \A d \in Editors : patch[d].before \in 0..versions' /\ patch[d].wrote \in 0..versions'
  BY <1>3 DEF EditorVersions
<1>. QED BY <1>1, <1>2, <1>4, <1>5, <1>6

\* A call that moves stays with its file or leaves it.
LEMMA OneCallStays ==
  ASSUME OneCall, clash \subseteq clash', NEW e \in Editors,
         \A d \in Editors : d # e => patch'[d] = patch[d],
         patch'[e].file \in {patch[e].file, None}
  PROVE  OneCall'
BY EditorAssumption DEF OneCall

\* What a step that concerns one file has to keep for the invariant.
LEMMA StepOnFile ==
  ASSUME EditorInv, EditorVersions', OneCall', NEW f \in Paths,
         versions <= versions', broken' \cap (0..versions) \subseteq broken,
         clash \subseteq clash', shared \subseteq shared', done \subseteq done',
         \A g \in Paths : g # f => content'[g] = content[g] /\ head'[g] = head[g],
         \A d \in Editors : patch[d].file \in Paths \ {f} => patch'[d] = patch[d],
         \A d \in Editors : patch'[d] = patch[d] \/ CallIsSound(d)',
         content'[f] # content[f] =>
           \A d \in Editors : patch'[d] = patch[d] /\ patch[d].file = f => f \in clash',
         ~Met(BaseName[f])' =>
           /\ Fine(head'[f], broken')
           /\ Fine(content'[f], broken') \/ (content'[f] # 0 /\ \E e \in Editors : Mends(e, f)'),
         \A s \in Slots : saved'[s] # saved[s] =>
           /\ saved'[s] # -1 /\ (saved[s] = -1 \/ s \in shared')
           /\ ~Met(s[2])' => Fine(saved'[s], broken'),
         \A c \in done' \ done : IsCopyOf(c.slot, c.file, c.before)'
  PROVE  EditorInv'
<1>1. versions \in Nat /\ \A v \in -1..versions : Fine(v, broken) => Fine(v, broken')
  BY DEF EditorInv, EditorVersions, Whole, Fine
<1>2. \A name : Met(name) => Met(name)'
  BY DEF Met
<1>3. \A dir, g, text : IsCopyOf(dir, g, text) => IsCopyOf(dir, g, text)'
  BY DEF IsCopyOf
<1>4. \A d \in Editors : CallIsSound(d)'
  <2>. SUFFICES ASSUME NEW d \in Editors, patch'[d] = patch[d] PROVE CallIsSound(d)'
    OBVIOUS
  <2>1. CallIsSound(d)
    BY DEF EditorInv
  <2>2. ASSUME NEW g \in Paths, NEW dir, At(d, "backed"), g = patch[d].file, dir = patch[d].slot
        PROVE  /\ dir \in Slots /\ dir[2] = BaseName[g] /\ saved'[dir] # -1
               /\ dir \notin shared' /\ g \notin clash' => saved'[dir] = content'[g]
    <3>1. IsCopyOf(dir, g, content[g])
      BY <2>1, <2>2 DEF CallIsSound
    <3>2. content'[g] = content[g] \/ g \in clash'
      BY <2>2
    <3>. QED BY <1>3, <3>1, <3>2 DEF IsCopyOf
  <2>3. At(d, "backed") => patch[d].file \in Paths
    BY <2>1 DEF CallIsSound, At
  <2>4. patch[d].pc \notin {"idle", "checked", "backed"} =>
          IsCopyOf(patch[d].slot, patch[d].file, patch[d].before)
    BY <2>1 DEF CallIsSound
  <2>5. PICK call : call = patch[d] /\ call = patch'[d]
    OBVIOUS
  <2>6. call.pc = "backed" => /\ call.slot \in Slots /\ call.slot[2] = BaseName[call.file] /\ saved'[call.slot] # -1
                              /\ call.slot \notin shared' /\ call.file \notin clash' =>
                                   saved'[call.slot] = content'[call.file]
    BY <2>2, <2>3, <2>5 DEF At
  <2>7. call.pc \notin {"idle", "checked", "backed"} => IsCopyOf(call.slot, call.file, call.before)'
    BY <1>3, <2>4, <2>5
  <2>. QED BY <2>1, <2>5, <2>6, <2>7 DEF CallIsSound, At, IsCopyOf
<1>5. BrokenIsContained'
  <2>1. ASSUME NEW g \in Paths, ~Met(BaseName[g])'
        PROVE  Fine(head'[g], broken') /\ (Fine(content'[g], broken') \/ (content'[g] # 0 /\ \E e \in Editors : Mends(e, g)'))
    <3>1. CASE g = f
      BY <2>1, <3>1
    <3>2. CASE g # f
      <4>1. head'[g] = head[g] /\ content'[g] = content[g]
            /\ head[g] \in -1..versions /\ content[g] \in -1..versions
        BY <1>1, <3>2 DEF EditorInv, EditorVersions
      <4>2. Fine(head[g], broken) /\ (Fine(content[g], broken) \/ (content[g] # 0 /\ \E e \in Editors : Mends(e, g)))
        BY <1>2, <2>1 DEF EditorInv, BrokenIsContained, Whole, Fine
      <4>3. \A e \in Editors : Mends(e, g) => Mends(e, g)'
        BY <3>2 DEF Mends
      <4>. QED BY <1>1, <4>1, <4>2, <4>3
    <3>. QED BY <3>1, <3>2
  <2>2. ASSUME NEW s \in Slots, ~Met(s[2])' PROVE Fine(saved'[s], broken')
    BY <1>1, <1>2, <2>2 DEF EditorInv, EditorVersions, BrokenIsContained, Whole, Fine
  <2>. QED BY <2>1, <2>2 DEF BrokenIsContained, Whole, Fine
<1>6. \A c \in done' : IsCopyOf(c.slot, c.file, c.before)'
  BY <1>3 DEF EditorInv
<1>. QED BY <1>4, <1>5, <1>6 DEF EditorInv

\* A file that no one mends and no one met on is whole.
LEMMA WholeFile ==
  ASSUME EditorInv, NEW f \in Paths, ~Met(BaseName[f])
  PROVE  /\ Fine(head[f], broken) /\ content[f] # 0
         /\ Fine(content[f], broken) \/ \E e \in Editors : Mends(e, f)
         /\ \A e \in Editors : patch[e].file = f /\ ~Mends(e, f) => Fine(content[f], broken)
<1>1. f \notin clash
  BY DEF Met
<1>. QED BY <1>1 DEF EditorInv, BrokenIsContained, OneCall, Mends, Whole, Fine

\* What a copy changes.
LEMMA Copies ==
  ASSUME EditorInv, NEW f \in Paths, NEW text \in 0..versions, Copy(f, text)
  PROVE  /\ saved' \in [Slots -> -1..versions] /\ shared' \in SUBSET Slots /\ shared \subseteq shared'
         /\ saved'[Slot(f)] = text /\ Slot(f) \in Slots /\ Slot(f)[2] = BaseName[f] /\ text # -1
         /\ \A s \in Slots : s # Slot(f) => saved'[s] = saved[s]
         /\ saved[Slot(f)] = -1 \/ Slot(f) \in shared'
<1>1. Slot(f) \in Slots /\ Slot(f)[2] = BaseName[f]
  BY SlotOfFile DEF EditorInv, EditorVersions, EditorTypeOK
<1>2. saved \in [Slots -> -1..versions] /\ text \in -1..versions /\ text # -1 /\ shared \in SUBSET Slots
  BY DEF EditorInv, EditorVersions, EditorTypeOK
<1>. QED BY <1>1, <1>2 DEF Copy

\* The initial state.
LEMMA EditorStart == ASSUME EditorInit PROVE EditorInv
<1>1. versions = 1 /\ 0 \in 0..MaxVersion /\ 1 \in 0..MaxVersion /\ 0 \in 0..MaxSecond
  BY EditorAssumption DEF EditorInit
<1>2. NoPatch = [pc |-> "idle", file |-> None, slot |-> None, before |-> 0, wrote |-> 0]
  BY DEF NoPatch, Call
<1>3. NoPatch \in EditorCalls
  BY <1>1, <1>2 DEF EditorCalls
<1>4. patch \in [Editors -> EditorCalls] /\ \A e \in Editors : patch[e] = NoPatch
  BY <1>3 DEF EditorInit
<1>5. saved \in [Slots -> {-1}] /\ content \in [Paths -> {1}] /\ head \in [Paths -> {1}]
  BY DEF EditorInit
<1>6. EditorVersions
  <2>1. -1 \in -1..MaxVersion /\ -1 \in -1..versions /\ 0 \in 0..versions /\ 1 \in 0..versions
    BY <1>1, EditorAssumption
  <2>2. EditorTypeOK
    BY <1>1, <1>4, <1>5, <2>1 DEF EditorTypeOK, EditorInit
  <2>. QED BY <1>1, <1>2, <1>4, <1>5, <2>1, <2>2 DEF EditorVersions, EditorInit
<1>7. BrokenIsContained
  BY <1>5 DEF BrokenIsContained, EditorInit, Whole, Fine
<1>8. OneCall /\ (\A e \in Editors : CallIsSound(e)) /\ done = {}
  BY <1>2, <1>4, EditorAssumption DEF OneCall, CallIsSound, At, EditorInit
<1>. QED BY <1>6, <1>7, <1>8 DEF EditorInv

\* Step 1 of a patch.
LEMMA EditorBegin ==
  ASSUME EditorInv, NEW e \in Editors, NEW f \in Paths, Begin(e, f) PROVE EditorInv'
<1>1. EditorVersions /\ versions \in Nat /\ versions \in 0..MaxVersion /\ calls \in Nat /\ patch[e].file = None
  BY DEF EditorInv, EditorVersions, EditorTypeOK, Begin, CallIsSound, At
<1>2. /\ Touch(f) /\ Move(e, Call("checked", f, None, 0, 0)) /\ calls' = calls + 1
      /\ UNCHANGED <<content, versions, broken, saved, shared, head, second, done>>
  BY DEF Begin
<1>3. /\ clash \subseteq clash' /\ clash' \in SUBSET Paths
      /\ \A d \in Editors : patch[d].file = f => f \in clash'
  BY <1>1, <1>2 DEF Touch, EditorVersions, EditorTypeOK
<1>4. /\ patch' \in [Editors -> EditorCalls]
      /\ \A d \in Editors : patch'[d].before \in 0..versions' /\ patch'[d].wrote \in 0..versions'
      /\ \A d \in Editors : d # e => patch'[d] = patch[d]
      /\ patch'[e].pc = "checked" /\ patch'[e].file = f
  BY <1>1, <1>2, CallMoves
<1>5. EditorVersions'
  BY <1>1, <1>2, <1>3, <1>4 DEF EditorVersions, EditorTypeOK, Changes
<1>6. OneCall'
  BY <1>3, <1>4 DEF EditorInv, OneCall
<1>7. CallIsSound(e)'
  BY <1>4 DEF CallIsSound, At
<1>8. ~Met(BaseName[f])' => /\ Fine(head'[f], broken')
                            /\ Fine(content'[f], broken') \/ (content'[f] # 0 /\ \E d \in Editors : Mends(d, f)')
  <2>. SUFFICES ASSUME ~Met(BaseName[f])' PROVE Fine(head'[f], broken') /\ Fine(content'[f], broken')
    OBVIOUS
  <2>1. ~Met(BaseName[f]) /\ f \notin clash'
    BY <1>3 DEF Met
  <2>2. \A d \in Editors : patch[d].file # f
    BY <1>3, <2>1
  <2>. QED BY <1>2, <2>1, <2>2, WholeFile DEF Whole, Fine, Mends
<1>9. \A d \in Editors : patch[d].file \in Paths \ {f} => patch'[d] = patch[d]
  BY <1>1, <1>4, EditorAssumption
<1>. QED BY <1>1, <1>2, <1>3, <1>4, <1>5, <1>6, <1>7, <1>8, <1>9, StepOnFile

\* Step 2: the copy is of the text as it is now.
LEMMA EditorBackUp == ASSUME EditorInv, NEW e \in Editors, BackUp(e) PROVE EditorInv'
<1>1. EditorVersions /\ versions \in Nat /\ versions \in 0..MaxVersion /\ At(e, "checked")
  BY DEF EditorInv, EditorVersions, EditorTypeOK, BackUp
<1>2. PICK f \in Paths : f = patch[e].file
  BY <1>1 DEF EditorInv, CallIsSound, At
<1>3. /\ Copy(f, content[f]) /\ Move(e, Call("backed", f, Slot(f), 0, 0))
      /\ UNCHANGED <<calls, content, versions, broken, head, second, done, clash>>
  BY <1>2 DEF BackUp
<1>4. content[f] \in 0..versions /\ content[f] # -1
  BY <1>1 DEF EditorVersions
<1>5. /\ saved' \in [Slots -> -1..versions] /\ shared' \in SUBSET Slots /\ shared \subseteq shared'
      /\ saved'[Slot(f)] = content[f] /\ Slot(f) \in Slots /\ Slot(f)[2] = BaseName[f]
      /\ \A s \in Slots : s # Slot(f) => saved'[s] = saved[s]
      /\ saved[Slot(f)] = -1 \/ Slot(f) \in shared'
  BY <1>3, <1>4, Copies
<1>6. /\ patch' \in [Editors -> EditorCalls]
      /\ \A d \in Editors : patch'[d].before \in 0..versions' /\ patch'[d].wrote \in 0..versions'
      /\ \A d \in Editors : d # e => patch'[d] = patch[d]
      /\ patch'[e].pc = "backed" /\ patch'[e].file = f /\ patch'[e].slot = Slot(f)
  BY <1>1, <1>3, <1>5, CallMoves
<1>7. saved' \in [Slots -> -1..MaxVersion]
  <2>1. \A v \in -1..versions : v \in -1..MaxVersion
    BY <1>1, EditorAssumption
  <2>. QED BY <1>5, <2>1
<1>8. EditorVersions'
  BY <1>1, <1>3, <1>5, <1>6, <1>7 DEF EditorVersions, EditorTypeOK, Changes
<1>9. OneCall'
  BY <1>2, <1>3, <1>6, OneCallStays DEF EditorInv
<1>10. CallIsSound(e)'
  BY <1>3, <1>4, <1>5, <1>6 DEF CallIsSound, At, IsCopyOf
<1>11. ~Met(BaseName[f]) => Fine(head[f], broken) /\ Fine(content[f], broken)
  BY <1>1, <1>2, WholeFile DEF Mends, At
<1>12. \A s \in Slots : saved'[s] # saved[s] =>
         /\ saved'[s] # -1 /\ (saved[s] = -1 \/ s \in shared')
         /\ ~Met(s[2])' => Fine(saved'[s], broken')
  BY <1>3, <1>4, <1>5, <1>11 DEF Met, Whole, Fine
<1>13. ~Met(BaseName[f])' => Fine(head'[f], broken') /\ Fine(content'[f], broken')
  BY <1>3, <1>11 DEF Met, Whole, Fine
<1>. QED BY <1>1, <1>2, <1>3, <1>5, <1>6, <1>8, <1>9, <1>10, <1>12, <1>13, StepOnFile

\* Commits a text that is whole, if nobody met on its file.
LEMMA Commits ==
  ASSUME EditorInv, NEW e \in Editors, NEW f \in Paths, f = patch[e].file, ~Mends(e, f), Commit(f)
  PROVE  /\ head' \in [Paths -> 0..versions] /\ \A g \in Paths : g # f => head'[g] = head[g]
         /\ ~Met(BaseName[f]) => Fine(head'[f], broken) /\ Fine(content[f], broken)
<1>1. head \in [Paths -> 0..versions] /\ content \in [Paths -> 0..versions]
  BY DEF EditorInv, EditorVersions
<1>2. ~Met(BaseName[f]) => Fine(head[f], broken) /\ Fine(content[f], broken)
  BY WholeFile
<1>. QED BY <1>1, <1>2 DEF Commit

\* Step 2b and the first part of step 3.
LEMMA EditorRead == ASSUME EditorInv, NEW e \in Editors, Read(e) PROVE EditorInv'
<1>1. EditorVersions /\ versions \in Nat /\ versions \in 0..MaxVersion /\ At(e, "backed") /\ CallIsSound(e)
  BY DEF EditorInv, EditorVersions, EditorTypeOK, Read
<1>2. PICK f \in Paths : f = patch[e].file
  BY <1>1 DEF CallIsSound, At
<1>3. PICK dir \in Slots : dir = patch[e].slot
  BY <1>1 DEF CallIsSound, IsCopyOf
<1>4. /\ Commit(f) /\ Move(e, Call("read", f, dir, content[f], 0))
      /\ UNCHANGED <<calls, content, versions, broken, saved, shared, second, done, clash>>
  BY <1>2, <1>3 DEF Read
<1>5. content[f] \in 0..versions
  BY <1>1 DEF EditorVersions
<1>6. /\ patch' \in [Editors -> EditorCalls]
      /\ \A d \in Editors : patch'[d].before \in 0..versions' /\ patch'[d].wrote \in 0..versions'
      /\ \A d \in Editors : d # e => patch'[d] = patch[d]
      /\ patch'[e].pc = "read" /\ patch'[e].file = f /\ patch'[e].slot = dir
      /\ patch'[e].before = content[f]
  BY <1>1, <1>4, <1>5, CallMoves
<1>7. /\ head' \in [Paths -> 0..versions] /\ \A g \in Paths : g # f => head'[g] = head[g]
      /\ ~Met(BaseName[f]) => Fine(head'[f], broken) /\ Fine(content[f], broken)
  BY <1>1, <1>2, <1>4, Commits DEF Mends, At
<1>8. head' \in [Paths -> 0..MaxVersion]
  BY <1>1, <1>7, EditorAssumption
<1>9. EditorVersions'
  BY <1>1, <1>4, <1>6, <1>7, <1>8 DEF EditorVersions, EditorTypeOK, Changes
<1>10. OneCall'
  BY <1>2, <1>4, <1>6, OneCallStays DEF EditorInv
<1>11. CallIsSound(e)'
  BY <1>1, <1>2, <1>3, <1>4, <1>6 DEF CallIsSound, At, IsCopyOf
<1>12. ~Met(BaseName[f])' => Fine(head'[f], broken') /\ Fine(content'[f], broken')
  BY <1>4, <1>7 DEF Met, Whole, Fine
<1>. QED BY <1>1, <1>2, <1>4, <1>6, <1>7, <1>9, <1>10, <1>11, <1>12, StepOnFile

\* A call that ends.
LEMMA CallEnds ==
  ASSUME EditorVersions, versions' = versions, NEW e \in Editors, End(e)
  PROVE  /\ patch' \in [Editors -> EditorCalls]
         /\ \A d \in Editors : patch'[d].before \in 0..versions' /\ patch'[d].wrote \in 0..versions'
         /\ \A d \in Editors : d # e => patch'[d] = patch[d]
         /\ patch'[e].pc = "idle" /\ patch'[e].file = None /\ CallIsSound(e)'
<1>1. versions \in Nat /\ versions \in 0..MaxVersion
  BY DEF EditorVersions, EditorTypeOK
<1>2. Move(e, Call("idle", None, None, 0, 0))
  BY DEF End, NoPatch
<1>3. /\ patch' \in [Editors -> EditorCalls]
      /\ \A d \in Editors : patch'[d].before \in 0..versions' /\ patch'[d].wrote \in 0..versions'
      /\ \A d \in Editors : d # e => patch'[d] = patch[d]
      /\ patch'[e].pc = "idle" /\ patch'[e].file = None
  BY <1>1, <1>2, CallMoves
<1>. QED BY <1>3 DEF CallIsSound, At

\* A call that goes on with what it has.
LEMMA CallGoesOn ==
  ASSUME EditorVersions, versions' = versions, saved' = saved, shared' = shared, clash' = clash,
         NEW e \in Editors, CallIsSound(e), patch[e].pc \notin {"idle", "checked", "backed"},
         NEW pc \in {"valid", "restoring"}, Goto(e, pc)
  PROVE  /\ patch' \in [Editors -> EditorCalls]
         /\ \A d \in Editors : patch'[d].before \in 0..versions' /\ patch'[d].wrote \in 0..versions'
         /\ \A d \in Editors : d # e => patch'[d] = patch[d]
         /\ patch'[e].pc = pc /\ patch'[e].file = patch[e].file /\ CallIsSound(e)'
<1>1. versions \in Nat /\ versions \in 0..MaxVersion
  BY DEF EditorVersions, EditorTypeOK
<1>2. /\ patch' \in [Editors -> EditorCalls]
      /\ \A d \in Editors : patch'[d].before \in 0..versions' /\ patch'[d].wrote \in 0..versions'
      /\ \A d \in Editors : d # e => patch'[d] = patch[d]
      /\ patch'[e].pc = pc /\ patch'[e].file = patch[e].file /\ patch'[e].slot = patch[e].slot
      /\ patch'[e].before = patch[e].before
  <2>1. PICK call : call = patch[e]
    OBVIOUS
  <2>2. /\ Move(e, Call(pc, call.file, call.slot, call.before, call.wrote))
        /\ call.file \in Paths \cup {None} /\ call.slot \in Slots \cup {None}
        /\ call.before \in 0..versions' /\ call.wrote \in 0..versions'
        /\ pc \in {"idle", "checked", "backed", "read", "changed", "valid", "restoring"}
    BY <2>1, CallFields DEF Goto
  <2>. QED BY <1>1, <2>1, <2>2, CallMoves
<1>. QED BY <1>2 DEF CallIsSound, At, IsCopyOf

\* Step 3: a new version, or none.
LEMMA EditorChange == ASSUME EditorInv, NEW e \in Editors, Change(e) PROVE EditorInv'
<1>1. EditorVersions /\ versions \in Nat /\ versions \in 0..MaxVersion /\ At(e, "read") /\ CallIsSound(e)
  BY DEF EditorInv, EditorVersions, EditorTypeOK, Change
<1>2. PICK f \in Paths : f = patch[e].file
  BY <1>1 DEF CallIsSound, At
<1>3. PICK dir \in Slots, before \in 0..versions :
        dir = patch[e].slot /\ before = patch[e].before /\ IsCopyOf(dir, f, before)
  BY <1>1, <1>2, CallFields DEF CallIsSound, At, IsCopyOf
<1>4. UNCHANGED <<calls, saved, shared, head, second, done, clash>>
  BY DEF Change
<1>5. ~Met(BaseName[f]) => Fine(head[f], broken) /\ Fine(content[f], broken)
  BY <1>1, <1>2, WholeFile DEF Mends, At
<1>6. CASE End(e) /\ UNCHANGED <<content, versions, broken>>
  <2>1. /\ patch' \in [Editors -> EditorCalls]
        /\ \A d \in Editors : patch'[d].before \in 0..versions' /\ patch'[d].wrote \in 0..versions'
        /\ \A d \in Editors : d # e => patch'[d] = patch[d]
        /\ patch'[e].file = None /\ CallIsSound(e)'
    BY <1>1, <1>6, CallEnds
  <2>2. EditorVersions' /\ OneCall'
    BY <1>1, <1>2, <1>4, <1>6, <2>1, OneCallStays DEF EditorInv, EditorVersions, EditorTypeOK, Changes
  <2>3. ~Met(BaseName[f])' => Fine(head'[f], broken') /\ Fine(content'[f], broken')
    BY <1>4, <1>5, <1>6 DEF Met, Whole, Fine
  <2>. QED BY <1>1, <1>2, <1>4, <1>6, <2>1, <2>2, <2>3, StepOnFile
<1>7. CASE /\ versions < MaxVersion
           /\ content' = [content EXCEPT ![f] = versions + 1]
           /\ versions' = versions + 1
           /\ broken' \in {broken, broken \cup {versions + 1}}
           /\ Move(e, Call("changed", f, dir, before, versions + 1))
  <2>0. MaxVersion \in Nat
    BY EditorAssumption
  <2>1. /\ versions' \in Nat /\ versions' \in 0..MaxVersion /\ versions <= versions'
        /\ versions + 1 \in 0..versions' /\ versions + 1 # 0 /\ 0..versions \subseteq 0..versions'
        /\ -1..versions \subseteq -1..versions' /\ before \in 0..versions'
        /\ broken' \subseteq 1..versions' /\ broken' \in SUBSET (1..MaxVersion)
        /\ broken' \cap (0..versions) \subseteq broken
    BY <1>1, <1>7, <2>0 DEF EditorVersions, EditorTypeOK
  <2>2. /\ patch' \in [Editors -> EditorCalls]
        /\ \A d \in Editors : patch'[d].before \in 0..versions' /\ patch'[d].wrote \in 0..versions'
        /\ \A d \in Editors : d # e => patch'[d] = patch[d]
        /\ patch'[e].pc = "changed" /\ patch'[e].file = f /\ patch'[e].slot = dir
        /\ patch'[e].before = before
    BY <1>1, <1>7, <2>1, CallMoves
  <2>3. /\ content' \in [Paths -> 0..versions'] /\ content' \in [Paths -> 0..MaxVersion]
        /\ content'[f] = versions + 1 /\ \A g \in Paths : g # f => content'[g] = content[g]
    <3>1. content \in [Paths -> 0..versions'] /\ content \in [Paths -> 0..MaxVersion]
      BY <1>1, <2>1 DEF EditorVersions, EditorTypeOK
    <3>2. versions + 1 \in 0..MaxVersion
      BY <1>7, <2>1
    <3>. QED BY <1>7, <2>1, <3>1, <3>2
  <2>4. head \in [Paths -> 0..versions'] /\ saved \in [Slots -> -1..versions']
        /\ done \subseteq [file : Paths, slot : Slots, before : 0..versions', after : 0..versions']
    BY <1>1, <2>1 DEF EditorVersions, Changes
  <2>5. EditorVersions'
    BY <1>1, <1>4, <2>1, <2>2, <2>3, <2>4 DEF EditorVersions, EditorTypeOK, Changes
  <2>6. OneCall'
    BY <1>2, <1>4, <2>2, OneCallStays DEF EditorInv
  <2>7. CallIsSound(e)'
    BY <1>3, <1>4, <2>2 DEF CallIsSound, At, IsCopyOf
  <2>8. ~Met(BaseName[f])' => /\ Fine(head'[f], broken')
                              /\ content'[f] # 0 /\ \E d \in Editors : Mends(d, f)'
    <3>1. Mends(e, f)'
      BY <2>2 DEF Mends
    <3>2. ~Met(BaseName[f])' => Fine(head'[f], broken')
      BY <1>1, <1>4, <1>5, <2>1 DEF Met, Whole, Fine, EditorVersions
    <3>. QED BY <2>1, <2>3, <3>1, <3>2
  <2>9. \A d \in Editors : patch'[d] = patch[d] /\ patch[d].file = f => f \in clash'
    <3>1. patch'[e] # patch[e]
      BY <1>1, <2>2 DEF At
    <3>. QED BY <1>2, <1>4, <3>1 DEF EditorInv, OneCall
  <2>. QED BY <1>1, <1>2, <1>4, <2>1, <2>2, <2>3, <2>5, <2>6, <2>7, <2>8, <2>9, StepOnFile
<1>. QED BY <1>2, <1>3, <1>6, <1>7 DEF Change

\* Step 4: a text that is no YAML is checked out.
LEMMA EditorJudge == ASSUME EditorInv, NEW e \in Editors, Judge(e) PROVE EditorInv'
<1>1. EditorVersions /\ versions \in Nat /\ versions \in 0..MaxVersion /\ At(e, "changed") /\ CallIsSound(e)
  BY DEF EditorInv, EditorVersions, EditorTypeOK, Judge
<1>2. PICK f \in Paths : f = patch[e].file
  BY <1>1 DEF CallIsSound, At
<1>3. UNCHANGED <<calls, versions, broken, saved, shared, head, second, done, clash>>
  BY DEF Judge
<1>4. PICK pc \in {"valid", "restoring"} :
        /\ Goto(e, pc)
        /\ pc = "valid" => content[f] \notin broken /\ content' = content
        /\ pc = "restoring" => content' = content \/ content' = [content EXCEPT ![f] = head[f]]
  BY <1>2 DEF Judge, Valid
<1>5. /\ patch' \in [Editors -> EditorCalls]
      /\ \A d \in Editors : patch'[d].before \in 0..versions' /\ patch'[d].wrote \in 0..versions'
      /\ \A d \in Editors : d # e => patch'[d] = patch[d]
      /\ patch'[e].pc = pc /\ patch'[e].file = f /\ CallIsSound(e)'
  BY <1>1, <1>2, <1>3, <1>4, CallGoesOn DEF At
<1>6. /\ content' \in [Paths -> 0..versions] /\ content' \in [Paths -> 0..MaxVersion]
      /\ \A g \in Paths : g # f => content'[g] = content[g]
      /\ content'[f] = content[f] \/ content'[f] = head[f]
  BY <1>1, <1>4 DEF EditorVersions, EditorTypeOK
<1>7. EditorVersions' /\ OneCall'
  BY <1>1, <1>2, <1>3, <1>5, <1>6, OneCallStays DEF EditorInv, EditorVersions, EditorTypeOK, Changes
<1>8. ~Met(BaseName[f])' => /\ Fine(head'[f], broken')
                            /\ Fine(content'[f], broken') \/ (content'[f] # 0 /\ \E d \in Editors : Mends(d, f)')
  <2>. SUFFICES ASSUME ~Met(BaseName[f])
                PROVE  /\ Fine(head[f], broken)
                       /\ Fine(content'[f], broken) \/ (content'[f] # 0 /\ \E d \in Editors : Mends(d, f)')
    BY <1>3 DEF Met, Whole, Fine
  <2>1. Fine(head[f], broken) /\ content[f] # 0
    BY WholeFile
  <2>2. CASE pc = "valid"
    BY <1>4, <2>1, <2>2 DEF Whole, Fine
  <2>3. CASE pc = "restoring"
    <3>1. Mends(e, f)'
      BY <1>5, <2>3 DEF Mends
    <3>. QED BY <1>6, <2>1, <3>1 DEF Whole, Fine
  <2>. QED BY <2>1, <2>2, <2>3
<1>9. \A d \in Editors : patch'[d] = patch[d] /\ patch[d].file = f => f \in clash'
  <2>1. patch'[e] # patch[e]
    BY <1>1, <1>5 DEF At
  <2>. QED BY <1>2, <1>3, <2>1 DEF EditorInv, OneCall
<1>. QED BY <1>1, <1>2, <1>3, <1>5, <1>6, <1>7, <1>8, <1>9, StepOnFile

\* The back-up is put back.
LEMMA EditorRestore == ASSUME EditorInv, NEW e \in Editors, Restore(e) PROVE EditorInv'
<1>1. EditorVersions /\ versions \in Nat /\ versions \in 0..MaxVersion /\ At(e, "restoring") /\ CallIsSound(e)
  BY DEF EditorInv, EditorVersions, EditorTypeOK, Restore
<1>2. PICK f \in Paths : f = patch[e].file
  BY <1>1 DEF CallIsSound, At
<1>3. PICK dir \in Slots : dir = patch[e].slot /\ dir[2] = BaseName[f] /\ saved[dir] # -1
  BY <1>1, <1>2 DEF CallIsSound, At, IsCopyOf
<1>4. /\ PutBack(dir, f) /\ End(e)
      /\ UNCHANGED <<calls, versions, broken, saved, shared, head, second, done, clash>>
  BY <1>2, <1>3 DEF Restore
<1>5. /\ patch' \in [Editors -> EditorCalls]
      /\ \A d \in Editors : patch'[d].before \in 0..versions' /\ patch'[d].wrote \in 0..versions'
      /\ \A d \in Editors : d # e => patch'[d] = patch[d]
      /\ patch'[e].pc = "idle" /\ patch'[e].file = None /\ CallIsSound(e)'
  BY <1>1, <1>4, CallEnds
<1>6. /\ content' \in [Paths -> 0..versions] /\ content' \in [Paths -> 0..MaxVersion]
      /\ content'[f] = saved[dir] /\ \A g \in Paths : g # f => content'[g] = content[g]
  <2>1. saved[dir] \in 0..versions /\ saved[dir] \in 0..MaxVersion
    BY <1>1, <1>3, EditorAssumption DEF EditorVersions
  <2>. QED BY <1>1, <1>4, <2>1 DEF PutBack, EditorVersions, EditorTypeOK
<1>7. EditorVersions' /\ OneCall'
  BY <1>1, <1>2, <1>4, <1>5, <1>6, OneCallStays DEF EditorInv, EditorVersions, EditorTypeOK, Changes
<1>8. ~Met(BaseName[f])' => Fine(head'[f], broken') /\ Fine(content'[f], broken')
  BY <1>3, <1>4, <1>6 DEF Met, Whole, Fine, EditorInv, BrokenIsContained
<1>9. \A d \in Editors : patch'[d] = patch[d] /\ patch[d].file = f => f \in clash'
  <2>1. patch'[e] # patch[e]
    BY <1>1, <1>5 DEF At
  <2>. QED BY <1>2, <1>4, <2>1 DEF EditorInv, OneCall
<1>. QED BY <1>1, <1>2, <1>4, <1>5, <1>6, <1>7, <1>8, <1>9, StepOnFile

\* Step 4b: the patch succeeds, or its new text is not found.
LEMMA EditorAccept == ASSUME EditorInv, NEW e \in Editors, Accept(e) PROVE EditorInv'
<1>1. EditorVersions /\ versions \in Nat /\ versions \in 0..MaxVersion /\ At(e, "valid") /\ CallIsSound(e)
  BY DEF EditorInv, EditorVersions, EditorTypeOK, Accept
<1>2. PICK f \in Paths : f = patch[e].file
  BY <1>1 DEF CallIsSound, At
<1>3. PICK change : change = [file |-> f, slot |-> patch[e].slot, before |-> patch[e].before,
                              after |-> patch[e].wrote]
  OBVIOUS
<1>4. /\ Commit(f) /\ UNCHANGED <<calls, content, versions, broken, saved, shared, second, clash>>
      /\ \/ End(e) /\ done' = done \cup {change}
         \/ Goto(e, "restoring") /\ done' = done
  BY <1>2, <1>3 DEF Accept
<1>5. IsCopyOf(patch[e].slot, f, patch[e].before)
  BY <1>1, <1>2 DEF CallIsSound, At
<1>6. change \in Changes /\ IsCopyOf(change.slot, change.file, change.before)
  BY <1>1, <1>3, <1>5, CallFields DEF Changes, IsCopyOf
<1>7. /\ patch' \in [Editors -> EditorCalls]
      /\ \A d \in Editors : patch'[d].before \in 0..versions' /\ patch'[d].wrote \in 0..versions'
      /\ \A d \in Editors : d # e => patch'[d] = patch[d]
      /\ patch'[e].file \in {f, None} /\ CallIsSound(e)'
  <2>1. "restoring" \in {"valid", "restoring"} /\ patch[e].pc \notin {"idle", "checked", "backed"}
    BY <1>1 DEF At
  <2>. QED BY <1>1, <1>2, <1>4, <2>1, CallEnds, CallGoesOn
<1>8. /\ head' \in [Paths -> 0..versions] /\ \A g \in Paths : g # f => head'[g] = head[g]
      /\ ~Met(BaseName[f]) => Fine(head'[f], broken) /\ Fine(content[f], broken)
  BY <1>1, <1>2, <1>4, Commits DEF Mends, At
<1>9. head' \in [Paths -> 0..MaxVersion]
  BY <1>1, <1>8, EditorAssumption
<1>10. done \subseteq done' /\ done' \subseteq Changes
       /\ \A c \in done' \ done : IsCopyOf(c.slot, c.file, c.before)'
  BY <1>1, <1>4, <1>6 DEF EditorVersions, IsCopyOf
<1>11. EditorVersions'
  BY <1>1, <1>4, <1>7, <1>8, <1>9, <1>10 DEF EditorVersions, EditorTypeOK, Changes
<1>12. OneCall'
  BY <1>2, <1>4, <1>7, OneCallStays DEF EditorInv
<1>13. ~Met(BaseName[f])' => Fine(head'[f], broken') /\ Fine(content'[f], broken')
  BY <1>4, <1>8 DEF Met, Whole, Fine
<1>. QED BY <1>1, <1>2, <1>4, <1>7, <1>8, <1>10, <1>11, <1>12, <1>13, StepOnFile

\* A death, which may leave the copy or the file half written.
LEMMA EditorDeath == ASSUME EditorInv, NEW e \in Editors, EditorDies(e) PROVE EditorInv'
<1>1. /\ EditorVersions /\ versions \in Nat /\ versions \in 0..MaxVersion /\ calls \in Nat
      /\ ~At(e, "idle") /\ CallIsSound(e)
  BY DEF EditorInv, EditorVersions, EditorTypeOK, EditorDies, At
<1>2. PICK f \in Paths : f = patch[e].file
  BY <1>1 DEF CallIsSound
<1>3. End(e) /\ calls' = calls + 1 /\ UNCHANGED <<versions, broken, head, second, done>>
  BY DEF EditorDies
<1>4. /\ patch' \in [Editors -> EditorCalls]
      /\ \A d \in Editors : patch'[d].before \in 0..versions' /\ patch'[d].wrote \in 0..versions'
      /\ \A d \in Editors : d # e => patch'[d] = patch[d]
      /\ patch'[e].pc = "idle" /\ patch'[e].file = None /\ CallIsSound(e)'
  BY <1>1, <1>3, CallEnds
<1>5. 0 \in 0..versions /\ 0 \in 0..MaxVersion /\ \A v \in -1..versions : v \in -1..MaxVersion
  BY <1>1, EditorAssumption
<1>6. \A d \in Editors : patch'[d] = patch[d] /\ patch[d].file = f => f \in clash
  <2>1. patch'[e] # patch[e]
    BY <1>1, <1>4 DEF At
  <2>. QED BY <1>2, <2>1 DEF EditorInv, OneCall
<1>7. CASE /\ UNCHANGED <<content, saved, shared>>
           /\ clash' = IF Valid(content[f]) THEN clash ELSE clash \cup {f}
  <2>1. clash \subseteq clash' /\ clash' \in SUBSET Paths /\ (content[f] \in broken => f \in clash')
    BY <1>1, <1>7 DEF EditorVersions, EditorTypeOK, Valid
  <2>2. EditorVersions' /\ OneCall'
    BY <1>1, <1>2, <1>3, <1>4, <1>7, <2>1, OneCallStays DEF EditorInv, EditorVersions, EditorTypeOK, Changes
  <2>3. ~Met(BaseName[f])' => Fine(head'[f], broken') /\ Fine(content'[f], broken')
    <3>. SUFFICES ASSUME ~Met(BaseName[f])' PROVE Fine(head[f], broken) /\ Fine(content[f], broken)
      BY <1>3, <1>7 DEF Whole, Fine
    <3>1. f \notin clash' /\ ~Met(BaseName[f])
      BY <2>1 DEF Met
    <3>. QED BY <2>1, <3>1, WholeFile DEF Whole, Fine
  <2>. QED BY <1>1, <1>2, <1>3, <1>4, <1>7, <2>1, <2>2, <2>3, StepOnFile
<1>8. CASE Copy(f, 0) /\ clash' = clash \cup {f} /\ UNCHANGED content
  <2>1. /\ saved' \in [Slots -> -1..versions] /\ shared' \in SUBSET Slots /\ shared \subseteq shared'
        /\ saved'[Slot(f)] = 0 /\ Slot(f) \in Slots /\ Slot(f)[2] = BaseName[f]
        /\ \A s \in Slots : s # Slot(f) => saved'[s] = saved[s]
        /\ saved[Slot(f)] = -1 \/ Slot(f) \in shared'
    BY <1>5, <1>8, Copies
  <2>2. saved' \in [Slots -> -1..MaxVersion]
    BY <1>5, <2>1
  <2>3. clash \subseteq clash' /\ clash' \in SUBSET Paths /\ Met(BaseName[f])'
    BY <1>1, <1>8 DEF EditorVersions, EditorTypeOK, Met
  <2>4. EditorVersions' /\ OneCall'
    BY <1>1, <1>2, <1>3, <1>4, <1>8, <2>1, <2>2, <2>3, OneCallStays
       DEF EditorInv, EditorVersions, EditorTypeOK, Changes
  <2>5. \A s \in Slots : saved'[s] # saved[s] =>
          /\ saved'[s] # -1 /\ (saved[s] = -1 \/ s \in shared')
          /\ ~Met(s[2])' => Fine(saved'[s], broken')
    BY <2>1, <2>3
  <2>. QED BY <1>1, <1>2, <1>3, <1>4, <1>8, <2>1, <2>3, <2>4, <2>5, StepOnFile
<1>9. CASE /\ clash' = clash \cup {f} /\ content' = [content EXCEPT ![f] = 0]
           /\ UNCHANGED <<saved, shared>>
  <2>1. clash \subseteq clash' /\ clash' \in SUBSET Paths /\ Met(BaseName[f])' /\ f \in clash'
    BY <1>1, <1>9 DEF EditorVersions, EditorTypeOK, Met
  <2>2. /\ content' \in [Paths -> 0..versions] /\ content' \in [Paths -> 0..MaxVersion]
        /\ \A g \in Paths : g # f => content'[g] = content[g]
    BY <1>1, <1>5, <1>9 DEF EditorVersions, EditorTypeOK
  <2>3. EditorVersions' /\ OneCall'
    BY <1>1, <1>2, <1>3, <1>4, <1>9, <2>1, <2>2, OneCallStays
       DEF EditorInv, EditorVersions, EditorTypeOK, Changes
  <2>. QED BY <1>1, <1>2, <1>3, <1>4, <1>9, <2>1, <2>2, <2>3, StepOnFile
<1>. QED BY <1>2, <1>7, <1>8, <1>9 DEF EditorDies

\* What happens beside the calls: a back-up, a roll-back, the clock.
LEMMA EditorCopy == ASSUME EditorInv, NEW f \in Paths, OnlyBackUp(f) PROVE EditorInv'
<1>1. /\ EditorVersions /\ versions \in Nat /\ versions \in 0..MaxVersion /\ calls \in Nat
      /\ content[f] \in 0..versions /\ content[f] # -1
  BY DEF EditorInv, EditorVersions, EditorTypeOK
<1>2. /\ Copy(f, content[f]) /\ Touch(f) /\ calls' = calls + 1
      /\ UNCHANGED <<content, versions, broken, head, second, patch, done>>
  BY DEF OnlyBackUp
<1>3. /\ saved' \in [Slots -> -1..versions] /\ shared' \in SUBSET Slots /\ shared \subseteq shared'
      /\ saved'[Slot(f)] = content[f] /\ Slot(f) \in Slots /\ Slot(f)[2] = BaseName[f]
      /\ \A s \in Slots : s # Slot(f) => saved'[s] = saved[s]
      /\ saved[Slot(f)] = -1 \/ Slot(f) \in shared'
  BY <1>1, <1>2, Copies
<1>4. saved' \in [Slots -> -1..MaxVersion]
  <2>1. \A v \in -1..versions : v \in -1..MaxVersion
    BY <1>1, EditorAssumption
  <2>. QED BY <1>3, <2>1
<1>5. /\ clash' \in SUBSET Paths /\ clash \subseteq clash'
      /\ \A e \in Editors : patch[e].file = f => f \in clash'
  BY <1>1, <1>2 DEF Touch, EditorVersions, EditorTypeOK
<1>6. EditorVersions'
  BY <1>1, <1>2, <1>3, <1>4, <1>5 DEF EditorVersions, EditorTypeOK, Changes
<1>7. OneCall'
  BY <1>2, <1>5 DEF EditorInv, OneCall
<1>8. ~Met(BaseName[f])' => Fine(head'[f], broken') /\ Fine(content'[f], broken')
  <2>. SUFFICES ASSUME ~Met(BaseName[f])' PROVE Fine(head[f], broken) /\ Fine(content[f], broken)
    BY <1>2 DEF Whole, Fine
  <2>1. f \notin clash' /\ ~Met(BaseName[f])
    BY <1>5 DEF Met
  <2>. QED BY <1>5, <2>1, WholeFile DEF Mends
<1>9. \A s \in Slots : saved'[s] # saved[s] =>
        /\ saved'[s] # -1 /\ (saved[s] = -1 \/ s \in shared')
        /\ ~Met(s[2])' => Fine(saved'[s], broken')
  BY <1>1, <1>2, <1>3, <1>8
<1>. QED BY <1>1, <1>2, <1>3, <1>5, <1>6, <1>7, <1>8, <1>9, StepOnFile

\* A roll-back puts back what is whole, unless somebody met on a file of its name.
LEMMA EditorRollBack ==
  ASSUME EditorInv, NEW dir \in Slots, NEW f \in Paths, RollBack(dir, f) PROVE EditorInv'
<1>1. EditorVersions /\ versions \in Nat /\ versions \in 0..MaxVersion /\ calls \in Nat
  BY DEF EditorInv, EditorVersions, EditorTypeOK
<1>2. /\ dir[2] = BaseName[f] /\ saved[dir] # -1 /\ PutBack(dir, f) /\ Touch(f) /\ calls' = calls + 1
      /\ UNCHANGED <<versions, broken, saved, shared, head, second, patch, done>>
  BY DEF RollBack
<1>3. /\ content' \in [Paths -> 0..versions] /\ content' \in [Paths -> 0..MaxVersion]
      /\ content'[f] = saved[dir] /\ \A g \in Paths : g # f => content'[g] = content[g]
  <2>1. saved[dir] \in 0..versions /\ saved[dir] \in 0..MaxVersion
    BY <1>1, <1>2, EditorAssumption DEF EditorVersions
  <2>. QED BY <1>1, <1>2, <2>1 DEF PutBack, EditorVersions, EditorTypeOK
<1>4. /\ clash' \in SUBSET Paths /\ clash \subseteq clash'
      /\ \A e \in Editors : patch[e].file = f => f \in clash'
  BY <1>1, <1>2 DEF Touch, EditorVersions, EditorTypeOK
<1>5. EditorVersions'
  BY <1>1, <1>2, <1>3, <1>4 DEF EditorVersions, EditorTypeOK, Changes
<1>6. OneCall'
  BY <1>2, <1>4 DEF EditorInv, OneCall
<1>7. ~Met(BaseName[f])' => Fine(head'[f], broken') /\ Fine(content'[f], broken')
  <2>. SUFFICES ASSUME ~Met(BaseName[f])' PROVE Fine(head[f], broken) /\ Fine(saved[dir], broken)
    BY <1>2, <1>3 DEF Whole, Fine
  <2>1. ~Met(BaseName[f])
    BY <1>4 DEF Met
  <2>. QED BY <1>2, <2>1 DEF EditorInv, BrokenIsContained, Whole, Fine
<1>. QED BY <1>1, <1>2, <1>3, <1>4, <1>5, <1>6, <1>7, StepOnFile

\* The clock.
LEMMA EditorTick == ASSUME EditorInv, Tick PROVE EditorInv'
<1>1. /\ second' \in 0..MaxSecond
      /\ UNCHANGED <<calls, content, versions, broken, saved, shared, head, patch, done, clash>>
  BY EditorAssumption DEF Tick, EditorInv, EditorVersions, EditorTypeOK
<1>2. EditorVersions'
  BY <1>1 DEF EditorInv, EditorVersions, EditorTypeOK, Changes
<1>. QED
  BY <1>1, <1>2 DEF EditorInv, OneCall, BrokenIsContained, CallIsSound, IsCopyOf, At, Met, Whole, Fine, Mends

\* However the calls of the editor meet and die, a text that is no YAML, or
\* empty, stays with the call that wrote it, and a change names a back-up of
\* the text that it replaced, but for the named causes.
THEOREM EditorContains == EditorSpec => []EditorSound
<1>1. EditorInit => EditorInv
  BY EditorStart
<1>2. EditorInv /\ [EditorNext]_editorVars => EditorInv'
  <2>1. EditorInv /\ UNCHANGED editorVars => EditorInv'
    BY DEF EditorInv, editorVars, EditorVersions, EditorTypeOK, OneCall, BrokenIsContained, CallIsSound,
           IsCopyOf, At, Met, Whole, Fine, Mends, Changes
  <2>. QED
    BY <2>1, EditorBegin, EditorBackUp, EditorRead, EditorChange, EditorJudge, EditorRestore, EditorAccept,
       EditorDeath, EditorCopy, EditorRollBack, EditorTick DEF EditorNext
<1>3. EditorInv => EditorSound
  BY DEF EditorInv, EditorVersions, EditorSound, BackupIsOfChange, IsCopyOf
<1>. QED BY <1>1, <1>2, <1>3, PTL DEF EditorSpec

-----------------------------------------------------------------------------
(* The agent generator.                                                     *)

AgentFiles == [id : Nat, says : SUBSET Wanted, defaults : BOOLEAN, parses : BOOLEAN]
Entries == [name : AgentNames, kind : {"string", "mapping"}]
Seconds == 0..MaxSeconds
Pcs == {"idle", "save", "write", "sot", "sub", "enter"}
Jobs == [pc : Pcs, name : AgentNames \cup {""}, second : Seconds, register : BOOLEAN, failed : BOOLEAN]

FactoryTypes ==
  /\ agent \in [AgentNames -> AgentFiles] /\ sot \subseteq AgentNames
  /\ subRecipes \in Seq(Entries) /\ cutOff \subseteq {"sot", "sub"}
  /\ backedUp \in [Seconds \X AgentNames -> Nat]
  /\ job \in Jobs /\ (job.pc \in {"save", "write", "sot", "sub"} => job.name \in AgentNames)
  /\ templates \subseteq RecoveryAgents
  /\ agentVersions \in Nat /\ clock \in Seconds

\* Where a version of an agent can be found, or why not.
Found(v) == v \in gone \/ \E n \in AgentNames : v = agent[n].id \/ v \in CopiesOf(n)

\* The file a running command is about to replace is backed up, unless its
\* back-up failed.
OldIsSaved ==
  job.pc = "write" /\ ~job.failed => agent[job.name].id \in gone \cup CopiesOf(job.name)

\* The file that is about to be registered is there.
WrittenFirst == job.pc \in {"sot", "sub"} => agent[job.name].id # 0

FactoryInv ==
  /\ FactoryTypes /\ OldIsSaved /\ WrittenFirst /\ RegisteredHasFile
  /\ \A v \in 1..agentVersions : Found(v)

(* The names of one form are those of the entries of that form.             *)
LEMMA Entered ==
  ASSUME NEW n, NEW k
  PROVE  n \in NamesOf(k) <=> \E i \in DOMAIN subRecipes : subRecipes[i].kind = k /\ subRecipes[i].name = n
  BY DEF NamesOf

(* No command runs.                                                         *)
LEMMA NoJobIs == NoJob \in Jobs /\ NoJob.pc = "idle" /\ 0 \in Seconds
<1>1. MaxSeconds \in Nat
  BY FactoryAssumption
<1>2. 0 \in Seconds
  BY <1>1 DEF Seconds
<1> QED BY <1>2 DEF NoJob, Job, Jobs, Pcs

(* A command goes on with its next step.                                    *)
LEMMA JobGoesOn ==
  ASSUME FactoryTypes, NEW pc \in {"idle", "write", "sot", "sub"}, GoOn(pc)
  PROVE  /\ job' \in Jobs /\ job'.pc = pc
         /\ pc # "idle" => job'.name = job.name /\ ~job'.failed
<1>1. CASE pc = "idle"
  BY <1>1, NoJobIs DEF GoOn
<1>2. CASE pc # "idle"
  <2>1. job.name \in AgentNames \cup {""} /\ job.second \in Seconds /\ job.register \in BOOLEAN /\ pc \in Pcs
    BY DEF FactoryTypes, Jobs, Pcs
  <2>2. job' = Job(pc, job.name, job.second, job.register, FALSE)
    BY <1>2 DEF GoOn
  <2>3. PICK next : next = Job(pc, job.name, job.second, job.register, FALSE)
    OBVIOUS
  <2>4. next \in Jobs /\ next.pc = pc /\ next.name = job.name /\ ~next.failed
    BY <2>1, <2>3 DEF Job, Jobs
  <2> QED BY <2>2, <2>3, <2>4
<1> QED BY <1>1, <1>2

(* Back-ups that stay.                                                      *)
LEMMA CopiesStay == ASSUME UNCHANGED backedUp PROVE \A n : CopiesOf(n)' = CopiesOf(n)
  BY DEF CopiesOf

(* The versions are kept where they can be found if the file that is        *)
(* replaced is.                                                             *)
LEMMA FoundAfter ==
  ASSUME NEW n \in AgentNames, FactoryTypes, NEW new \in AgentFiles, Replace(n, new),
         new.id = agentVersions + 1, UNCHANGED backedUp,
         \A v \in 1..agentVersions : Found(v), gone \subseteq gone',
         agent[n].id \in gone' \cup CopiesOf(n)
  PROVE  /\ agent' \in [AgentNames -> AgentFiles] /\ agentVersions' \in Nat
         /\ \A m \in AgentNames : agent[m].id # 0 => agent'[m].id # 0
         /\ agent'[n].id # 0
         /\ \A v \in 1..agentVersions' : Found(v)'
<1>1. agentVersions \in Nat /\ agentVersions' = agentVersions + 1 /\ agent \in [AgentNames -> AgentFiles]
  BY DEF FactoryTypes, Replace
<1>2. agent' = [agent EXCEPT ![n] = new]
  BY DEF Replace
<1>3. agent' \in [AgentNames -> AgentFiles] /\ \A m \in AgentNames : agent'[m] = IF m = n THEN new ELSE agent[m]
  BY <1>1, <1>2
<1>4. agent'[n].id = agentVersions + 1 /\ agent'[n].id # 0
  BY <1>1, <1>3
<1>5. \A m \in AgentNames : agent[m].id # 0 => agent'[m].id # 0
  BY <1>3, <1>4
<1>6. ASSUME NEW v \in 1..agentVersions' PROVE Found(v)'
  <2>1. CASE v = agentVersions + 1
    BY <2>1, <1>4 DEF Found
  <2>2. CASE v # agentVersions + 1
    <3>1. Found(v)
      BY <2>2, <1>1
    <3>2. CASE v \in gone
      BY <3>2 DEF Found
    <3>3. CASE \E m \in AgentNames : v = agent[m].id \/ v \in CopiesOf(m)
      <4>1. PICK m \in AgentNames : v = agent[m].id \/ v \in CopiesOf(m)
        BY <3>3
      <4>2. CASE v \in CopiesOf(m)
        BY <4>2, CopiesStay DEF Found
      <4>3. CASE v = agent[m].id /\ m # n
        BY <4>3, <1>3 DEF Found
      <4>4. CASE v = agent[m].id /\ m = n
        BY <4>4, CopiesStay DEF Found
      <4> QED BY <4>1, <4>2, <4>3, <4>4
    <3> QED BY <3>1, <3>2, <3>3 DEF Found
  <2> QED BY <2>1, <2>2
<1> QED BY <1>1, <1>3, <1>4, <1>5, <1>6

(* A back-up is taken or cut off: what its place held is known to be gone.  *)
LEMMA FoundAfterCopy ==
  ASSUME FactoryTypes, job.pc = "save", NEW version \in Nat, CopyTo(version),
         UNCHANGED <<agent, agentVersions>>, \A v \in 1..agentVersions : Found(v)
  PROVE  /\ backedUp' \in [Seconds \X AgentNames -> Nat]
         /\ \A v \in 1..agentVersions' : Found(v)'
         /\ \A n : n = job.name => version \in CopiesOf(n)'
<1>1. PICK n \in AgentNames, s \in Seconds : n = job.name /\ s = job.second
  BY DEF FactoryTypes, Jobs
<1>2. PICK place \in Seconds \X AgentNames : place = <<s, n>> /\ place = <<job.second, job.name>>
  BY <1>1
<1>3. PICK old \in Nat : old = agent[n].id
  BY DEF FactoryTypes, AgentFiles
<1>4. backedUp' = [backedUp EXCEPT ![place] = version] /\ gone' = gone \cup ({backedUp[place]} \ {0, old})
  BY <1>1, <1>2, <1>3 DEF CopyTo
<1>5. backedUp \in [Seconds \X AgentNames -> Nat]
  BY DEF FactoryTypes
<1>6. /\ backedUp' \in [Seconds \X AgentNames -> Nat] /\ backedUp'[place] = version
      /\ \A k \in Seconds \X AgentNames : k # place => backedUp'[k] = backedUp[k]
  BY <1>4, <1>5
<1>7. version \in CopiesOf(n)'
  BY <1>2, <1>6 DEF CopiesOf, Seconds
<1>8. ASSUME NEW v \in 1..agentVersions' PROVE Found(v)'
  <2>1. Found(v) /\ v # 0
    BY DEF FactoryTypes
  <2>2. CASE v \in gone
    BY <2>2, <1>4 DEF Found
  <2>3. CASE \E m \in AgentNames : v = agent[m].id
    BY <2>3 DEF Found
  <2>4. CASE \E m \in AgentNames : v \in CopiesOf(m)
    <3>1. PICK m \in AgentNames, t \in Seconds : v = backedUp[<<t, m>>]
      BY <2>1, <2>4 DEF CopiesOf, Seconds
    <3>2. CASE <<t, m>> = place /\ v # old
      BY <3>1, <3>2, <1>4, <2>1 DEF Found
    <3>3. CASE v = old
      BY <3>3, <1>3 DEF Found
    <3>4. CASE <<t, m>> # place
      <4>1. v = backedUp'[<<t, m>>]
        BY <3>1, <3>4, <1>6
      <4>2. v \in CopiesOf(m)'
        BY <4>1 DEF CopiesOf, Seconds
      <4> QED BY <4>2 DEF Found
    <3> QED BY <3>2, <3>3, <3>4
  <2> QED BY <2>1, <2>2, <2>3, <2>4 DEF Found
<1>9. \A m : m = job.name => version \in CopiesOf(m)'
  BY <1>1, <1>7
<1> QED BY <1>6, <1>8, <1>9

(* What does not touch files or back-ups loses nothing.                     *)
LEMMA FoundStays ==
  ASSUME UNCHANGED <<agent, backedUp, agentVersions, gone>>, \A v \in 1..agentVersions : Found(v)
  PROVE  \A v \in 1..agentVersions' : Found(v)'
  BY CopiesStay DEF Found

(* Entries and register as they were; the files stay.                       *)
LEMMA RegisterStays ==
  ASSUME RegisteredHasFile, UNCHANGED <<sot, subRecipes, templates>>, FactoryTypes,
         \A m \in AgentNames : agent[m].id # 0 => agent'[m].id # 0
  PROVE  RegisteredHasFile'
<1>1. \A k : NamesOf(k)' = NamesOf(k)
  BY DEF NamesOf
<1>2. \A i \in DOMAIN subRecipes : subRecipes[i].name \in AgentNames
  <2>1. \A i \in DOMAIN subRecipes : subRecipes[i] \in Entries
    BY DEF FactoryTypes
  <2> QED BY <2>1 DEF Entries
<1>3. ASSUME NEW k, NEW n \in NamesOf(k) PROVE n \in AgentNames
  BY <1>3, <1>2, Entered
<1>4. sot \subseteq AgentNames
  BY DEF FactoryTypes
<1> QED BY <1>1, <1>3, <1>4 DEF RegisteredHasFile

(* At the start there is no agent.                                          *)
LEMMA FactoryStart == ASSUME FactoryInit PROVE FactoryInv
<1>1. NoFile \in AgentFiles
  BY DEF NoFile, AgentFile, AgentFiles
<1>2. MaxSeconds \in Nat \ {0}
  BY FactoryAssumption
<1>3. job = NoJob /\ job \in Jobs /\ job.pc = "idle"
  BY NoJobIs DEF FactoryInit
<1>4. subRecipes = <<>> /\ sot = {} /\ agentVersions = 0 /\ clock = 1 /\ templates \subseteq RecoveryAgents
  BY DEF FactoryInit
<1>5. FactoryTypes
  <2>1. agent \in [AgentNames -> AgentFiles] /\ cutOff \subseteq {"sot", "sub"}
    BY <1>1 DEF FactoryInit
  <2>2. backedUp \in [Seconds \X AgentNames -> Nat]
    BY DEF FactoryInit, Seconds
  <2>3. subRecipes \in Seq(Entries) /\ sot \subseteq AgentNames
    BY <1>4
  <2>4. clock \in Seconds /\ agentVersions \in Nat
    BY <1>2, <1>4 DEF Seconds
  <2> QED BY <1>3, <1>4, <2>1, <2>2, <2>3, <2>4 DEF FactoryTypes
<1>6. OldIsSaved /\ WrittenFirst
  BY <1>3 DEF OldIsSaved, WrittenFirst
<1>7. NamesOf("string") = {} /\ NamesOf("mapping") = {}
  BY <1>4 DEF NamesOf
<1>8. RegisteredHasFile
  BY <1>4, <1>7 DEF RegisteredHasFile
<1>9. \A v \in 1..agentVersions : Found(v)
  BY <1>4
<1> QED BY <1>5, <1>6, <1>8, <1>9 DEF FactoryInv

(* The beginnings of the commands.                                          *)
LEMMA FactoryBegins ==
  ASSUME FactoryInv, NEW pc \in {"save", "write", "enter"}, NEW n \in AgentNames \cup {""}, NEW sec \in Seconds,
         NEW register \in BOOLEAN, job' = Job(pc, n, sec, register, FALSE),
         pc = "enter" \/ n \in AgentNames, pc = "write" => agent[n].id = 0,
         UNCHANGED <<agent, sot, subRecipes, cutOff, backedUp, templates, agentVersions, clock, gone>>
  PROVE  FactoryInv'
<1> USE DEF FactoryInv
<1>1. PICK begun \in Jobs : begun = Job(pc, n, sec, register, FALSE) /\ begun.pc = pc /\ begun.name = n
  <2>1. pc \in Pcs
    BY DEF Pcs
  <2>2. PICK first : first = Job(pc, n, sec, register, FALSE)
    OBVIOUS
  <2>3. first \in Jobs /\ first.pc = pc /\ first.name = n
    BY <2>1, <2>2 DEF Job, Jobs
  <2> QED BY <2>2, <2>3
<1>2. job' = begun
  BY <1>1
<1>3. FactoryTypes'
  BY <1>1, <1>2 DEF FactoryTypes
<1>4. OldIsSaved'
  BY <1>1, <1>2 DEF OldIsSaved, CopiesOf
<1>5. WrittenFirst'
  BY <1>1, <1>2 DEF WrittenFirst
<1>6. RegisteredHasFile'
  BY RegisterStays
<1>7. \A v \in 1..agentVersions' : Found(v)'
  BY FoundStays
<1> QED BY <1>3, <1>4, <1>5, <1>6, <1>7

(* --create and --refresh begin with the back-up if there is a file.        *)
LEMMA FactoryBegin ==
  ASSUME FactoryInv, NEW n \in AgentNames,
         (\E register \in BOOLEAN : BeginCreate(n, register)) \/ BeginRefresh(n)
  PROVE  FactoryInv'
<1>1. ASSUME NEW register \in BOOLEAN, BeginCreate(n, register) PROVE FactoryInv'
  <2>1. PICK pc \in {"save", "write", "enter"} : pc = FirstStep(n) /\ pc # "enter" /\ (pc = "write" => agent[n].id = 0)
    BY DEF FirstStep
  <2>2. clock \in Seconds
    BY DEF FactoryInv, FactoryTypes
  <2>3. job' = Job(pc, n, clock, register, FALSE)
    BY <1>1, <2>1 DEF BeginCreate
  <2>4. UNCHANGED <<agent, sot, subRecipes, cutOff, backedUp, templates, agentVersions, clock, gone>>
    BY <1>1 DEF BeginCreate
  <2> QED BY <2>1, <2>2, <2>3, <2>4, FactoryBegins
<1>2. CASE BeginRefresh(n)
  <2>1. /\ job' = Job("save", n, 0, FALSE, FALSE)
        /\ UNCHANGED <<agent, sot, subRecipes, cutOff, backedUp, templates, agentVersions, clock, gone>>
    BY <1>2 DEF BeginRefresh
  <2> QED BY <2>1, NoJobIs, FactoryBegins
<1> QED BY <1>1, <1>2

(* init begins.                                                             *)
LEMMA FactoryBeginRecovery == ASSUME FactoryInv, BeginRecovery PROVE FactoryInv'
<1>1. PICK no : no = ""
  OBVIOUS
<1>2. /\ job' = Job("enter", no, 0, FALSE, FALSE)
      /\ UNCHANGED <<agent, sot, subRecipes, cutOff, backedUp, templates, agentVersions, clock, gone>>
  BY <1>1 DEF BeginRecovery
<1> QED BY <1>1, <1>2, NoJobIs, FactoryBegins

(* The back-up, whole, cut off or not opened.                               *)
LEMMA FactorySave == ASSUME FactoryInv, Save \/ SaveFails PROVE FactoryInv'
<1> USE DEF FactoryInv
<1>1. /\ job.pc = "save" /\ job.name \in AgentNames
      /\ UNCHANGED <<agent, sot, subRecipes, cutOff, templates, agentVersions, clock>>
  BY DEF Save, SaveFails, FactoryTypes
<1>2. agent[job.name].id \in Nat /\ 0 \in Nat
  BY <1>1 DEF FactoryTypes, AgentFiles
<1>3. backedUp' \in [Seconds \X AgentNames -> Nat] /\ \A v \in 1..agentVersions' : Found(v)'
  <2>1. CASE UNCHANGED <<backedUp, gone>>
    BY <1>1, <2>1, FoundStays DEF FactoryTypes
  <2>2. CASE CopyTo(0) \/ CopyTo(agent[job.name].id)
    BY <1>1, <1>2, <2>2, FoundAfterCopy
  <2> QED BY <2>1, <2>2 DEF Save, SaveFails
<1>4. /\ job' \in Jobs /\ job'.pc = "write" /\ job'.name = job.name
      /\ Save \/ job'.failed
  <2>1. CASE Save
    BY <2>1, JobGoesOn DEF Save
  <2>2. CASE SaveFails
    <3>1. job.name \in AgentNames \cup {""} /\ job.second \in Seconds /\ job.register \in BOOLEAN
      BY DEF FactoryTypes, Jobs
    <3>2. PICK next : next = Job("write", job.name, job.second, job.register, TRUE)
      OBVIOUS
    <3>3. next \in Jobs /\ next.pc = "write" /\ next.name = job.name /\ next.failed
      BY <3>1, <3>2 DEF Job, Jobs, Pcs
    <3>4. job' = next
      BY <2>2, <3>2 DEF SaveFails
    <3> QED BY <3>3, <3>4
  <2> QED BY <2>1, <2>2
<1>5. FactoryTypes'
  BY <1>1, <1>3, <1>4 DEF FactoryTypes
<1>6. OldIsSaved'
  <2>1. CASE job'.failed
    BY <2>1 DEF OldIsSaved
  <2>2. CASE Save
    <3>1. CopyTo(agent[job.name].id)
      BY <2>2 DEF Save
    <3>2. PICK n : n = job.name
      OBVIOUS
    <3>3. agent[n].id \in CopiesOf(n)'
      BY <1>1, <1>2, <3>1, <3>2, FoundAfterCopy
    <3>4. agent'[n].id \in CopiesOf(n)' /\ job'.name = n
      BY <1>1, <1>4, <3>2, <3>3
    <3> QED BY <3>4 DEF OldIsSaved
  <2> QED BY <1>4, <2>1, <2>2
<1>7. WrittenFirst'
  BY <1>4 DEF WrittenFirst
<1>8. RegisteredHasFile'
  BY <1>1, RegisterStays
<1> QED BY <1>3, <1>5, <1>6, <1>7, <1>8

(* The files that the commands write.                                       *)
LEMMA FilesAre ==
  ASSUME FactoryTypes
  PROVE  /\ \A brought \in {{}, Sources} :
              Generated(brought) \in AgentFiles /\ Generated(brought).id = agentVersions + 1
         /\ \A b \in BOOLEAN : Broken(b) \in AgentFiles /\ Broken(b).id = agentVersions + 1
         /\ \A says \in SUBSET Wanted, defaults \in BOOLEAN :
              /\ AgentFile(agentVersions + 1, says, defaults, TRUE) \in AgentFiles
              /\ AgentFile(agentVersions + 1, says, defaults, TRUE).id = agentVersions + 1
<1>1. agentVersions + 1 \in Nat
  BY DEF FactoryTypes
<1>2. \A says \in SUBSET Wanted, defaults, parses \in BOOLEAN :
        /\ AgentFile(agentVersions + 1, says, defaults, parses) \in AgentFiles
        /\ AgentFile(agentVersions + 1, says, defaults, parses).id = agentVersions + 1
  BY <1>1 DEF AgentFile, AgentFiles
<1>3. ASSUME NEW brought \in {{}, Sources}
      PROVE  Generated(brought) \in AgentFiles /\ Generated(brought).id = agentVersions + 1
  <2>1. InHeader \cup Template \cup brought \in SUBSET Wanted
    BY FactoryAssumption DEF Wanted
  <2> QED BY <1>2, <2>1 DEF Generated
<1>4. {} \in SUBSET Wanted
  OBVIOUS
<1>5. \A b \in BOOLEAN : Broken(b) \in AgentFiles /\ Broken(b).id = agentVersions + 1
  BY <1>2, <1>4 DEF Broken
<1> QED BY <1>2, <1>3, <1>5

(* The file is written, whole or not; what it replaces was backed up or is  *)
(* known to be gone.                                                        *)
LEMMA FactoryPut ==
  ASSUME FactoryInv, job.pc = "write", NEW new \in AgentFiles, new.id = agentVersions + 1, PutAgent(new),
         UNCHANGED backedUp
  PROVE  /\ agent' \in [AgentNames -> AgentFiles] /\ agentVersions' \in Nat
         /\ \A m \in AgentNames : agent[m].id # 0 => agent'[m].id # 0
         /\ agent'[job.name].id # 0
         /\ \A v \in 1..agentVersions' : Found(v)'
<1> USE DEF FactoryInv
<1>1. PICK n \in AgentNames : n = job.name
  BY DEF FactoryTypes
<1>2. Replace(n, new) /\ gone' = IF job.failed THEN gone \cup {agent[n].id} ELSE gone
  BY <1>1 DEF PutAgent
<1>3. gone \subseteq gone'
  BY <1>2
<1>4. agent[n].id \in gone' \cup CopiesOf(n)
  BY <1>1, <1>2 DEF OldIsSaved
<1>5. FactoryTypes /\ \A v \in 1..agentVersions : Found(v)
  OBVIOUS
<1> QED BY <1>1, <1>2, <1>3, <1>4, <1>5, FoundAfter

(* --create and --refresh write the file.                                   *)
LEMMA FactoryWrite == ASSUME FactoryInv, WriteAgent PROVE FactoryInv'
<1> USE DEF FactoryInv
<1>1. /\ job.pc = "write" /\ job.name \in AgentNames
      /\ UNCHANGED <<sot, subRecipes, cutOff, backedUp, templates, clock>>
  BY DEF WriteAgent, FactoryTypes
<1>2. PICK pc \in {"sot", "idle"} : GoOn(pc)
  BY DEF WriteAgent
<1>3. job' \in Jobs /\ job'.pc = pc /\ (pc = "sot" => job'.name = job.name)
  BY <1>2, JobGoesOn
<1>4. PICK new \in AgentFiles : new.id = agentVersions + 1 /\ PutAgent(new)
  <2>1. CASE job.second = 0
    <3>1. PICK says \in SUBSET Wanted : says = agent[job.name].says
      BY <1>1 DEF FactoryTypes, AgentFiles
    <3>2. PutAgent(AgentFile(agentVersions + 1, says, TRUE, TRUE))
      BY <2>1, <3>1 DEF WriteAgent
    <3> QED BY <3>2, FilesAre
  <2>2. CASE job.second # 0
    <3>1. PICK brought \in {{}, Sources} : PutAgent(Generated(brought))
      BY <2>2 DEF WriteAgent
    <3> QED BY <3>1, FilesAre
  <2> QED BY <2>1, <2>2
<1>5. /\ agent' \in [AgentNames -> AgentFiles] /\ agentVersions' \in Nat
      /\ \A m \in AgentNames : agent[m].id # 0 => agent'[m].id # 0
      /\ agent'[job.name].id # 0
      /\ \A v \in 1..agentVersions' : Found(v)'
  BY <1>1, <1>4, FactoryPut
<1>6. FactoryTypes'
  BY <1>1, <1>3, <1>5 DEF FactoryTypes
<1>7. OldIsSaved' /\ WrittenFirst'
  BY <1>3, <1>5 DEF OldIsSaved, WrittenFirst
<1>8. RegisteredHasFile'
  BY <1>1, <1>5, RegisterStays
<1> QED BY <1>5, <1>6, <1>7, <1>8

(* A register is cut off.                                                   *)
LEMMA RegisterCut ==
  ASSUME FactoryInv, NEW register \in {"sot", "sub"}, CutOff(register), UNCHANGED <<agent, templates>>
  PROVE  /\ sot' \subseteq AgentNames /\ subRecipes' \in Seq(Entries) /\ cutOff' \subseteq {"sot", "sub"}
         /\ RegisteredHasFile'
<1> USE DEF FactoryInv
<1>1. sot \subseteq AgentNames /\ subRecipes \in Seq(Entries) /\ cutOff \subseteq {"sot", "sub"}
  BY DEF FactoryTypes
<1>2. CASE register = "sot"
  <2>1. sot' = {} /\ subRecipes' = subRecipes /\ cutOff' = cutOff \cup {"sot"}
    BY <1>2 DEF CutOff
  <2>2. \A k : NamesOf(k)' = NamesOf(k)
    BY <2>1 DEF NamesOf
  <2> QED BY <1>1, <2>1, <2>2 DEF RegisteredHasFile
<1>3. CASE register = "sub"
  <2>1. sot' = sot /\ subRecipes' = <<>> /\ cutOff' = cutOff \cup {"sub"}
    BY <1>3 DEF CutOff
  <2>2. \A k : NamesOf(k)' = {}
    BY <2>1 DEF NamesOf
  <2>3. <<>> \in Seq(Entries)
    OBVIOUS
  <2> QED BY <1>1, <2>1, <2>2, <2>3 DEF RegisteredHasFile
<1> QED BY <1>2, <1>3

(* AddSot: the agent it registers was written.                              *)
LEMMA FactoryAddSot == ASSUME FactoryInv, AddSot PROVE FactoryInv'
<1> USE DEF FactoryInv
<1>1. /\ job.pc = "sot" /\ job.name \in AgentNames /\ agent[job.name].id # 0
      /\ UNCHANGED <<agent, backedUp, templates, agentVersions, clock, gone>>
  BY DEF AddSot, FactoryTypes, WrittenFirst
<1>2. job' \in Jobs /\ job'.pc = "sub" /\ job'.name = job.name
  BY JobGoesOn DEF AddSot
<1>3. /\ sot' \subseteq AgentNames /\ subRecipes' \in Seq(Entries) /\ cutOff' \subseteq {"sot", "sub"}
      /\ RegisteredHasFile'
  <2>1. CASE CutOff("sot")
    BY <1>1, <2>1, RegisterCut
  <2>2. CASE UNCHANGED <<sot, subRecipes, cutOff>>
    BY <1>1, <2>2, RegisterStays DEF FactoryTypes
  <2>3. CASE sot' = sot \cup {job.name} /\ UNCHANGED <<subRecipes, cutOff>>
    <3>1. \A k : NamesOf(k)' = NamesOf(k)
      BY <2>3 DEF NamesOf
    <3> QED BY <1>1, <2>3, <3>1 DEF FactoryTypes, RegisteredHasFile
  <2> QED BY <2>1, <2>2, <2>3 DEF AddSot
<1>4. FactoryTypes'
  BY <1>1, <1>2, <1>3 DEF FactoryTypes
<1>5. OldIsSaved' /\ WrittenFirst'
  BY <1>1, <1>2 DEF OldIsSaved, WrittenFirst
<1>6. \A v \in 1..agentVersions' : Found(v)'
  BY <1>1, FoundStays
<1> QED BY <1>3, <1>4, <1>5, <1>6

(* AddSubRecipe: and it is entered once.                                    *)
LEMMA FactoryAddEntry == ASSUME FactoryInv, AddSubRecipe PROVE FactoryInv'
<1> USE DEF FactoryInv
<1>1. /\ job.pc = "sub" /\ job.name \in AgentNames /\ agent[job.name].id # 0
      /\ UNCHANGED <<agent, backedUp, templates, agentVersions, clock, gone>>
  BY DEF AddSubRecipe, FactoryTypes, WrittenFirst
<1>2. job' \in Jobs /\ job'.pc = "idle"
  BY JobGoesOn DEF AddSubRecipe
<1>3. /\ sot' \subseteq AgentNames /\ subRecipes' \in Seq(Entries) /\ cutOff' \subseteq {"sot", "sub"}
      /\ RegisteredHasFile'
  <2>1. CASE CutOff("sub")
    BY <1>1, <2>1, RegisterCut
  <2>2. CASE UNCHANGED <<sot, subRecipes, cutOff>>
    BY <1>1, <2>2, RegisterStays DEF FactoryTypes
  <2>3. CASE /\ "sub" \notin cutOff /\ job.name \notin NamesOf("string")
             /\ subRecipes' = Append(subRecipes, [name |-> job.name, kind |-> "string"])
             /\ UNCHANGED <<sot, cutOff>>
    <3>1. PICK entry \in Entries : entry = [name |-> job.name, kind |-> "string"]
      BY <1>1 DEF Entries
    <3>2. subRecipes' = Append(subRecipes, entry)
      BY <2>3, <3>1
    <3>3. subRecipes \in Seq(Entries)
      BY DEF FactoryTypes
    <3>4. /\ subRecipes' \in Seq(Entries)
          /\ DOMAIN subRecipes = 1..Len(subRecipes) /\ DOMAIN subRecipes' = 1..(Len(subRecipes) + 1)
          /\ subRecipes'[Len(subRecipes) + 1] = entry
          /\ \A i \in DOMAIN subRecipes : subRecipes'[i] = subRecipes[i]
      BY <3>2, <3>3
    <3>5. \A i \in DOMAIN subRecipes' : i \in DOMAIN subRecipes \/ i = Len(subRecipes) + 1
      BY <3>3, <3>4
    <3>6. \A i \in DOMAIN subRecipes : subRecipes[i] # entry
      BY <2>3, <3>1, Entered
    <3>7. \A i, j \in DOMAIN subRecipes' : subRecipes'[i] = subRecipes'[j] => i = j
      BY <3>4, <3>5, <3>6 DEF RegisteredHasFile
    <3>8. ASSUME NEW k, NEW n \in NamesOf(k)' PROVE n \in NamesOf(k) \/ n = job.name
      <4>1. PICK i \in DOMAIN subRecipes' : subRecipes'[i].kind = k /\ subRecipes'[i].name = n
        BY <3>8 DEF NamesOf
      <4> QED BY <4>1, <3>1, <3>4, <3>5, Entered
    <3>9. RegisteredHasFile'
      BY <1>1, <2>3, <3>7, <3>8 DEF RegisteredHasFile
    <3> QED BY <2>3, <3>4, <3>9 DEF FactoryTypes
  <2> QED BY <2>1, <2>2, <2>3 DEF AddSubRecipe
<1>4. FactoryTypes'
  BY <1>1, <1>2, <1>3 DEF FactoryTypes
<1>5. OldIsSaved' /\ WrittenFirst'
  BY <1>2 DEF OldIsSaved, WrittenFirst
<1>6. \A v \in 1..agentVersions' : Found(v)'
  BY <1>1, FoundStays
<1> QED BY <1>3, <1>4, <1>5, <1>6

(* A command that stops leaves what it has done, and perhaps one file that  *)
(* is cut off.                                                              *)
LEMMA FactoryStops == ASSUME FactoryInv, Stops PROVE FactoryInv'
<1> USE DEF FactoryInv
<1>1. job' \in Jobs /\ job'.pc = "idle" /\ UNCHANGED <<templates, clock>>
  BY NoJobIs DEF Stops
<1>2. OldIsSaved' /\ WrittenFirst'
  BY <1>1 DEF OldIsSaved, WrittenFirst
<1>3. CASE UNCHANGED <<agent, sot, subRecipes, cutOff, backedUp, agentVersions, gone>>
  <2>1. FactoryTypes' /\ RegisteredHasFile' /\ \A v \in 1..agentVersions' : Found(v)'
    BY <1>1, <1>3, RegisterStays, FoundStays DEF FactoryTypes
  <2> QED BY <1>2, <2>1
<1>4. CASE job.pc = "save" /\ CopyTo(0) /\ UNCHANGED <<agent, sot, subRecipes, cutOff, agentVersions>>
  <2>1. backedUp' \in [Seconds \X AgentNames -> Nat] /\ \A v \in 1..agentVersions' : Found(v)'
    BY <1>4, FoundAfterCopy
  <2>2. FactoryTypes' /\ RegisteredHasFile'
    BY <1>1, <1>4, <2>1, RegisterStays DEF FactoryTypes
  <2> QED BY <1>2, <2>1, <2>2
<1>5. CASE /\ job.pc = "write" /\ \E parses \in BOOLEAN : PutAgent(Broken(parses))
           /\ UNCHANGED <<sot, subRecipes, cutOff, backedUp>>
  <2>1. PICK new \in AgentFiles : new.id = agentVersions + 1 /\ PutAgent(new)
    BY <1>5, FilesAre
  <2>2. /\ agent' \in [AgentNames -> AgentFiles] /\ agentVersions' \in Nat
        /\ \A m \in AgentNames : agent[m].id # 0 => agent'[m].id # 0
        /\ \A v \in 1..agentVersions' : Found(v)'
    BY <1>5, <2>1, FactoryPut
  <2>3. FactoryTypes' /\ RegisteredHasFile'
    BY <1>1, <1>5, <2>2, RegisterStays DEF FactoryTypes
  <2> QED BY <1>2, <2>2, <2>3
<1>6. CASE /\ CutOff("sot") \/ CutOff("sub")
           /\ UNCHANGED <<agent, backedUp, agentVersions, gone>>
  <2>1. /\ sot' \subseteq AgentNames /\ subRecipes' \in Seq(Entries) /\ cutOff' \subseteq {"sot", "sub"}
        /\ RegisteredHasFile'
    BY <1>1, <1>6, RegisterCut
  <2>2. FactoryTypes' /\ \A v \in 1..agentVersions' : Found(v)'
    BY <1>1, <1>6, <2>1, FoundStays DEF FactoryTypes
  <2> QED BY <1>2, <2>1, <2>2
<1> QED BY <1>3, <1>4, <1>5, <1>6 DEF Stops

(* Scaffold: what has no back-up is known to be gone.                       *)
LEMMA FactoryScaffold == ASSUME FactoryInv, NEW n \in AgentNames, Scaffold(n) PROVE FactoryInv'
<1> USE DEF FactoryInv
<1>1. /\ UNCHANGED <<sot, subRecipes, cutOff, backedUp, job, templates, clock>>
      /\ job.pc = "idle" /\ gone' = gone \cup ({agent[n].id} \ CopiesOf(n))
  BY NoJobIs DEF Scaffold
<1>2. OldIsSaved' /\ WrittenFirst'
  BY <1>1 DEF OldIsSaved, WrittenFirst
<1>3. PICK new \in AgentFiles : new.id = agentVersions + 1 /\ Replace(n, new)
  BY FilesAre DEF Scaffold
<1>4. gone \subseteq gone' /\ agent[n].id \in gone' \cup CopiesOf(n)
  BY <1>1
<1>5. /\ agent' \in [AgentNames -> AgentFiles] /\ agentVersions' \in Nat
      /\ \A m \in AgentNames : agent[m].id # 0 => agent'[m].id # 0
      /\ \A v \in 1..agentVersions' : Found(v)'
  BY <1>1, <1>3, <1>4, FoundAfter
<1>6. FactoryTypes' /\ RegisteredHasFile'
  BY <1>1, <1>5, RegisterStays DEF FactoryTypes
<1> QED BY <1>2, <1>5, <1>6

(* CopyTemplate: only missing files are written.                            *)
LEMMA FactoryCopy == ASSUME FactoryInv, NEW n \in AgentNames, CopyTemplate(n) PROVE FactoryInv'
<1> USE DEF FactoryInv
<1>1. /\ job.pc = "enter" /\ agent[n].id = 0
      /\ UNCHANGED <<sot, subRecipes, cutOff, backedUp, templates, clock, gone>>
  BY DEF CopyTemplate
<1>2. job' \in Jobs /\ job'.pc \in {"enter", "idle"}
  BY <1>1, NoJobIs DEF CopyTemplate, FactoryTypes
<1>3. OldIsSaved' /\ WrittenFirst'
  BY <1>2 DEF OldIsSaved, WrittenFirst
<1>4. PICK new \in AgentFiles : new.id = agentVersions + 1 /\ Replace(n, new)
  <2>1. RecoveryText \in SUBSET Wanted
    BY FactoryAssumption
  <2> QED BY <2>1, FilesAre DEF CopyTemplate
<1>5. agent[n].id \in CopiesOf(n) /\ gone \subseteq gone'
  BY <1>1 DEF CopiesOf
<1>6. /\ agent' \in [AgentNames -> AgentFiles] /\ agentVersions' \in Nat
      /\ \A m \in AgentNames : agent[m].id # 0 => agent'[m].id # 0
      /\ \A v \in 1..agentVersions' : Found(v)'
  BY <1>1, <1>4, <1>5, FoundAfter
<1>7. FactoryTypes' /\ RegisteredHasFile'
  BY <1>1, <1>2, <1>6, RegisterStays DEF FactoryTypes
<1> QED BY <1>3, <1>6, <1>7

(* EnterRecovery: only missing entries are added, of agents that have a     *)
(* file or no template.                                                     *)
LEMMA FactoryRecovery == ASSUME FactoryInv, EnterRecovery PROVE FactoryInv'
<1> USE DEF FactoryInv
<1>1. /\ UNCHANGED <<agent, sot, cutOff, backedUp, templates, agentVersions, clock, gone>>
      /\ job' \in Jobs /\ job'.pc = "idle"
  BY NoJobIs DEF EnterRecovery
<1>2. OldIsSaved' /\ WrittenFirst' /\ \A v \in 1..agentVersions' : Found(v)'
  BY <1>1, FoundStays DEF OldIsSaved, WrittenFirst
<1>3. \A n \in RecoveryAgents : agent[n].id # 0 \/ n \in RecoveryAgents \ templates
  BY DEF EnterRecovery
<1>4. RecoveryAgents \subseteq AgentNames /\ IsFiniteSet(RecoveryAgents)
  BY FactoryAssumption
<1> DEFINE unlisted == RecoveryAgents \ NamesOf("mapping")
<1>5. PICK names \in [1..Cardinality(unlisted) -> unlisted] :
        /\ \A i, j \in DOMAIN names : names[i] = names[j] => i = j
        /\ subRecipes' = subRecipes \o [i \in DOMAIN names |-> [name |-> names[i], kind |-> "mapping"]]
  BY DEF EnterRecovery
<1>6. IsFiniteSet(unlisted)
  BY <1>4, FS_Subset
<1>7. PICK k \in Nat : k = Cardinality(unlisted)
  BY <1>6, FS_CardinalityType
<1>8. PICK added : added = [i \in DOMAIN names |-> [name |-> names[i], kind |-> "mapping"]]
  OBVIOUS
<1>9. /\ added \in Seq(Entries) /\ Len(added) = k /\ DOMAIN names = 1..k
      /\ \A i \in 1..k : added[i] = [name |-> names[i], kind |-> "mapping"] /\ names[i] \in unlisted
  <2>1. DOMAIN names = 1..k /\ \A i \in 1..k : names[i] \in unlisted
    BY <1>5, <1>7
  <2>2. \A i \in 1..k : [name |-> names[i], kind |-> "mapping"] \in Entries
    BY <2>1, <1>4 DEF Entries
  <2>3. added \in [1..k -> Entries] /\ \A i \in 1..k : added[i] = [name |-> names[i], kind |-> "mapping"]
    BY <1>8, <2>1, <2>2
  <2>4. added \in [1..k -> Entries] /\ k \in Nat
    BY <1>7, <2>3
  <2>5. added \in Seq(Entries) /\ Len(added) = k
    BY <2>4
  <2> QED BY <2>1, <2>3, <2>5
<1>10. subRecipes \in Seq(Entries)
  BY DEF FactoryTypes
<1>11. PICK l \in Nat : l = Len(subRecipes)
  BY <1>10
<1>12. /\ subRecipes' \in Seq(Entries) /\ DOMAIN subRecipes = 1..l /\ DOMAIN subRecipes' = 1..(l + k)
       /\ \A i \in 1..l : subRecipes'[i] = subRecipes[i]
       /\ \A i \in 1..k : subRecipes'[l + i] = added[i]
  <2>1. subRecipes' = subRecipes \o added
    BY <1>5, <1>8
  <2>2. added \in Seq(Entries) /\ Len(added) = k
    BY <1>9
  <2>3. subRecipes \o added \in Seq(Entries) /\ Len(subRecipes \o added) = l + k
    BY <2>2, <1>7, <1>10, <1>11
  <2>4. DOMAIN subRecipes = 1..l /\ DOMAIN subRecipes' = 1..(l + k)
    BY <2>1, <2>3, <1>7, <1>10, <1>11
  <2>5. \A i \in 1..l : subRecipes'[i] = subRecipes[i]
    BY <2>1, <2>2, <1>7, <1>10, <1>11
  <2>6. \A i \in 1..k : subRecipes'[l + i] = added[i]
    BY <2>1, <2>2, <1>7, <1>10, <1>11
  <2> QED BY <2>1, <2>3, <2>4, <2>5, <2>6
<1>13. \A i \in 1..(l + k) : i \in 1..l \/ \E j \in 1..k : i = l + j
  <2>1. \A i \in 1..(l + k) : i \in 1..l \/ (i - l \in 1..k /\ i = l + (i - l))
    BY <1>7, <1>11
  <2> QED BY <2>1
<1>14. FactoryTypes'
  BY <1>1, <1>12 DEF FactoryTypes
<1>15. \A i \in 1..l, j \in 1..k : subRecipes[i] # added[j]
  <2>1. ASSUME NEW i \in 1..l, NEW j \in 1..k, subRecipes[i] = added[j] PROVE FALSE
    <3>1. subRecipes[i].kind = "mapping" /\ subRecipes[i].name = names[j]
      <4>1. added[j] = [name |-> names[j], kind |-> "mapping"]
        BY <1>9
      <4> QED BY <4>1, <2>1
    <3>2. names[j] \in NamesOf("mapping")
      BY <3>1, <1>12, Entered
    <3> QED BY <3>2, <1>9
  <2> QED BY <2>1
<1>16. ASSUME NEW i \in DOMAIN subRecipes', NEW j \in DOMAIN subRecipes', subRecipes'[i] = subRecipes'[j]
       PROVE  i = j
  <2>1. CASE i \in 1..l /\ j \in 1..l
    BY <2>1, <1>12, <1>16 DEF RegisteredHasFile
  <2>2. CASE i \in 1..l /\ j \notin 1..l
    BY <2>2, <1>12, <1>13, <1>15, <1>16
  <2>3. CASE i \notin 1..l /\ j \in 1..l
    BY <2>3, <1>12, <1>13, <1>15, <1>16
  <2>4. CASE i \notin 1..l /\ j \notin 1..l
    <3>1. PICK a \in 1..k, b \in 1..k : i = l + a /\ j = l + b
      BY <2>4, <1>12, <1>13
    <3>2. added[a] = added[b]
      BY <3>1, <1>12, <1>16
    <3>3. names[a] = names[b]
      <4>1. added[a] = [name |-> names[a], kind |-> "mapping"] /\ added[b] = [name |-> names[b], kind |-> "mapping"]
        BY <1>9
      <4>2. added[a].name = names[a] /\ added[b].name = names[b]
        BY <4>1
      <4> QED BY <4>2, <3>2
    <3> QED BY <3>1, <3>3, <1>5, <1>9
  <2> QED BY <2>1, <2>2, <2>3, <2>4
<1>17. ASSUME NEW f, NEW n \in NamesOf(f)' PROVE n \in NamesOf(f) \/ n \in RecoveryAgents
  <2>1. PICK i \in DOMAIN subRecipes' : subRecipes'[i].kind = f /\ subRecipes'[i].name = n
    BY <1>17 DEF NamesOf
  <2>2. CASE i \in 1..l
    BY <2>1, <2>2, <1>12, Entered
  <2>3. CASE \E j \in 1..k : i = l + j
    <3>1. PICK j \in 1..k : i = l + j
      BY <2>3
    <3>2. subRecipes'[i] = [name |-> names[j], kind |-> "mapping"] /\ names[j] \in RecoveryAgents
      BY <3>1, <1>9, <1>12
    <3> QED BY <2>1, <3>2
  <2> QED BY <2>2, <2>3, <1>12, <1>13
<1>18. RegisteredHasFile'
  <2>1. \A n \in sot' : agent'[n].id # 0
    BY <1>1 DEF RegisteredHasFile
  <2>2. NamesOf("string")' \subseteq NamesOf("string")
    <3>1. ASSUME NEW n \in NamesOf("string")' PROVE n \in NamesOf("string")
      <4>1. PICK i \in DOMAIN subRecipes' : subRecipes'[i].kind = "string" /\ subRecipes'[i].name = n
        BY <3>1 DEF NamesOf
      <4>2. CASE i \in 1..l
        BY <4>1, <4>2, <1>12, Entered
      <4>3. CASE \E j \in 1..k : i = l + j
        <5>1. PICK j \in 1..k : i = l + j
          BY <4>3
        <5>2. subRecipes'[i] = [name |-> names[j], kind |-> "mapping"]
          BY <5>1, <1>9, <1>12
        <5> QED BY <4>1, <5>2
      <4> QED BY <4>2, <4>3, <1>12, <1>13
    <3> QED BY <3>1
  <2>3. \A n \in NamesOf("mapping")' : agent'[n].id # 0 \/ n \in RecoveryAgents \ templates'
    BY <1>1, <1>3, <1>17 DEF RegisteredHasFile
  <2> QED BY <1>1, <1>16, <2>1, <2>2, <2>3 DEF RegisteredHasFile
<1> QED BY <1>2, <1>14, <1>18

(* No version of an agent is lost but in the ways that are known, and what  *)
(* is registered has a file: ReplacedIsSaved and RegisteredHasFile of       *)
(* AgentFactory, whatever step a command dies or fails in.                  *)
THEOREM AgentsAlwaysSound == FactorySpec => []AgentsSound
<1>1. FactoryInit => FactoryInv
  BY FactoryStart
<1>2. FactoryInv /\ [FactoryNext]_factoryVars => FactoryInv'
  <2> SUFFICES ASSUME FactoryInv, [FactoryNext]_factoryVars PROVE FactoryInv'
    OBVIOUS
  <2>1. ASSUME NEW n \in AgentNames,
               BeginRefresh(n) \/ \E register \in BOOLEAN : BeginCreate(n, register)
        PROVE  FactoryInv'
    BY <2>1, FactoryBegin
  <2>2. CASE Save \/ SaveFails
    BY <2>2, FactorySave
  <2>3. CASE WriteAgent
    BY <2>3, FactoryWrite
  <2>4. CASE AddSot
    BY <2>4, FactoryAddSot
  <2>5. CASE AddSubRecipe
    BY <2>5, FactoryAddEntry
  <2>6. CASE Stops
    BY <2>6, FactoryStops
  <2>7. ASSUME NEW n \in AgentNames, Scaffold(n) \/ CopyTemplate(n) PROVE FactoryInv'
    BY <2>7, FactoryScaffold, FactoryCopy
  <2>8. CASE BeginRecovery
    BY <2>8, FactoryBeginRecovery
  <2>9. CASE EnterRecovery
    BY <2>9, FactoryRecovery
  <2>10. ASSUME UNCHANGED <<agent, sot, subRecipes, cutOff, backedUp, job, templates, agentVersions, gone>>,
                clock' \in Seconds
         PROVE  FactoryInv'
    <3>1. FactoryTypes' /\ WrittenFirst'
      BY <2>10 DEF FactoryInv, FactoryTypes, WrittenFirst
    <3>2. OldIsSaved'
      BY <2>10 DEF FactoryInv, OldIsSaved, CopiesOf
    <3>3. RegisteredHasFile' /\ \A v \in 1..agentVersions' : Found(v)'
      BY <2>10, RegisterStays, FoundStays DEF FactoryInv
    <3> QED BY <3>1, <3>2, <3>3 DEF FactoryInv
  <2>11. CASE NextSecond
    <3>1. clock' \in Seconds
      <4>1. clock \in 0..MaxSeconds /\ clock < MaxSeconds /\ clock' = clock + 1
        BY <2>11 DEF NextSecond, FactoryInv, FactoryTypes, Seconds
      <4>2. MaxSeconds \in Nat
        BY FactoryAssumption
      <4> QED BY <4>1, <4>2 DEF Seconds
    <3> QED BY <2>11, <3>1, <2>10 DEF NextSecond
  <2>12. CASE UNCHANGED factoryVars
    <3>1. clock' \in Seconds
      BY <2>12 DEF factoryVars, FactoryInv, FactoryTypes
    <3> QED BY <2>12, <3>1, <2>10 DEF factoryVars
  <2> QED
    BY <2>1, <2>2, <2>3, <2>4, <2>5, <2>6, <2>7, <2>8, <2>9, <2>11, <2>12 DEF FactoryNext
<1>3. FactoryInv => AgentsSound
  BY DEF FactoryInv, Found, ReplacedIsSaved, AgentsSound
<1> QED BY <1>1, <1>2, <1>3, PTL DEF FactorySpec

-----------------------------------------------------------------------------
(* The finding scanner.                                                     *)

ScanRecords ==
  [pc : {"idle", "stage", "report", "save", "publish"}, stage : 0..6, todo : SUBSET Defects,
   before : SUBSET Identities, mem : [Identities -> {"none", "open", "settled"}],
   found : SUBSET Defects, bound : BOOLEAN, whole : BOOLEAN, publish : BOOLEAN]

Passes(d) == SeverityOf[d] \in SeverityFilter
Scanning == scan.pc \in {"stage", "report", "save"}

\* The report names the defect, or another one that has its identity.
Seen(d) ==
  \/ d \in scan.found
  \/ useDb /\ Identity(d) \in scan.before
  \/ useDb /\ \E e \in scan.found : Identity(d) = Identity(e)

\* A defect that is not serious has the name of this identity.
Softened(i) == \E e \in Defects : ~Serious(e) /\ IdentOf[e] = i[1]

ScanTypes ==
  /\ ScannerTypeOK /\ scan \in ScanRecords
  /\ scan.pc = "idle" => scan = NoScan
  /\ scan.pc = "stage" => scan.stage \in 1..6
  /\ scan.pc = "save" => useDb

\* The database in memory knows what the saved one knew, and what was found.
Memory ==
  Scanning =>
    /\ scan.before = KnownIn(issues)
    /\ \A i \in Identities :
         scan.mem[i] # "none" <=> i \in scan.before \/ (useDb /\ \E e \in scan.found : Identity(e) = i)

\* The stages that are over have seen all their defects, the running one those
\* that are not left to do.
Progress ==
  Scanning /\ scan.whole =>
    \A d \in present : Passes(d) =>
      \A j \in 1..6 : Stages[j] = StageOf[d] /\ (scan.pc = "stage" => j <= scan.stage) =>
        Seen(d) \/ (scan.pc = "stage" /\ j = scan.stage /\ d \in scan.todo)

\* Without a change, the saved database knows all there is.
AllKnown == quiet /\ useDb => \A d \in present : Passes(d) => issues[Identity(d)] # "none"

\* What the saved database knows was sent, or is about to be.
Shipping ==
  \A i \in Identities : issues[i] # "none" =>
      \/ i \in shipped \cup missed \/ Softened(i)
      \/ scan.pc = "publish" /\ \E d \in scan.found : Serious(d) /\ Identity(d) = i

ScanInv == ScanTypes /\ Memory /\ Progress /\ AllKnown /\ SecondScanQuiet /\ Shipping

(* The stages are six, and every defect is found by one of them.            *)
LEMMA StagesAre ==
  /\ Len(Stages) = 6 /\ DOMAIN Stages = 1..6
  /\ \A d \in Defects : \E j \in 1..6 : Stages[j] = StageOf[d]
<1>1. Len(Stages) = 6 /\ DOMAIN Stages = 1..6
  BY DEF Stages
<1>2. StageOf \in [Defects -> {Stages[i] : i \in DOMAIN Stages}]
  BY ScannerAssumption
<1> QED BY <1>1, <1>2

(* An identity depends on the defect and its line.                          *)
LEMMA Identifies ==
  ASSUME NEW d \in Defects, line \in [Defects -> 0..MaxEdits]
  PROVE  Identity(d) \in Identities /\ Identity(d)[1] = IdentOf[d]
<1>1. MaxEdits \in Nat
  BY ScannerAssumption
<1>2. PICK l : l = IF StageOf[d] \in Checks THEN line[d] ELSE 0
  OBVIOUS
<1>3. l \in 0..MaxEdits
  BY <1>1, <1>2
<1>4. Identity(d) = <<IdentOf[d], l>>
  BY <1>2 DEF Identity
<1> QED BY <1>3, <1>4 DEF Identities

(* A scan moves no line, so it changes no identity.                         *)
LEMMA IdentityStays == ASSUME UNCHANGED line PROVE \A d : Identity(d)' = Identity(d)
  BY DEF Identity

(* The fields of a scan.                                                    *)
LEMMA ScanFields ==
  ASSUME NEW s \in ScanRecords
  PROVE  /\ s.pc \in {"idle", "stage", "report", "save", "publish"} /\ s.stage \in 0..6 /\ s.todo \subseteq Defects
         /\ s.before \subseteq Identities /\ s.mem \in [Identities -> {"none", "open", "settled"}]
         /\ s.found \subseteq Defects /\ s.bound \in BOOLEAN /\ s.whole \in BOOLEAN /\ s.publish \in BOOLEAN
         /\ s = [pc |-> s.pc, stage |-> s.stage, todo |-> s.todo, before |-> s.before, mem |-> s.mem,
                 found |-> s.found, bound |-> s.bound, whole |-> s.whole, publish |-> s.publish]
  BY DEF ScanRecords

(* A new pc.                                                                *)
LEMMA ScanMoves ==
  ASSUME NEW s \in ScanRecords, NEW pc \in {"idle", "stage", "report", "save", "publish"},
         NEW t, t = [s EXCEPT !.pc = pc]
  PROVE  /\ t \in ScanRecords /\ t.pc = pc /\ t.stage = s.stage /\ t.todo = s.todo /\ t.before = s.before
         /\ t.mem = s.mem /\ t.found = s.found /\ t.whole = s.whole /\ t.publish = s.publish
<1>1. t = [pc |-> pc, stage |-> s.stage, todo |-> s.todo, before |-> s.before, mem |-> s.mem,
           found |-> s.found, bound |-> s.bound, whole |-> s.whole, publish |-> s.publish]
  BY ScanFields
<1> QED BY <1>1, ScanFields DEF ScanRecords

(* The fields of a scan that is over.                                       *)
LEMMA EmptyScan ==
  /\ NoScan \in ScanRecords /\ NoScan.pc = "idle" /\ NoScan.found = {} /\ NoScan.todo = {}
  /\ NoScan = [pc |-> "idle", stage |-> 0, todo |-> {}, before |-> {}, mem |-> NoScan.mem,
               found |-> {}, bound |-> FALSE, whole |-> TRUE, publish |-> FALSE]
<1>1. PICK mem : mem = [i \in Identities |-> "none"]
  OBVIOUS
<1>2. mem \in [Identities -> {"none", "open", "settled"}]
  BY <1>1
<1>3. NoScan = [pc |-> "idle", stage |-> 0, todo |-> {}, before |-> {}, mem |-> mem,
                found |-> {}, bound |-> FALSE, whole |-> TRUE, publish |-> FALSE]
  BY <1>1 DEF NoScan
<1> QED BY <1>2, <1>3 DEF ScanRecords

(* A scan that is over, or has not begun.                                   *)
LEMMA ScanOver ==
  ASSUME ScanInv, scan' = NoScan, UNCHANGED <<present, line, edits, useDb, issues, quiet>>,
         shipped' \subseteq Identities, shipped \subseteq shipped', queued' \subseteq RequestIds,
         missed' \subseteq Identities, missed \subseteq missed',
         scan.pc = "publish" => {Identity(d) : d \in SeriousIn(scan.found)} \subseteq shipped' \cup missed'
  PROVE  ScanInv'
<1> USE EmptyScan DEF ScanInv
<1>1. ScanTypes'
  BY DEF ScanTypes, ScannerTypeOK
<1>2. Memory' /\ Progress' /\ SecondScanQuiet'
  BY DEF Memory, Progress, SecondScanQuiet, Scanning
<1>3. AllKnown'
  BY IdentityStays DEF AllKnown
<1>4. Shipping'
  <2> SUFFICES ASSUME NEW i \in Identities, issues[i] # "none"
               PROVE  i \in shipped' \cup missed' \/ Softened(i)
    BY DEF Shipping, Softened, Serious
  <2>1. \/ i \in shipped \cup missed \/ Softened(i)
        \/ scan.pc = "publish" /\ \E d \in scan.found : Serious(d) /\ Identity(d) = i
    BY DEF Shipping
  <2> QED BY <2>1 DEF SeriousIn
<1> QED BY <1>1, <1>2, <1>3, <1>4

(* At the start nothing is known.                                           *)
LEMMA ScannerStart == ASSUME ScannerInit PROVE ScanInv
<1> USE EmptyScan
<1>0. MaxEdits \in Nat
  BY ScannerAssumption
<1>1. scan = NoScan /\ quiet = FALSE /\ issues = [i \in Identities |-> "none"]
  BY DEF ScannerInit
<1>2. ScannerTypeOK
  <2>1. present \in SUBSET Defects /\ useDb \in BOOLEAN
    BY DEF ScannerInit
  <2>2. line \in [Defects -> 0..MaxEdits] /\ edits \in 0..MaxEdits
    BY <1>0 DEF ScannerInit
  <2>3. issues \in [Identities -> {"none", "open", "settled"}]
    BY <1>1
  <2>4. shipped \in SUBSET Identities /\ missed \in SUBSET Identities /\ queued \subseteq RequestIds
    BY DEF ScannerInit
  <2> QED BY <1>1, <2>1, <2>2, <2>3, <2>4 DEF ScannerTypeOK
<1>3. ScanTypes
  BY <1>1, <1>2 DEF ScanTypes
<1>4. Memory /\ Progress /\ SecondScanQuiet /\ AllKnown
  BY <1>1 DEF Memory, Progress, SecondScanQuiet, AllKnown, Scanning
<1>5. Shipping
  BY <1>1 DEF Shipping
<1> QED BY <1>3, <1>4, <1>5 DEF ScanInv

(* Between two scans.                                                       *)
LEMMA ScannerEdit == ASSUME ScanInv, NEW d \in Defects, Edit(d) PROVE ScanInv'
<1> USE DEF ScanInv
<1>1. scan' = scan /\ scan.pc = "idle" /\ quiet' = FALSE /\ UNCHANGED <<useDb, issues, queued, shipped, missed>>
  BY DEF Edit
<1>2. ScannerTypeOK /\ edits < MaxEdits /\ edits' = edits + 1
  BY DEF Edit, ScanTypes
<1>3. edits' \in 0..MaxEdits
  <2>1. MaxEdits \in Nat
    BY ScannerAssumption
  <2>2. edits \in 0..MaxEdits
    BY <1>2 DEF ScannerTypeOK
  <2> QED BY <2>1, <2>2, <1>2
<1>4. present' \in SUBSET Defects /\ line' \in [Defects -> 0..MaxEdits]
  <2>1. present \in SUBSET Defects /\ line \in [Defects -> 0..MaxEdits]
    BY <1>2 DEF ScannerTypeOK
  <2>2. CASE present' = (present \ {d}) \cup ({d} \ present) /\ line' = line
    BY <2>1, <2>2
  <2>3. CASE line' = [line EXCEPT ![d] = edits + 1] /\ present' = present
    BY <2>1, <2>3, <1>2, <1>3
  <2> QED BY <2>2, <2>3 DEF Edit
<1>5. ScanTypes'
  <2>1. scan.found = {} /\ scan.todo = {}
    BY <1>1, EmptyScan DEF ScanTypes
  <2> QED BY <2>1, <1>1, <1>2, <1>3, <1>4 DEF ScanTypes, ScannerTypeOK
<1>6. Memory' /\ Progress' /\ SecondScanQuiet' /\ AllKnown'
  BY <1>1 DEF Memory, Progress, SecondScanQuiet, AllKnown, Scanning
<1>7. Shipping'
  BY <1>1 DEF Shipping, Softened, Serious
<1> QED BY <1>5, <1>6, <1>7

(* Settle: a verdict does not make an issue unknown.                        *)
LEMMA ScannerSettle == ASSUME ScanInv, NEW i \in Identities, Settle(i) PROVE ScanInv'
<1> USE DEF ScanInv
<1>1. scan' = scan /\ scan.pc = "idle" /\ UNCHANGED <<present, line, edits, useDb, queued, shipped, quiet, missed>>
  BY DEF Settle
<1>2. issues \in [Identities -> {"none", "open", "settled"}]
  BY DEF ScanTypes, ScannerTypeOK
<1>3. /\ issues' \in [Identities -> {"none", "open", "settled"}]
      /\ \A k \in Identities : issues'[k] # "none" <=> issues[k] # "none"
  BY <1>2 DEF Settle
<1>4. ScanTypes'
  BY <1>1, <1>3 DEF ScanTypes, ScannerTypeOK
<1>5. Memory' /\ Progress' /\ SecondScanQuiet'
  BY <1>1 DEF Memory, Progress, SecondScanQuiet, Scanning
<1>6. AllKnown'
  <2> SUFFICES ASSUME quiet, useDb, NEW d \in present, Passes(d) PROVE issues'[Identity(d)] # "none"
    BY <1>1, IdentityStays DEF AllKnown, Passes
  <2>1. Identity(d) \in Identities
    BY Identifies DEF ScanTypes, ScannerTypeOK
  <2> QED BY <2>1, <1>3 DEF AllKnown
<1>7. Shipping'
  BY <1>1, <1>3 DEF Shipping, Softened, Serious
<1> QED BY <1>4, <1>5, <1>6, <1>7

(* The next step of a scan that writes nothing.                             *)
LEMMA OnlyScanned ==
  ASSUME ScanInv, UNCHANGED <<present, line, edits, useDb, issues, queued, shipped, quiet, missed>>,
         scan' \in ScanRecords, scan'.pc # "idle", scan'.pc # "publish" \/ scan.pc = "report",
         scan'.pc = "stage" => scan'.stage \in 1..6, scan'.pc = "save" => useDb,
         scan.pc # "publish", scan'.found \subseteq present, scan'.todo \subseteq present
  PROVE  ScanTypes' /\ Shipping' /\ AllKnown'
<1> USE DEF ScanInv
<1>1. ScanTypes'
  <2>1. scan'.pc \in {"idle", "stage", "report", "save", "publish"}
    BY DEF ScanRecords
  <2>2. ScannerTypeOK'
    BY <2>1 DEF ScanTypes, ScannerTypeOK
  <2> QED BY <2>2 DEF ScanTypes
<1>2. Shipping'
  BY DEF Shipping, Softened, Serious
<1>3. AllKnown'
  BY IdentityStays DEF AllKnown, Passes
<1> QED BY <1>1, <1>2, <1>3

(* StartScan: the database is loaded, the first stage has all its defects   *)
(* to do.                                                                   *)
LEMMA ScannerBegin == ASSUME ScanInv, NEW publish \in BOOLEAN, StartScan(publish) PROVE ScanInv'
<1> USE DEF ScanInv
<1>0. scan.pc = "idle" /\ UNCHANGED <<present, line, edits, useDb, issues, queued, shipped, quiet, missed>>
  BY DEF StartScan
<1>1. PICK todo : todo = Of("yaml")
  OBVIOUS
<1>2. todo \subseteq present /\ present \subseteq Defects
  BY <1>1 DEF Of, ScanTypes, ScannerTypeOK
<1>3. PICK before : before = KnownIn(issues)
  OBVIOUS
<1>4. before \subseteq Identities /\ \A i \in Identities : i \in before <=> issues[i] # "none"
  BY <1>3 DEF KnownIn
<1>5. PICK db : db = issues
  OBVIOUS
<1>6. db \in [Identities -> {"none", "open", "settled"}]
  BY <1>5 DEF ScanTypes, ScannerTypeOK
<1>7. scan' = [pc |-> "stage", stage |-> 1, todo |-> todo, before |-> before, mem |-> db,
               found |-> {}, bound |-> FALSE, whole |-> TRUE, publish |-> publish]
  <2>1. scan' = [NoScan EXCEPT !.pc = "stage", !.stage = 1, !.todo = todo, !.mem = db,
                               !.before = before, !.publish = publish]
    BY <1>1, <1>3, <1>5 DEF StartScan
  <2>2. PICK m : NoScan = [pc |-> "idle", stage |-> 0, todo |-> {}, before |-> {}, mem |-> m,
                           found |-> {}, bound |-> FALSE, whole |-> TRUE, publish |-> FALSE]
    BY EmptyScan
  <2>3. PICK s : s = [NoScan EXCEPT !.pc = "stage"]
    OBVIOUS
  <2>4. s = [pc |-> "stage", stage |-> 0, todo |-> {}, before |-> {}, mem |-> m,
             found |-> {}, bound |-> FALSE, whole |-> TRUE, publish |-> FALSE]
    BY <2>2, <2>3
  <2>5. PICK t : t = [s EXCEPT !.stage = 1, !.todo = todo]
    OBVIOUS
  <2>6. t = [pc |-> "stage", stage |-> 1, todo |-> todo, before |-> {}, mem |-> m,
             found |-> {}, bound |-> FALSE, whole |-> TRUE, publish |-> FALSE]
    BY <2>4, <2>5
  <2>7. PICK u : u = [t EXCEPT !.mem = db, !.before = before]
    OBVIOUS
  <2>8. u = [pc |-> "stage", stage |-> 1, todo |-> todo, before |-> before, mem |-> db,
             found |-> {}, bound |-> FALSE, whole |-> TRUE, publish |-> FALSE]
    BY <2>6, <2>7
  <2>9. scan' = [u EXCEPT !.publish = publish]
    BY <2>1, <2>3, <2>5, <2>7
  <2> QED BY <2>8, <2>9
<1>8. scan' \in ScanRecords /\ scan'.pc = "stage" /\ scan'.stage = 1 /\ scan'.todo = todo
      /\ scan'.before = before /\ scan'.mem = issues /\ scan'.found = {}
  BY <1>2, <1>4, <1>5, <1>6, <1>7 DEF ScanRecords
<1>9. ScanTypes' /\ Shipping' /\ AllKnown'
  BY <1>0, <1>2, <1>8, OnlyScanned
<1>10. Memory'
  BY <1>0, <1>3, <1>4, <1>8 DEF Memory, Scanning
<1>11. Progress'
  <2> SUFFICES ASSUME NEW d \in present, NEW j \in 1..6, Stages[j] = StageOf[d], j <= 1
               PROVE  d \in todo /\ j = 1
    BY <1>0, <1>8 DEF Progress, Passes
  <2>1. j = 1 /\ Stages[1] = "yaml"
    BY DEF Stages
  <2> QED BY <2>1, <1>1 DEF Of
<1>12. SecondScanQuiet'
  BY <1>8 DEF SecondScanQuiet
<1> QED BY <1>9, <1>10, <1>11, <1>12

(* Encounter: the defect is known, or is named and from then on known.      *)
LEMMA ScannerEncounter == ASSUME ScanInv, NEW d \in Defects, Encounter(d) PROVE ScanInv'
<1> USE DEF ScanInv
<1>0. scan.pc = "stage" /\ d \in scan.todo /\ UNCHANGED <<present, line, edits, useDb, issues, queued, shipped, quiet, missed>>
  BY DEF Encounter
<1>1. ScannerTypeOK /\ scan \in ScanRecords
  BY DEF ScanTypes
<1>2. scan.todo \subseteq present /\ scan.found \subseteq present /\ d \in present /\ present \subseteq Defects
      /\ line \in [Defects -> 0..MaxEdits]
  BY <1>0, <1>1 DEF ScannerTypeOK
<1>3. PICK id \in Identities : id = Identity(d)
  BY <1>2, Identifies
<1> DEFINE isKnown == useDb /\ scan.mem[id] # "none"
<1>4. PICK todo : todo = scan.todo \ {d}
  OBVIOUS
<1>5. PICK bound \in BOOLEAN : bound = (scan.bound \/ StageOf[d] # "yaml")
  OBVIOUS
<1>6. PICK found : found = IF Passes(d) /\ ~isKnown THEN scan.found \cup {d} ELSE scan.found
  OBVIOUS
<1>7. PICK mem : mem = IF Passes(d) /\ useDb /\ ~isKnown THEN [scan.mem EXCEPT ![id] = "open"] ELSE scan.mem
  OBVIOUS
<1>8. scan' = [scan EXCEPT !.todo = todo, !.bound = bound, !.found = found, !.mem = mem]
  BY <1>3, <1>4, <1>5, <1>6, <1>7 DEF Encounter, Passes
<1>9. mem \in [Identities -> {"none", "open", "settled"}]
  BY <1>1, <1>7, ScanFields
<1>10. found \subseteq present /\ todo \subseteq present
  BY <1>2, <1>4, <1>6
<1>11. /\ scan' \in ScanRecords /\ scan'.pc = scan.pc /\ scan'.stage = scan.stage /\ scan'.todo = todo
       /\ scan'.before = scan.before /\ scan'.mem = mem /\ scan'.found = found /\ scan'.whole = scan.whole
  <2>1. scan' = [pc |-> scan.pc, stage |-> scan.stage, todo |-> todo, before |-> scan.before, mem |-> mem,
                 found |-> found, bound |-> bound, whole |-> scan.whole, publish |-> scan.publish]
    <3>1. scan = [pc |-> scan.pc, stage |-> scan.stage, todo |-> scan.todo, before |-> scan.before, mem |-> scan.mem,
                  found |-> scan.found, bound |-> scan.bound, whole |-> scan.whole, publish |-> scan.publish]
      BY <1>1, ScanFields
    <3>2. PICK s : s = [scan EXCEPT !.todo = todo, !.bound = bound]
      OBVIOUS
    <3>3. s = [pc |-> scan.pc, stage |-> scan.stage, todo |-> todo, before |-> scan.before, mem |-> scan.mem,
               found |-> scan.found, bound |-> bound, whole |-> scan.whole, publish |-> scan.publish]
      BY <3>1, <3>2
    <3>4. scan' = [s EXCEPT !.found = found, !.mem = mem]
      BY <1>8, <3>2
    <3> QED BY <3>3, <3>4
  <2> QED BY <2>1, <1>1, <1>2, <1>9, <1>10, ScanFields DEF ScanRecords
<1>12. ScanTypes' /\ Shipping' /\ AllKnown'
  BY <1>0, <1>10, <1>11, OnlyScanned DEF ScanTypes
<1>13. /\ scan.before = KnownIn(issues)
       /\ \A i \in Identities :
            scan.mem[i] # "none" <=> i \in scan.before \/ (useDb /\ \E e \in scan.found : Identity(e) = i)
  BY <1>0 DEF Memory, Scanning
<1>14. Memory'
  <2> SUFFICES ASSUME NEW i \in Identities
               PROVE  mem[i] # "none" <=> i \in scan.before \/ (useDb /\ \E e \in found : Identity(e) = i)
    BY <1>0, <1>11, <1>13, IdentityStays DEF Memory, KnownIn
  <2>1. CASE Passes(d) /\ useDb /\ ~isKnown
    <3>1. mem = [scan.mem EXCEPT ![id] = "open"] /\ found = scan.found \cup {d}
      BY <2>1, <1>6, <1>7
    <3>2. scan.mem \in [Identities -> {"none", "open", "settled"}]
      BY <1>1, ScanFields
    <3>3. mem[i] # "none" <=> i = id \/ scan.mem[i] # "none"
      BY <3>1, <3>2
    <3> QED BY <3>1, <3>3, <2>1, <1>3, <1>13
  <2>2. CASE ~(Passes(d) /\ useDb /\ ~isKnown)
    <3>1. mem = scan.mem /\ (useDb => found = scan.found)
      BY <2>2, <1>6, <1>7
    <3> QED BY <3>1, <1>13
  <2> QED BY <2>1, <2>2
<1>15. \A e : Seen(e) => Seen(e)'
  BY <1>0, <1>6, <1>11, IdentityStays DEF Seen
<1>16. Passes(d) => Seen(d)'
  <2>1. CASE Passes(d) /\ ~isKnown
    BY <2>1, <1>6, <1>11 DEF Seen
  <2>2. CASE isKnown
    <3>1. id \in scan.before \/ \E e \in scan.found : Identity(e) = id
      BY <2>2, <1>13
    <3>2. Seen(d)
      BY <2>2, <3>1, <1>3 DEF Seen
    <3> QED BY <3>2, <1>15
  <2> QED BY <2>1, <2>2
<1>17. Progress'
  <2> SUFFICES ASSUME scan.whole, NEW e \in present, Passes(e), NEW j \in 1..6, Stages[j] = StageOf[e],
                      j <= scan.stage
               PROVE  Seen(e)' \/ (j = scan.stage /\ e \in todo)
    BY <1>0, <1>11 DEF Progress, Passes
  <2>1. Seen(e) \/ (j = scan.stage /\ e \in scan.todo)
    BY <1>0 DEF Progress, Scanning
  <2>2. CASE e = d
    BY <2>2, <1>16
  <2>3. CASE e # d
    BY <2>1, <2>3, <1>4, <1>15
  <2> QED BY <2>2, <2>3
<1>18. SecondScanQuiet'
  <2> SUFFICES ASSUME useDb, quiet PROVE found = {}
    BY <1>0, <1>11 DEF SecondScanQuiet
  <2>1. scan.found = {}
    BY <1>0 DEF SecondScanQuiet
  <2>2. Passes(d) => issues[id] # "none"
    BY <1>2, <1>3 DEF AllKnown
  <2>3. Passes(d) => isKnown
    BY <2>2, <1>13 DEF KnownIn
  <2> QED BY <2>1, <2>3, <1>6
<1> QED BY <1>12, <1>14, <1>17, <1>18

(* NextStage: the stage that is over has nothing left to do, and one that   *)
(* is skipped although it had something makes the scan no whole one.        *)
LEMMA ScannerNextStage == ASSUME ScanInv, NextStage PROVE ScanInv'
<1> USE DEF ScanInv
<1>0. scan.pc = "stage" /\ scan.todo = {} /\ UNCHANGED <<present, line, edits, useDb, issues, queued, shipped, quiet, missed>>
  BY DEF NextStage
<1>1. ScannerTypeOK /\ scan \in ScanRecords /\ scan.stage \in 1..6
  BY <1>0 DEF ScanTypes
<1>2. scan.found \subseteq present /\ present \subseteq Defects
  BY <1>1 DEF ScannerTypeOK
<1>3. PICK s \in Int : s = scan.stage + 1
  BY <1>1
<1>4. SecondScanQuiet /\ Memory
  OBVIOUS
<1>5. CASE s > 6
  <2>1. scan' = [scan EXCEPT !.pc = "report"]
    BY <1>3, <1>5, StagesAre DEF NextStage
  <2>2. /\ scan' \in ScanRecords /\ scan'.pc = "report" /\ scan'.todo = scan.todo /\ scan'.before = scan.before
        /\ scan'.mem = scan.mem /\ scan'.found = scan.found /\ scan'.whole = scan.whole
    BY <2>1, <1>1, ScanMoves
  <2>3. ScanTypes' /\ Shipping' /\ AllKnown'
    BY <1>0, <1>2, <2>2, OnlyScanned
  <2>4. Memory'
    BY <1>0, <1>4, <2>2, IdentityStays DEF Memory, Scanning, KnownIn
  <2>5. \A e : Seen(e) => Seen(e)'
    BY <1>0, <2>2, IdentityStays DEF Seen
  <2>6. Progress'
    <3> SUFFICES ASSUME scan.whole, NEW e \in present, Passes(e), NEW j \in 1..6, Stages[j] = StageOf[e]
                 PROVE  Seen(e)
      BY <1>0, <2>2, <2>5 DEF Progress, Passes
    <3>1. j <= scan.stage
      BY <1>1, <1>3, <1>5
    <3> QED BY <3>1, <1>0 DEF Progress, Scanning
  <2>7. SecondScanQuiet'
    BY <1>0, <1>4, <2>2 DEF SecondScanQuiet
  <2> QED BY <2>3, <2>4, <2>6, <2>7
<1>6. CASE ~(s > 6)
  <2>1. s \in 1..6
    BY <1>1, <1>3, <1>6
  <2>2. PICK bound \in BOOLEAN : bound = (scan.bound \/ Stages[s] \in Checks)
    OBVIOUS
  <2>3. PICK todo : todo = IF Skipped(s) THEN {} ELSE Of(Stages[s])
    OBVIOUS
  <2>4. PICK whole \in BOOLEAN : whole = (scan.whole /\ ~(Skipped(s) /\ Of(Stages[s]) # {}))
    OBVIOUS
  <2>5. scan' = [scan EXCEPT !.stage = s, !.bound = bound, !.todo = todo, !.whole = whole]
    BY <1>3, <1>6, <2>2, <2>3, <2>4, StagesAre DEF NextStage
  <2>6. todo \subseteq present
    BY <2>3 DEF Of
  <2>7. /\ scan' \in ScanRecords /\ scan'.pc = scan.pc /\ scan'.stage = s /\ scan'.todo = todo
        /\ scan'.before = scan.before /\ scan'.mem = scan.mem /\ scan'.found = scan.found /\ scan'.whole = whole
    <3>1. scan = [pc |-> scan.pc, stage |-> scan.stage, todo |-> scan.todo, before |-> scan.before, mem |-> scan.mem,
                  found |-> scan.found, bound |-> scan.bound, whole |-> scan.whole, publish |-> scan.publish]
      BY <1>1, ScanFields
    <3>2. PICK t : t = [scan EXCEPT !.stage = s, !.bound = bound]
      OBVIOUS
    <3>3. t = [pc |-> scan.pc, stage |-> s, todo |-> scan.todo, before |-> scan.before, mem |-> scan.mem,
               found |-> scan.found, bound |-> bound, whole |-> scan.whole, publish |-> scan.publish]
      BY <3>1, <3>2
    <3>4. scan' = [t EXCEPT !.todo = todo, !.whole = whole]
      BY <2>5, <3>2
    <3>5. scan' = [pc |-> scan.pc, stage |-> s, todo |-> todo, before |-> scan.before, mem |-> scan.mem,
                   found |-> scan.found, bound |-> bound, whole |-> whole, publish |-> scan.publish]
      BY <3>3, <3>4
    <3>6. s \in 0..6 /\ todo \subseteq Defects
      BY <2>1, <2>6, <1>2
    <3> QED BY <3>5, <3>6, <1>1, ScanFields DEF ScanRecords
  <2>8. ScanTypes' /\ Shipping' /\ AllKnown'
    BY <1>0, <1>2, <2>1, <2>6, <2>7, OnlyScanned
  <2>9. Memory'
    BY <1>0, <1>4, <2>7, IdentityStays DEF Memory, Scanning, KnownIn
  <2>10. \A e : Seen(e) => Seen(e)'
    BY <1>0, <2>7, IdentityStays DEF Seen
  <2>11. Progress'
    <3> SUFFICES ASSUME whole, NEW e \in present, Passes(e), NEW j \in 1..6, Stages[j] = StageOf[e], j <= s
                 PROVE  Seen(e) \/ (j = s /\ e \in todo)
      BY <1>0, <2>7, <2>10 DEF Progress, Passes
    <3>1. CASE j = s
      <4>1. e \in Of(Stages[s])
        BY <3>1 DEF Of
      <4> QED BY <3>1, <4>1, <2>3, <2>4
    <3>2. CASE j # s
      <4>1. j <= scan.stage
        BY <3>2, <1>1, <1>3
      <4> QED BY <4>1, <1>0, <2>4 DEF Progress, Scanning
    <3> QED BY <3>1, <3>2
  <2>12. SecondScanQuiet'
    BY <1>0, <1>4, <2>7 DEF SecondScanQuiet
  <2> QED BY <2>8, <2>9, <2>11, <2>12
<1> QED BY <1>5, <1>6

(* StageRaises: a check that raises makes the scan no whole one, another    *)
(* stage ends it.                                                           *)
LEMMA ScannerRaises == ASSUME ScanInv, StageRaises PROVE ScanInv'
<1> USE DEF ScanInv
<1>0. scan.pc = "stage" /\ UNCHANGED <<present, line, edits, useDb, issues, queued, shipped, quiet, missed>>
  BY DEF StageRaises
<1>1. ScannerTypeOK /\ scan \in ScanRecords /\ scan.stage \in 1..6
  BY <1>0 DEF ScanTypes
<1>2. CASE Stages[scan.stage] \in Checks
  <2>1. scan' = [scan EXCEPT !.todo = {}, !.whole = FALSE]
    BY <1>2 DEF StageRaises
  <2>2. /\ scan' \in ScanRecords /\ scan'.pc = scan.pc /\ scan'.stage = scan.stage /\ scan'.todo = {}
        /\ scan'.before = scan.before /\ scan'.mem = scan.mem /\ scan'.found = scan.found /\ scan'.whole = FALSE
    <3>1. scan' = [pc |-> scan.pc, stage |-> scan.stage, todo |-> {}, before |-> scan.before, mem |-> scan.mem,
                   found |-> scan.found, bound |-> scan.bound, whole |-> FALSE, publish |-> scan.publish]
      <4>1. scan = [pc |-> scan.pc, stage |-> scan.stage, todo |-> scan.todo, before |-> scan.before,
                    mem |-> scan.mem, found |-> scan.found, bound |-> scan.bound, whole |-> scan.whole,
                    publish |-> scan.publish]
        BY <1>1, ScanFields
      <4> QED BY <2>1, <4>1
    <3> QED BY <3>1, <1>1, ScanFields DEF ScanRecords
  <2>3. scan.found \subseteq present
    BY <1>1 DEF ScannerTypeOK
  <2>4. ScanTypes' /\ Shipping' /\ AllKnown'
    BY <1>0, <1>1, <2>2, <2>3, OnlyScanned
  <2>5. Memory'
    BY <1>0, <2>2, IdentityStays DEF Memory, Scanning, KnownIn
  <2>6. Progress'
    BY <2>2 DEF Progress
  <2>7. SecondScanQuiet'
    BY <1>0, <2>2 DEF SecondScanQuiet
  <2> QED BY <2>4, <2>5, <2>6, <2>7
<1>3. CASE Stages[scan.stage] \notin Checks
  <2>1. scan' = NoScan
    BY <1>3 DEF StageRaises
  <2>2. shipped \subseteq Identities /\ missed \subseteq Identities /\ queued \subseteq RequestIds
    BY <1>1 DEF ScannerTypeOK
  <2> QED BY <1>0, <2>1, <2>2, ScanOver
<1> QED BY <1>2, <1>3

(* Report: all stages are over.                                             *)
LEMMA ScannerReport == ASSUME ScanInv, Report PROVE ScanInv'
<1> USE DEF ScanInv
<1>0. scan.pc = "report" /\ UNCHANGED <<present, line, edits, useDb, issues, queued, shipped, quiet, missed>>
  BY DEF Report
<1>1. ScannerTypeOK /\ scan \in ScanRecords
  BY DEF ScanTypes
<1>2. PICK pc : pc = IF useDb THEN "save" ELSE "publish"
  OBVIOUS
<1>3. /\ scan' \in ScanRecords /\ scan'.pc = pc /\ scan'.todo = scan.todo /\ scan'.before = scan.before
      /\ scan'.mem = scan.mem /\ scan'.found = scan.found /\ scan'.whole = scan.whole
  <2>1. scan' = [scan EXCEPT !.pc = pc]
    BY <1>2 DEF Report
  <2>2. pc \in {"idle", "stage", "report", "save", "publish"}
    BY <1>2
  <2> QED BY <2>1, <2>2, <1>1, ScanMoves
<1>4. scan.found \subseteq present /\ scan.todo \subseteq present
  BY <1>1 DEF ScannerTypeOK
<1>5. ScanTypes' /\ Shipping' /\ AllKnown'
  BY <1>0, <1>2, <1>3, <1>4, OnlyScanned
<1>6. Memory'
  BY <1>0, <1>3, IdentityStays DEF Memory, Scanning, KnownIn
<1>7. \A e : Seen(e) => Seen(e)'
  BY <1>0, <1>3, IdentityStays DEF Seen
<1>8. Progress'
  <2> SUFFICES ASSUME scan.whole, NEW e \in present, Passes(e), NEW j \in 1..6, Stages[j] = StageOf[e]
               PROVE  Seen(e)
    BY <1>0, <1>3, <1>7 DEF Progress, Passes
  <2> QED BY <1>0 DEF Progress, Scanning
<1>9. SecondScanQuiet'
  BY <1>0, <1>3 DEF SecondScanQuiet
<1> QED BY <1>5, <1>6, <1>8, <1>9

(* When all stages are over a whole scan has seen all there is.             *)
LEMMA WholeHasSeen ==
  ASSUME ScanInv, scan.pc \in {"report", "save"}, scan.whole, NEW d \in present, Passes(d)
  PROVE  Seen(d)
<1>1. d \in Defects
  BY DEF ScanInv, ScanTypes, ScannerTypeOK
<1>2. PICK j \in 1..6 : Stages[j] = StageOf[d]
  BY <1>1, StagesAre
<1> QED BY <1>2 DEF ScanInv, Progress, Scanning

(* SaveIssues: what is known from now on is about to be sent.               *)
LEMMA ScannerSave == ASSUME ScanInv, SaveIssues PROVE ScanInv'
<1> USE DEF ScanInv
<1>0. scan.pc = "save" /\ issues' = scan.mem /\ quiet' = scan.whole
      /\ UNCHANGED <<present, line, edits, useDb, queued, shipped, missed>>
  BY DEF SaveIssues
<1>1. ScannerTypeOK /\ scan \in ScanRecords /\ useDb
  BY <1>0 DEF ScanTypes
<1>2. /\ scan' \in ScanRecords /\ scan'.pc = "publish" /\ scan'.todo = scan.todo /\ scan'.found = scan.found
  <2>1. scan' = [scan EXCEPT !.pc = "publish"]
    BY DEF SaveIssues
  <2> QED BY <2>1, <1>1, ScanMoves
<1>3. ScanTypes'
  <2>1. scan.mem \in [Identities -> {"none", "open", "settled"}]
    BY <1>1, ScanFields
  <2> QED BY <2>1, <1>0, <1>1, <1>2 DEF ScanTypes, ScannerTypeOK
<1>4. Memory' /\ Progress' /\ SecondScanQuiet'
  BY <1>2 DEF Memory, Progress, SecondScanQuiet, Scanning
<1>5. /\ scan.before = KnownIn(issues)
      /\ \A i \in Identities :
           scan.mem[i] # "none" <=> i \in scan.before \/ (useDb /\ \E e \in scan.found : Identity(e) = i)
  BY <1>0 DEF Memory, Scanning
<1>6. \A e \in Defects : Identity(e) \in Identities /\ Identity(e)[1] = IdentOf[e]
  BY <1>1, Identifies DEF ScannerTypeOK
<1>7. present \subseteq Defects /\ scan.found \subseteq Defects
  BY <1>1 DEF ScannerTypeOK
<1>8. AllKnown'
  <2> SUFFICES ASSUME scan.whole, NEW d \in present, Passes(d) PROVE scan.mem[Identity(d)] # "none"
    BY <1>0, IdentityStays DEF AllKnown, Passes
  <2>1. Seen(d)
    BY <1>0, WholeHasSeen
  <2> QED BY <2>1, <1>1, <1>5, <1>6, <1>7 DEF Seen
<1>9. Shipping'
  <2> SUFFICES ASSUME NEW i \in Identities, scan.mem[i] # "none"
               PROVE  i \in shipped \cup missed \/ Softened(i) \/ \E d \in scan.found : Serious(d) /\ Identity(d) = i
    BY <1>0, <1>2, IdentityStays DEF Shipping, Softened, Serious
  <2>1. CASE i \in scan.before
    BY <2>1, <1>0, <1>5 DEF Shipping, KnownIn
  <2>2. CASE \E e \in scan.found : Identity(e) = i
    BY <2>2, <1>6, <1>7 DEF Softened
  <2> QED BY <2>1, <2>2, <1>5
<1> QED BY <1>3, <1>4, <1>8, <1>9

(* Publish: what is serious is in a message that the queue takes, or is     *)
(* missed.                                                                  *)
LEMMA ScannerPublish == ASSUME ScanInv, Publish PROVE ScanInv'
<1> USE DEF ScanInv
<1>0. scan.pc = "publish" /\ scan' = NoScan /\ UNCHANGED <<present, line, edits, useDb, issues, quiet>>
  BY DEF Publish
<1>1. shipped \subseteq Identities /\ missed \subseteq Identities /\ queued \subseteq RequestIds
      /\ scan.found \subseteq Defects /\ line \in [Defects -> 0..MaxEdits]
  BY DEF ScanTypes, ScannerTypeOK
<1>2. PICK all : all = SeriousIn(scan.found)
  OBVIOUS
<1>3. all \subseteq Defects /\ \A d \in all : Identity(d) \in Identities
  BY <1>1, <1>2, Identifies DEF SeriousIn
<1>4. CASE Missing(all) /\ UNCHANGED <<queued, shipped>>
  <2>1. missed' = missed \cup {Identity(d) : d \in all}
    BY <1>4 DEF Missing
  <2>2. missed' \subseteq Identities
    BY <1>1, <1>3, <2>1
  <2> QED BY <1>0, <1>1, <1>2, <1>4, <2>1, <2>2, ScanOver
<1>5. ASSUME NEW r \in RequestIds, NEW message \in Top(scan.found), Ships(r, message), Missing(all \ message)
      PROVE  ScanInv'
  <2>1. message \subseteq all
    BY <1>2 DEF Top, kSubset
  <2>2. /\ shipped' = shipped \cup {Identity(d) : d \in message} /\ queued' = queued \cup {r}
        /\ missed' = missed \cup {Identity(d) : d \in all \ message}
    BY <1>5 DEF Ships, Missing
  <2>3. shipped' \subseteq Identities /\ missed' \subseteq Identities /\ queued' \subseteq RequestIds
    BY <1>1, <1>3, <2>1, <2>2
  <2>4. {Identity(d) : d \in all} \subseteq shipped' \cup missed'
    BY <2>2
  <2> QED BY <1>0, <1>2, <2>2, <2>3, <2>4, ScanOver
<1> QED BY <1>2, <1>4, <1>5 DEF Publish

(* ScanDies: a death before the save leaves nothing behind, one after it    *)
(* leaves known issues unsent, which is one of the causes.                  *)
LEMMA ScannerDies == ASSUME ScanInv, ScanDies PROVE ScanInv'
<1> USE DEF ScanInv
<1>0. scan' = NoScan /\ UNCHANGED <<present, line, edits, useDb, issues, queued, shipped, quiet>>
  BY DEF ScanDies
<1>1. shipped \subseteq Identities /\ missed \subseteq Identities /\ queued \subseteq RequestIds
      /\ scan.found \subseteq Defects /\ line \in [Defects -> 0..MaxEdits]
  BY DEF ScanTypes, ScannerTypeOK
<1>2. PICK all : all = IF scan.pc = "publish" THEN SeriousIn(scan.found) ELSE {}
  OBVIOUS
<1>3. all \subseteq Defects /\ \A d \in all : Identity(d) \in Identities
  BY <1>1, <1>2, Identifies DEF SeriousIn
<1>4. missed' = missed \cup {Identity(d) : d \in all}
  BY <1>2 DEF ScanDies, Missing
<1>5. missed' \subseteq Identities
  BY <1>1, <1>3, <1>4
<1>6. scan.pc = "publish" => {Identity(d) : d \in SeriousIn(scan.found)} \subseteq shipped' \cup missed'
  BY <1>2, <1>4
<1> QED BY <1>0, <1>1, <1>4, <1>5, <1>6, ScanOver

(* A message that is done with concerns no scan.                            *)
LEMMA ScannerConsume == ASSUME ScanInv, NEW r \in RequestIds, Consume(r) PROVE ScanInv'
<1> USE DEF ScanInv
<1>0. queued' \subseteq queued /\ UNCHANGED <<present, line, edits, useDb, issues, scan, shipped, quiet, missed>>
  BY DEF Consume
<1>1. ScanTypes'
  BY <1>0 DEF ScanTypes, ScannerTypeOK
<1>2. Memory'
  BY <1>0, IdentityStays DEF Memory, Scanning, KnownIn
<1>3. Progress'
  BY <1>0, IdentityStays DEF Progress, Scanning, Seen, Passes
<1>4. AllKnown' /\ SecondScanQuiet'
  BY <1>0, IdentityStays DEF AllKnown, SecondScanQuiet, Passes
<1>5. Shipping'
  BY <1>0, IdentityStays DEF Shipping, Softened, Serious
<1> QED BY <1>1, <1>2, <1>3, <1>4, <1>5

(* A whole scan reports all there is, the next one is quiet if nothing      *)
(* changed, and what is known and serious was sent or is missing for one of *)
(* five causes: ScannerSound of Scanner, with a death before every step.    *)
THEOREM ScansAlwaysSound == ScannerSpec => []ScannerSound
<1>1. ScannerInit => ScanInv
  BY ScannerStart
<1>2. ScanInv /\ [ScannerNext]_scannerVars => ScanInv'
  <2> SUFFICES ASSUME ScanInv, [ScannerNext]_scannerVars PROVE ScanInv'
    OBVIOUS
  <2>1. ASSUME NEW d \in Defects, Edit(d) \/ Encounter(d) PROVE ScanInv'
    BY <2>1, ScannerEdit, ScannerEncounter
  <2>2. ASSUME NEW i \in Identities, Settle(i) PROVE ScanInv'
    BY <2>2, ScannerSettle
  <2>3. ASSUME NEW publish \in BOOLEAN, StartScan(publish) PROVE ScanInv'
    BY <2>3, ScannerBegin
  <2>11. ASSUME NEW r \in RequestIds, Consume(r) PROVE ScanInv'
    BY <2>11, ScannerConsume
  <2>4. CASE NextStage
    BY <2>4, ScannerNextStage
  <2>5. CASE StageRaises
    BY <2>5, ScannerRaises
  <2>6. CASE Report
    BY <2>6, ScannerReport
  <2>7. CASE SaveIssues
    BY <2>7, ScannerSave
  <2>8. CASE Publish
    BY <2>8, ScannerPublish
  <2>9. CASE ScanDies
    BY <2>9, ScannerDies
  <2>10. CASE UNCHANGED scannerVars
    <3> USE <2>10 DEF scannerVars, ScanInv
    <3>1. ScanTypes'
      BY DEF ScanTypes, ScannerTypeOK
    <3>2. Memory'
      BY IdentityStays DEF Memory, Scanning, KnownIn
    <3>3. Progress'
      BY IdentityStays DEF Progress, Scanning, Seen, Passes
    <3>4. AllKnown' /\ SecondScanQuiet'
      BY IdentityStays DEF AllKnown, SecondScanQuiet, Passes
    <3>5. Shipping'
      BY IdentityStays DEF Shipping, Softened, Serious
    <3> QED BY <3>1, <3>2, <3>3, <3>4, <3>5
  <2> QED BY <2>1, <2>2, <2>3, <2>4, <2>5, <2>6, <2>7, <2>8, <2>9, <2>10, <2>11 DEF ScannerNext
<1>3. ScanInv => ScannerSound
  <2> SUFFICES ASSUME ScanInv PROVE ScannerSound
    OBVIOUS
  <2>1. ReportComplete
    <3> SUFFICES ASSUME scan.pc = "report", scan.whole, NEW d \in present, Passes(d)
                 PROVE  \/ d \in scan.found
                        \/ useDb /\ Identity(d) \in scan.before \cup {Identity(e) : e \in scan.found}
      BY DEF ReportComplete, Passes
    <3>1. Seen(d)
      BY WholeHasSeen
    <3> QED BY <3>1 DEF Seen
  <2>2. KnownWasSent
    <3> SUFFICES ASSUME scan.pc # "publish", NEW d \in Defects, issues[Identity(d)] # "none"
                 PROVE  \/ Identity(d) \in shipped \cup missed
                        \/ \E e \in Defects : ~Serious(e) /\ IdentOf[e] = IdentOf[d]
      BY DEF KnownWasSent
    <3>1. Identity(d) \in Identities /\ Identity(d)[1] = IdentOf[d]
      BY Identifies DEF ScanInv, ScanTypes, ScannerTypeOK
    <3> QED BY <3>1 DEF ScanInv, Shipping, Softened
  <2> QED BY <2>1, <2>2 DEF ScanInv, ScanTypes, ScannerSound
<1> QED BY <1>1, <1>2, <1>3, PTL DEF ScannerSpec

-----------------------------------------------------------------------------
(* The recipes, their findings and the fixer.                               *)

\* What a finding can be.
WordTypes == {"G2", "C1", "BB1", "C2", "K1", "K3", "L1", "L2", "O1", "U1", "V1", "II1"}
TextTypes == {"T1", "C4", "Y1", "Q4", "MM2", "MM8", "MM9", "F3", "F4", "B2", "B3"}
LimitTypes == {"A1", "A5", "A2", "A2-EXT", "Q3", "Q3-STEPS", "D3", "D1", "E1", "NN1", "NN2", "NN3"}
FormTypes == {"MM1", "MM3", "MM4", "MM5", "MM6", "MM7", "H1", "Q1", "JJ1", "N2"}
OtherTypes == WordTypes \cup TextTypes \cup LimitTypes \cup FormTypes

(* The findings for a word that the instructions lack.                      *)
LEMMA Worded == UNION {Wants[w] : w \in DOMAIN Wants} = WordTypes
<1>1. DOMAIN Wants = {"mode", "stop", "step", "try", "retry", "clean", "log", "output", "undo", "valid", "format"}
  BY DEF Wants
<1>2. /\ Wants["mode"] = {"G2"} /\ Wants["stop"] = {"C1", "BB1"} /\ Wants["step"] = {"C2"} /\ Wants["try"] = {"K1"}
      /\ Wants["retry"] = {"K3"} /\ Wants["clean"] = {"L1"} /\ Wants["log"] = {"L2"} /\ Wants["output"] = {"O1"}
      /\ Wants["undo"] = {"U1"} /\ Wants["valid"] = {"V1"} /\ Wants["format"] = {"II1"}
  BY DEF Wants
<1>3. ASSUME NEW w \in DOMAIN Wants PROVE Wants[w] \subseteq WordTypes
  BY <1>1, <1>2 DEF WordTypes
<1>4. ASSUME NEW t \in WordTypes PROVE \E w \in DOMAIN Wants : t \in Wants[w]
  BY <1>1, <1>2 DEF WordTypes
<1> QED BY <1>3, <1>4

(* Only a recipe that does not parse has the finding Q2, and only that one. *)
LEMMA WhatIsFound ==
  ASSUME NEW r
  PROVE  /\ r.shape # "broken" => Findings(r) \subseteq OtherTypes
         /\ r.shape = "broken" => Findings(r) = {"Q2"}
<1>1. Instructions(r) \subseteq OtherTypes
  <2>1. UNION {Wants[w] : w \in DOMAIN Wants \ r.says} \subseteq WordTypes
    BY Worded
  <2>2. PICK words \in SUBSET WordTypes : words = UNION {Wants[w] : w \in DOMAIN Wants \ r.says}
    BY <2>1
  <2>3. \/ Instructions(r) = {}
        \/ Instructions(r) = words \cup (IF "tmp" \in r.says THEN {"T1", "C4"} ELSE {})
             \cup If("loop" \in r.says /\ "batch" \notin r.says, "Y1") \cup If("barepath" \in r.says, "Q4")
    BY <2>2 DEF Instructions
  <2>4. words \subseteq OtherTypes /\ {"T1", "C4"} \subseteq OtherTypes /\ "Y1" \in OtherTypes /\ "Q4" \in OtherTypes
    BY <2>2 DEF OtherTypes, TextTypes
  <2>5. If("loop" \in r.says /\ "batch" \notin r.says, "Y1") \subseteq OtherTypes
        /\ If("barepath" \in r.says, "Q4") \subseteq OtherTypes
    BY <2>4 DEF If
  <2> QED BY <2>3, <2>4, <2>5
<1>2. Prompt(r) \subseteq OtherTypes
  BY DEF Prompt, If, OtherTypes, TextTypes
<1>3. Limits(r) \subseteq OtherTypes
  BY DEF Limits, If, OtherTypes, LimitTypes
<1>4. Structure(r) \subseteq OtherTypes
  BY DEF Structure, If, OtherTypes, FormTypes, LimitTypes
<1>5. Split(r) \subseteq OtherTypes
  BY DEF Split, If, OtherTypes, LimitTypes
<1>6. Special(r) \subseteq OtherTypes
  BY DEF Special, If, OtherTypes, LimitTypes
<1>7. CASE r.shape = "broken"
  BY <1>7 DEF Findings, Unreadable, If
<1>8. CASE r.shape = "empty"
  BY <1>8 DEF Findings
<1>9. CASE r.shape \notin {"broken", "empty"}
  BY <1>1, <1>2, <1>3, <1>4, <1>5, <1>6, <1>9 DEF Findings
<1> QED BY <1>7, <1>8, <1>9

\* A finding of this type of the file was in a report.
HeardOf(f, t) == \E issue \in heard[f] : issue.type = t

RepairInv ==
  /\ DOMAIN recipe = RecipeFiles /\ fresh \subseteq RecipeFiles
  /\ marks \in [RecipeFiles -> [Snippets -> {0, 1}]]
  /\ \A f \in RecipeFiles : \A t \in DOMAIN report[f] : HeardOf(f, t)
  /\ fixer.files \subseteq RecipeFiles /\ fixer.file \in RecipeFiles \cup {NoRecipe}
  /\ fixer.files # {} \/ fixer.file # NoRecipe =>
       \A f \in RecipeFiles : \A t \in DOMAIN fixer.list[f] : HeardOf(f, t)
  /\ fixer.file # NoRecipe =>
       /\ fixer.texts \in [Snippets -> {0, 1}]
       /\ \A t \in Snippets : fixer.texts[t] = 1 => HeardOf(fixer.file, t)
  /\ NothingUnheard /\ ReportIsTrue /\ TextsAnswer

(* What a recipe is found to miss and the name of an issue depend on the    *)
(* recipe alone.                                                            *)
LEMMA OfTheRecipe ==
  /\ \A r : Findings(r)' = Findings(r)
  /\ \A r, t : IssueHash(r, t)' = IssueHash(r, t) /\ IssueHash(r, t).type = t
<1>1. \A r : Findings(r)' = Findings(r)
  BY DEF Findings
<1>2. \A r, t : IssueHash(r, t)' = IssueHash(r, t) /\ IssueHash(r, t).type = t
  BY DEF IssueHash
<1>. QED BY <1>1, <1>2

(* At the start there is no report and no text was appended.                *)
LEMMA RepairStart == ASSUME RepairInit PROVE RepairInv
<1>1. /\ recipe \in [RecipeFiles -> UNION {Given[f] : f \in RecipeFiles}]
      /\ marks = [f \in RecipeFiles |-> [t \in Snippets |-> 0]]
      /\ known = [f \in RecipeFiles |-> {}] /\ report = [f \in RecipeFiles |-> [t \in {} |-> 0]]
      /\ fresh = {} /\ fixer = Asleep
  BY DEF RepairInit
<1>2. fixer.files = {} /\ fixer.file = NoRecipe
  BY <1>1 DEF Asleep, Fixer
<1>3. NothingUnheard /\ ReportIsTrue /\ TextsAnswer
  BY <1>1 DEF NothingUnheard, ReportIsTrue, TextsAnswer
<1>. QED BY <1>1, <1>2, <1>3 DEF RepairInv

(* ScanRecipes: what a scan finds is reported or held back by the filter or *)
(* by the database, which then knows only what was reported.                *)
LEMMA RepairScan ==
  ASSUME RepairInv, NEW db \in BOOLEAN, NEW low \in BOOLEAN, ScanRecipes(db, low)
  PROVE  RepairInv'
<1>1. /\ report' = [f \in RecipeFiles |-> Listed(f, db, low)] /\ options' = [db |-> db, low |-> low]
      /\ known' = [f \in RecipeFiles |-> known[f] \cup Registered(f, db, low)]
      /\ heard' = [f \in RecipeFiles |-> heard[f] \cup {IssueHash(recipe[f], t) : t \in Emitted(f, db, low)}]
      /\ fresh' = RecipeFiles /\ UNCHANGED <<recipe, marks, fixer>>
  BY DEF ScanRecipes
<1>2. \A f \in RecipeFiles : DOMAIN report'[f] = Emitted(f, db, low)
  BY <1>1 DEF Listed
<1>3. \A f \in RecipeFiles : heard[f] \subseteq heard'[f]
  BY <1>1
<1>4. \A f \in RecipeFiles : \A t : HeardOf(f, t) => HeardOf(f, t)'
  BY <1>3 DEF HeardOf
<1>5. ASSUME NEW f \in RecipeFiles, NEW t \in Emitted(f, db, low) PROVE HeardOf(f, t)'
  <2>1. IssueHash(recipe[f], t) \in heard'[f] /\ IssueHash(recipe[f], t).type = t
    BY <1>1, OfTheRecipe
  <2>. QED BY <2>1 DEF HeardOf
<1>6. ASSUME NEW f \in RecipeFiles PROVE known'[f] \subseteq heard'[f]
  <2>1. known[f] \subseteq heard[f]
    BY DEF RepairInv, NothingUnheard
  <2>2. ASSUME NEW t \in Considered(f, low), db PROVE IssueHash(recipe[f], t) \in heard'[f]
    <3>1. IssueHash(recipe[f], t) \in known[f] \/ t \in Emitted(f, db, low)
      BY DEF Emitted
    <3>. QED BY <1>1, <1>3, <2>1, <3>1
  <2>. QED BY <1>1, <1>3, <2>1, <2>2 DEF Registered
<1>7. ASSUME NEW f \in RecipeFiles, NEW t \in Findings(recipe[f])
      PROVE  \/ t \in DOMAIN report'[f]
             \/ t \in Low /\ ~options'.low
             \/ options'.db /\ IssueHash(recipe[f], t) \in known'[f]
  <2>1. options'.db = db /\ options'.low = low
    BY <1>1
  <2>2. CASE t \in Low /\ ~low
    BY <2>1, <2>2
  <2>3. CASE t \in Considered(f, low)
    BY <1>1, <1>2, <2>1, <2>3 DEF Emitted
  <2>. QED BY <2>2, <2>3 DEF Considered
<1>8. NothingUnheard'
  BY <1>1, <1>6, <1>7, OfTheRecipe DEF NothingUnheard
<1>9. ReportIsTrue'
  <2>. SUFFICES ASSUME NEW f \in RecipeFiles
                PROVE  DOMAIN report'[f] \subseteq
                         IF recipe[f].shape = "broken" THEN {"Q2"} ELSE Findings(recipe[f]) \ {"Q2"}
    BY <1>1, OfTheRecipe DEF ReportIsTrue
  <2>1. DOMAIN report'[f] \subseteq Findings(recipe[f])
    BY <1>2 DEF Emitted, Considered
  <2>2. "Q2" \notin OtherTypes
    BY DEF OtherTypes, WordTypes, TextTypes, LimitTypes, FormTypes
  <2>. QED BY <2>1, <2>2, WhatIsFound
<1>10. TextsAnswer'
  BY <1>1, <1>3 DEF RepairInv, TextsAnswer
<1>. QED BY <1>1, <1>2, <1>4, <1>5, <1>8, <1>9, <1>10 DEF RepairInv

(* Steps that change recipes and their texts, of files that are fresh no    *)
(* longer, and leave the reports alone.                                     *)
LEMMA ReportsStay ==
  ASSUME RepairInv, UNCHANGED <<known, report, options, heard>>, fresh' \subseteq fresh,
         DOMAIN recipe' = RecipeFiles, \A f \in fresh' : recipe'[f] = recipe[f]
  PROVE  /\ DOMAIN recipe' = RecipeFiles /\ fresh' \subseteq RecipeFiles
         /\ \A f \in RecipeFiles : \A t \in DOMAIN report'[f] : HeardOf(f, t)'
         /\ \A f, t : HeardOf(f, t)' <=> HeardOf(f, t)
         /\ NothingUnheard' /\ ReportIsTrue'
<1>1. \A f, t : HeardOf(f, t)' <=> HeardOf(f, t)
  BY DEF HeardOf
<1>2. NothingUnheard' /\ ReportIsTrue'
  BY OfTheRecipe DEF RepairInv, NothingUnheard, ReportIsTrue
<1>. QED BY <1>1, <1>2 DEF RepairInv

(* EditRecipe: an editor keeps the texts of a recipe or drops them.         *)
LEMMA RepairEdit == ASSUME RepairInv, NEW f \in RecipeFiles, EditRecipe(f) PROVE RepairInv'
<1>1. PICK r \in Given[f] : recipe' = [recipe EXCEPT ![f] = r]
  BY DEF EditRecipe
<1>2. /\ marks' = marks \/ marks' = [marks EXCEPT ![f] = [t \in Snippets |-> 0]]
      /\ fresh' = fresh \ {f} /\ UNCHANGED <<known, report, options, heard, fixer>>
  BY DEF EditRecipe
<1>3. DOMAIN recipe' = RecipeFiles /\ fresh' \subseteq fresh /\ \A g \in fresh' : recipe'[g] = recipe[g]
  BY <1>1, <1>2 DEF RepairInv
<1>4. marks' \in [RecipeFiles -> [Snippets -> {0, 1}]]
      /\ \A g \in RecipeFiles, t \in Snippets : marks'[g][t] \in {0, marks[g][t]}
  <2>1. marks \in [RecipeFiles -> [Snippets -> {0, 1}]] /\ [t \in Snippets |-> 0] \in [Snippets -> {0, 1}]
    BY DEF RepairInv
  <2>. QED BY <1>2, <2>1
<1>5. TextsAnswer'
  BY <1>2, <1>4 DEF RepairInv, TextsAnswer
<1>. QED BY <1>2, <1>3, <1>4, <1>5, ReportsStay DEF RepairInv

(* FixerStarts: the fixer has the report, all of which was heard.           *)
LEMMA FixerLoads == ASSUME RepairInv, NEW types, FixerStarts(types) PROVE RepairInv'
<1>1. fixer' = Fixer(RecipeFiles, report, types, NoRecipe, NoRecipe, NoRecipe)
      /\ UNCHANGED <<recipe, marks, known, report, options, fresh, heard>>
  BY DEF FixerStarts
<1>2. fixer'.files = RecipeFiles /\ fixer'.list = report /\ fixer'.file = NoRecipe
  BY <1>1 DEF Fixer
<1>3. TextsAnswer'
  BY <1>1 DEF RepairInv, TextsAnswer
<1>. QED BY <1>1, <1>2, <1>3, ReportsStay DEF RepairInv

(* FixerReads: what it reads holds texts that answer.                       *)
LEMMA FixerLooks == ASSUME RepairInv, NEW f \in RecipeFiles, FixerReads(f) PROVE RepairInv'
<1>1. /\ fixer.file = NoRecipe /\ f \in fixer.files
      /\ UNCHANGED <<recipe, marks, known, report, options, fresh, heard>>
  BY DEF FixerReads
<1>2. /\ fixer'.files = fixer.files \ {f} /\ fixer'.list = fixer.list
      /\ fixer'.file = NoRecipe \/ (fixer'.file = f /\ fixer'.texts = marks[f])
  BY DEF FixerReads, Fixer
<1>3. TextsAnswer' /\ marks[f] \in [Snippets -> {0, 1}] /\ \A t \in Snippets : marks[f][t] = 1 => HeardOf(f, t)
  BY <1>1 DEF RepairInv, TextsAnswer, HeardOf
<1>4. fixer'.file # NoRecipe => /\ fixer'.texts \in [Snippets -> {0, 1}]
                                /\ \A t \in Snippets : fixer'.texts[t] = 1 => HeardOf(fixer'.file, t)
  BY <1>2, <1>3
<1>5. \A g, t : HeardOf(g, t)' <=> HeardOf(g, t)
  BY <1>1 DEF HeardOf
<1>6. fixer'.file # NoRecipe => \A t \in Snippets : fixer'.texts[t] = 1 => HeardOf(fixer.file, t)'
  BY <1>1, <1>4, <1>5 DEF HeardOf
<1>. QED BY <1>1, <1>2, <1>3, <1>4, <1>6, ReportsStay DEF RepairInv

(* FixerWrites: a text is appended where there was none, for a finding of   *)
(* the report that was loaded.                                              *)
LEMMA FixerAppends == ASSUME RepairInv, NEW f \in RecipeFiles, FixerWrites(f) PROVE RepairInv'
<1>1. /\ fixer.file = f /\ UNCHANGED <<known, report, options, heard>>
      /\ fixer'.files = fixer.files /\ fixer'.list = fixer.list /\ fixer'.file = NoRecipe
  BY DEF FixerWrites, Fixer
<1>2. f # NoRecipe
  BY RepairAssumption
<1>3. fixer.texts \in [Snippets -> {0, 1}] /\ \A t \in Snippets : fixer.texts[t] = 1 => HeardOf(f, t)
  BY <1>1, <1>2 DEF RepairInv
<1>4. \A t \in Relevant(f) : HeardOf(f, t)
  BY <1>1, <1>2 DEF RepairInv, Relevant
<1>5. CASE UNCHANGED <<recipe, marks, fresh>>
  <2>1. TextsAnswer'
    BY <1>1, <1>5 DEF RepairInv, TextsAnswer
  <2>. QED BY <1>1, <1>5, <2>1, ReportsStay DEF RepairInv
<1>6. CASE /\ marks' = [marks EXCEPT ![f] = [t \in Snippets |-> fixer.texts[t] + Added(f, t)]]
           /\ recipe' = [recipe EXCEPT ![f] = [fixer.text EXCEPT !.shape = "broken"]]
           /\ fresh' = fresh \ {f}
  <2>1. PICK r : recipe' = [recipe EXCEPT ![f] = r]
    BY <1>6
  <2>2. DOMAIN recipe' = RecipeFiles /\ fresh' \subseteq fresh /\ \A g \in fresh' : recipe'[g] = recipe[g]
    BY <1>6, <2>1 DEF RepairInv
  <2>3. PICK texts : texts = [t \in Snippets |-> fixer.texts[t] + Added(f, t)]
    OBVIOUS
  <2>4. ASSUME NEW t \in Snippets PROVE texts[t] \in {0, 1} /\ (texts[t] = 1 => HeardOf(f, t))
    <3>1. PICK m \in {0, 1} : m = fixer.texts[t]
      BY <1>3
    <3>2. Added(f, t) \in {0, 1} /\ (m = 1 => Added(f, t) = 0) /\ (Added(f, t) = 1 => t \in Relevant(f))
      BY <3>1 DEF Added
    <3>. QED BY <1>3, <1>4, <2>3, <3>1, <3>2
  <2>5. texts \in [Snippets -> {0, 1}]
    BY <2>3, <2>4
  <2>6. marks' \in [RecipeFiles -> [Snippets -> {0, 1}]]
        /\ \A g \in RecipeFiles : marks'[g] = IF g = f THEN texts ELSE marks[g]
    <3>1. marks' = [marks EXCEPT ![f] = texts] /\ marks \in [RecipeFiles -> [Snippets -> {0, 1}]]
      BY <1>6, <2>3 DEF RepairInv
    <3>. QED BY <2>5, <3>1
  <2>7. TextsAnswer'
    <3>. SUFFICES ASSUME NEW g \in RecipeFiles, NEW t \in Snippets
                  PROVE  marks'[g][t] = 0 \/ (marks'[g][t] = 1 /\ \E issue \in heard[g] : issue.type = t)
      BY <1>1 DEF TextsAnswer
    <3>1. CASE g = f
      BY <2>4, <2>6, <3>1 DEF HeardOf
    <3>2. CASE g # f
      BY <2>6, <3>2 DEF RepairInv, TextsAnswer
    <3>. QED BY <3>1, <3>2
  <2>. QED BY <1>1, <2>2, <2>6, <2>7, ReportsStay DEF RepairInv
<1>. QED BY <1>5, <1>6 DEF FixerWrites

(* For any recipes, scans with any options, edits and runs of the fixer:    *)
(* what the filter lets through is reported, or known from a report; and a  *)
(* text is in a file at most once and answers to a reported finding.        *)
THEOREM RepairAlwaysSound == RepairSpec => []RepairSound
<1>1. RepairInit => RepairInv
  BY RepairStart
<1>2. RepairInv /\ [RepairNext]_repairVars => RepairInv'
  <2>1. RepairInv /\ UNCHANGED repairVars => RepairInv'
    <3>. SUFFICES ASSUME RepairInv, UNCHANGED repairVars PROVE RepairInv'
      OBVIOUS
    <3>1. UNCHANGED <<known, report, options, heard, recipe, marks, fresh, fixer>>
      BY DEF repairVars
    <3>2. TextsAnswer'
      BY <3>1 DEF RepairInv, TextsAnswer
    <3>. QED BY <3>1, <3>2, ReportsStay DEF RepairInv, HeardOf
  <2>. QED BY <2>1, RepairScan, RepairEdit, FixerLoads, FixerLooks, FixerAppends DEF RepairNext
<1>3. RepairInv => RepairSound
  BY DEF RepairInv, RepairSound
<1>. QED BY <1>1, <1>2, <1>3, PTL DEF RepairSpec
=============================================================================
