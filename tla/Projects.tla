------------------------------ MODULE Projects ------------------------------
(***************************************************************************)
(* The --project commands of dev_workspace.py: a registry, one directory   *)
(* per project, and the link framework/current.  A command writes them one *)
(* after the other and can be interrupted in between.                      *)
(***************************************************************************)
EXTENDS Integers, FiniteSets

CONSTANTS
  ProjectNames,   \* names a user types; "dev-team" is the basis project
  OtherDirs,      \* directories of the framework that are no projects
  MaxContents     \* bound: contents that are created

Basis == "dev-team"
ASSUME ProjectsAssumption == MaxContents \in Nat /\ Basis \in ProjectNames

VARIABLES
  registry,   \* names in .projects.yaml
  active,     \* active_project
  link,       \* what framework/current points to
  folder,     \* name -> contents of the directory; {} is no directory
  trash,      \* contents in .trash
  command,    \* the running command
  contents,   \* counter of contents
  origin      \* observation: the name of the basis project, and was a command interrupted?

projectVars == <<registry, active, link, folder, trash, command, contents, origin>>

NoLink == "none"
NoCommand == [name |-> "", to |-> "", steps |-> {}]
Idle == command.steps = {}
Places == ProjectNames \cup OtherDirs
Exists(n) == folder[n] # {}

-----------------------------------------------------------------------------
(* create: the name is looked up in the registry only, so a directory that  *)
(* is no project can become one.  A copy needs a free name; without --copy  *)
(* an existing directory with the same parts raises, others are extended.   *)
Create(n, source) ==
  /\ Idle /\ n \notin registry /\ contents < MaxContents
  /\ IF source # "" THEN Exists(source) /\ ~Exists(n) ELSE folder[n] \subseteq {0}
  /\ contents' = contents + 1
  /\ folder' = [folder EXCEPT ![n] = @ \cup {contents + 1}]
  /\ command' = [name |-> n, to |-> n, steps |-> {"add", "link"}]
  /\ UNCHANGED <<registry, active, link, trash, origin>>

Switch(n) ==
  /\ Idle /\ n \in registry
  /\ active' = n
  /\ command' = [name |-> n, to |-> n, steps |-> {"link"}]
  /\ UNCHANGED <<registry, link, folder, trash, contents, origin>>

(* Mutation: the directory is removed.                                      *)
DeleteForever(n) ==
  /\ Idle /\ n \in registry /\ n # Basis
  /\ folder' = [folder EXCEPT ![n] = {}]
  /\ command' = [name |-> n, to |-> IF active = n THEN Basis ELSE active,
                 steps |-> IF active = n THEN {"link", "remove"} ELSE {"remove"}]
  /\ UNCHANGED <<registry, active, link, trash, contents, origin>>

(* delete: the directory goes to the trash; the link and the registry       *)
(* follow.                                                                  *)
Delete(n) ==
  /\ Idle /\ n \in registry /\ n # Basis
  /\ folder' = [folder EXCEPT ![n] = {}]
  /\ trash' = trash \cup folder[n]
  /\ command' = [name |-> n, to |-> IF active = n THEN Basis ELSE active,
                 steps |-> IF active = n THEN {"link", "remove"} ELSE {"remove"}]
  /\ UNCHANGED <<registry, active, link, contents, origin>>

(* rename: any registered name, the basis project included.  A directory    *)
(* is not renamed onto one with contents: that raises.                      *)
Rename(old, new) ==
  /\ Idle /\ old \in registry /\ new \notin registry
  /\ Exists(old) => ~Exists(new)
  /\ folder' = IF Exists(old) THEN [folder EXCEPT ![new] = folder[old], ![old] = {}] ELSE folder
  /\ command' = [name |-> old, to |-> new,
                 steps |-> {"move"} \cup IF active = old THEN {"link"} ELSE {}]
  /\ UNCHANGED <<registry, active, link, trash, contents, origin>>

-----------------------------------------------------------------------------
(* create and switch save before they link, delete and rename after.        *)
SaveAdd ==
  /\ "add" \in command.steps
  /\ registry' = registry \cup {command.name} /\ active' = command.name
  /\ command' = [command EXCEPT !.steps = @ \ {"add"}]
  /\ UNCHANGED <<link, folder, trash, contents, origin>>

Link ==
  /\ "link" \in command.steps /\ "add" \notin command.steps
  /\ link' = command.to
  /\ command' = [command EXCEPT !.steps = @ \ {"link"}]
  /\ UNCHANGED <<registry, active, folder, trash, contents, origin>>

SaveRemove ==
  /\ command.steps = {"remove"}
  /\ registry' = registry \ {command.name} /\ active' = command.to
  /\ command' = NoCommand
  /\ UNCHANGED <<link, folder, trash, contents, origin>>

SaveMove ==
  /\ command.steps = {"move"}
  /\ registry' = (registry \ {command.name}) \cup {command.to}
  /\ active' = IF active = command.name THEN command.to ELSE active
  /\ origin' = [origin EXCEPT !.basis = IF @ = command.name THEN command.to ELSE @]
  /\ command' = NoCommand
  /\ UNCHANGED <<link, folder, trash, contents>>

Interrupt ==
  /\ ~Idle
  /\ command' = NoCommand /\ origin' = [origin EXCEPT !.cut = TRUE]
  /\ UNCHANGED <<registry, active, link, folder, trash, contents>>

ProjectsInit ==
  /\ registry = {Basis} /\ active = Basis /\ link = NoLink
  /\ folder = [n \in Places |-> IF n \in OtherDirs THEN {0} ELSE {}]
  /\ trash = {} /\ command = NoCommand /\ contents = 0
  /\ origin = [basis |-> Basis, cut |-> FALSE]

ProjectsNext ==
  \/ \E n \in Places, source \in Places \cup {""} : Create(n, source)
  \/ \E n \in Places : Switch(n) \/ Delete(n)
  \/ \E old \in Places, new \in ProjectNames : Rename(old, new)
  \/ SaveAdd \/ Link \/ SaveRemove \/ SaveMove
  \/ Interrupt

ProjectsSpec == ProjectsInit /\ [][ProjectsNext]_projectVars

-----------------------------------------------------------------------------
(* As long as no command was interrupted, every registered project but the  *)
(* basis has a directory, the link points to the active project, and the    *)
(* active project is registered while the basis keeps its name.             *)
ProjectsAgree ==
  Idle /\ ~origin.cut =>
    /\ \A n \in registry \ {origin.basis} : Exists(n)
    /\ link \in {NoLink, active}
    /\ origin.basis = Basis => active \in registry

(* Whatever is interrupted, the contents of a project are in a directory or *)
(* in the trash.                                                            *)
ContentsKept ==
  \A c \in 1..contents : c \in trash \cup UNION {folder[n] : n \in Places}

(* The registry, the link and the directories of the projects agree, and no *)
(* content is lost.                                                         *)
ProjectsSound == ProjectsAgree /\ ContentsKept
=============================================================================
