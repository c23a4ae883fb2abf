----------------------------- MODULE ProjectInit -----------------------------
(***************************************************************************)
(* dev_generic_init.py: --init fills the directory of a project, the files *)
(* of the chosen components included; --bootstrap makes a copy of the MAS  *)
(* of it; --repair-symlinks restores the link tools/.  All of them may be  *)
(* repeated, on a project that its user has changed meanwhile, and die.    *)
(*                                                                         *)
(* A name of the model stands for all files that are treated alike, one    *)
(* after the other.  A half file is one that was opened for writing when   *)
(* the process died: it exists, and is empty or cut off.  The template of  *)
(* an agent is taken to be in the workspace of the tool.                   *)
(***************************************************************************)
EXTENDS Integers, SequencesExt, FiniteSetsExt

CONSTANTS
  Modelled,    \* the files of the instance
  ComponentArgs,     \* values of --components
  MaxInits,    \* bound: commands
  MaxKills,    \* bound: commands that die
  MaxChanges   \* bound: changes by the user

ASSUME SetupAssumption ==
  /\ IsFiniteSet(Modelled) /\ "tools" \notin Modelled
  /\ MaxInits \in Nat /\ MaxKills \in Nat /\ MaxChanges \in Nat

(* A step writes a file of the model; files that are not in it take none.   *)
Step(f, anew, copied) ==
  IF f \in Modelled THEN <<[file |-> f, anew |-> anew, copied |-> copied]>> ELSE <<>>
Once(f) == Step(f, FALSE, FALSE)    \* an existing file is skipped
Anew(f) == Step(f, TRUE, FALSE)     \* it is overwritten
FromMAS(f) == Step(f, TRUE, TRUE)      \* by one of the MAS, if that is there

-----------------------------------------------------------------------------
(* What each function of the tool writes.                                   *)
CreateProjectConfig == Once("project.yaml")
CreateGuidelines == Once("guidelines")
CreateBpChecklist == Once("checklist")
CreateRules == Once("rules.yaml")
CreateAgentTemplate == Once("agent_template")
CreateTests == Once("tests/__init__") \o Once("tests/test_agent_syntax")
CreateWorkflows == Once("workflows.yaml")
CreateGitInfrastructure == Once(".gitignore") \o Once(".gitattributes")
\* Mutation: an existing .goosehints is written again.
GoosehintsAnew == Anew(".goosehints")

CreateGoosehints == Once(".goosehints")
CreateDashboardScaffold == Anew("dashboards")
CreateMasMode == Once(".mas-mode")
CopyRulesFull == FromMAS("rules.yaml") \o FromMAS("other_rules")
CreateStateFiles == Anew("changes.json") \o Once("audit.log") \o Anew("confirmation") \o Anew("health")
CopyKnowledgeBase == FromMAS("knowledge")
CopyConstitution == FromMAS("constitution")
CopyRecoveryTemplates == FromMAS("recovery_templates")
CopyMonitoringFiles == Anew("health")

Symlink == <<[file |-> "tools", anew |-> FALSE, copied |-> FALSE]>>
PortTools == <<[file |-> "tools", anew |-> TRUE, copied |-> TRUE]>>

Component(cs, c, files) == IF c \in cs THEN files ELSE <<>>

Initializing(cs) ==
  Symlink \o CreateProjectConfig \o CreateGuidelines \o CreateBpChecklist \o CreateRules
    \o CreateAgentTemplate \o CreateTests \o CreateWorkflows \o CreateGitInfrastructure
    \o CreateGoosehints \o CreateDashboardScaffold \o CreateMasMode
    \o Component(cs, "rules", CopyRulesFull) \o Component(cs, "state", CreateStateFiles)
    \o Component(cs, "knowledge", CopyKnowledgeBase)
    \o Component(cs, "constitution", CopyConstitution)
    \o Component(cs, "recovery", CopyRecoveryTemplates)
    \o Component(cs, "monitoring", CopyMonitoringFiles)

AllComponents == {"rules", "state", "knowledge", "constitution", "recovery", "monitoring"}

ResolveComponents(choice) ==
  CASE choice = "all" -> AllComponents
    [] choice \in {"minimal", ""} -> {}
    [] OTHER -> {choice}

(* What --bootstrap does after the --init with all components.              *)
Porting ==
  FromMAS("sub_agents") \o FromMAS("recipes") \o PortTools
    \o FromMAS("mcp") \o CopyRecoveryTemplates \o FromMAS("sub_agents") \o Anew(".mas-mode")

-----------------------------------------------------------------------------
VARIABLES
  content,    \* file -> "absent", "half", "new" or "mine": changed by the user
  tools,      \* tools/: "absent", a link to the "mas" of the command, to an
              \* "other" one, a "dangling" link, a directory "dir" with the
              \* tools, or one that lacks some or has a half one: "partial"
  installed,  \* is there a ~/.config/goose/recipes
  source,     \* is there a ~/.config/goose/mas-engineer, with its tools
  init,       \* the running command
  ported,     \* did a bootstrap end, and the user not delete its tools
  inits, kills, changes,
  replaced,   \* observation: files whose changes were overwritten
  chosen,     \* observation: components asked for so far
  stops       \* observation: why a command raised, or left tools/ partial

setupVars == <<content, tools, installed, source, init, ported, inits, kills, changes,
              replaced, chosen, stops>>

Idle == [todo |-> <<>>, for |-> "nothing", steps |-> <<>>]

\* The path to what is copied leads through ~/.config/goose/recipes.
HasSource == installed /\ source

Begin(for, steps, cs) ==
  /\ init.for = "nothing" /\ inits < MaxInits
  /\ inits' = inits + 1
  /\ init' = [todo |-> steps, for |-> for, steps |-> steps]
  /\ chosen' = chosen \cup cs
  /\ UNCHANGED <<content, tools, installed, source, ported, kills, changes, replaced, stops>>

\* Without an installation cmd_init returns before it did anything.
StartInit == \E c \in ComponentArgs :
  installed /\ Begin("init", Initializing(ResolveComponents(c)), ResolveComponents(c))

\* cmd_bootstrap does not look at the result of cmd_init: without an
\* installation it goes on to its own steps, and finds nothing to copy.
StartBootstrap ==
  Begin("bootstrap", IF installed THEN Initializing(AllComponents) \o Porting ELSE PortTools,
        AllComponents \cup {"bootstrap"})

Raise(cause) == init' = Idle /\ stops' = stops \cup {cause}

\* os.path.exists() is false for a dangling link, and os.symlink() then raises.
Link ==
  /\ init.todo # <<>> /\ Head(init.todo) = Symlink[1]
  /\ IF tools = "dangling" THEN Raise("dangling") /\ UNCHANGED tools
     ELSE /\ tools' = IF tools \in {"dir", "partial"} THEN tools ELSE "mas"
          /\ init' = [init EXCEPT !.todo = Tail(@)] /\ UNCHANGED stops
  /\ UNCHANGED <<content, installed, source, ported, inits, kills, changes, replaced, chosen>>

\* The link gives way to a directory of copies, before os.listdir() raises
\* if there is nothing to copy.  os.makedirs() raises for a dangling link.
CopyTools ==
  /\ init.todo # <<>> /\ Head(init.todo) = PortTools[1]
  /\ CASE tools = "dangling" -> Raise("dangling") /\ UNCHANGED tools
       [] tools # "dangling" /\ HasSource ->
            tools' = "dir" /\ init' = [init EXCEPT !.todo = Tail(@)] /\ UNCHANGED stops
       [] OTHER -> tools' = (IF tools = "dir" THEN "dir" ELSE "partial") /\ Raise("nothing")
  /\ UNCHANGED <<content, installed, source, ported, inits, kills, changes, replaced, chosen>>

Writes(step) ==
  (step.copied => HasSource) /\ (step.anew \/ content[step.file] = "absent")

WriteFile ==
  /\ init.todo # <<>> /\ Head(init.todo).file \in Modelled
  /\ LET s == Head(init.todo) IN
       /\ content' = IF Writes(s) THEN [content EXCEPT ![s.file] = "new"] ELSE content
       /\ replaced' = IF Writes(s) /\ content[s.file] = "mine" THEN replaced \cup {s.file} ELSE replaced
  /\ init' = [init EXCEPT !.todo = Tail(@)]
  /\ UNCHANGED <<tools, installed, source, ported, inits, kills, changes, chosen, stops>>

Done ==
  /\ init.for # "nothing" /\ init.todo = <<>>
  /\ ported' = (ported \/ init.for = "bootstrap")
  /\ init' = Idle
  /\ UNCHANGED <<content, tools, installed, source, inits, kills, changes, replaced, chosen, stops>>

\* What a death in a step on tools/ leaves: between unlink and symlink or
\* makedirs nothing, among the copies a directory that lacks some or has half
\* of one, one that a second bootstrap overwrites included.
KilledTools(step) ==
  CASE tools = "mas" /\ step = Symlink[1] -> {"mas"}
    [] tools = "other" /\ step = Symlink[1] -> {"other", "absent"}
    [] tools \in {"mas", "other"} /\ step = PortTools[1] -> {tools, "absent", "partial"}
    [] tools = "absent" /\ step = PortTools[1] -> {"absent", "partial"}
    [] tools = "dir" /\ step = PortTools[1] /\ HasSource -> {"dir", "partial"}
    [] OTHER -> {tools}

\* The process dies while it writes a file or replaces the link.
Kill ==
  /\ init.todo # <<>> /\ kills < MaxKills
  /\ kills' = kills + 1
  /\ LET s == Head(init.todo) IN
       IF s.file = "tools"
       THEN tools' \in KilledTools(s) /\ UNCHANGED <<content, replaced>>
       ELSE /\ UNCHANGED tools
            /\ Writes(s)
            /\ content' = [content EXCEPT ![s.file] = "half"]
            /\ replaced' = IF content[s.file] = "mine" THEN replaced \cup {s.file} ELSE replaced
  /\ init' = Idle
  /\ stops' = stops \cup {"killed"}
  /\ UNCHANGED <<installed, source, ported, inits, changes, chosen>>

(* --repair-symlinks is one step.  It raises for a dangling link, too.      *)
RepairSymlinks ==
  /\ init.for = "nothing" /\ inits < MaxInits
  /\ inits' = inits + 1
  /\ tools' = IF tools \in {"absent", "other"} THEN "mas" ELSE tools
  /\ stops' = IF tools = "dangling" THEN stops \cup {"dangling"} ELSE stops
  /\ UNCHANGED <<content, installed, source, init, ported, kills, changes, replaced, chosen>>

(* The user changes a file or deletes tools/; the MAS is removed, or the    *)
(* tool is run from another workspace, with or without the old one there.   *)
Change ==
  /\ init.for = "nothing" /\ changes < MaxChanges
  /\ changes' = changes + 1
  /\ \/ \E f \in Modelled : content[f] \in {"half", "new"} /\ content' = [content EXCEPT ![f] = "mine"]
        /\ UNCHANGED <<tools, installed, source, ported>>
     \/ tools \in {"dir", "partial"} /\ tools' = "absent" /\ ported' = FALSE
        /\ UNCHANGED <<content, installed, source>>
     \/ tools = "mas" /\ tools' \in {"other", "dangling"}
        /\ UNCHANGED <<content, installed, source, ported>>
     \/ installed' = ~installed /\ UNCHANGED <<content, tools, source, ported>>
     \/ source' = ~source /\ UNCHANGED <<content, tools, installed, ported>>
  /\ UNCHANGED <<init, inits, kills, replaced, chosen, stops>>

SetupInit ==
  /\ content = [f \in Modelled |-> "absent"] /\ tools = "absent" /\ installed = TRUE
  /\ source \in BOOLEAN
  /\ init = Idle /\ ported = FALSE /\ inits = 0 /\ kills = 0 /\ changes = 0
  /\ replaced = {} /\ chosen = {} /\ stops = {}

SetupNext ==
  \/ StartInit \/ StartBootstrap \/ Link \/ CopyTools \/ WriteFile \/ Done \/ Kill
  \/ RepairSymlinks \/ Change

SetupSpec == SetupInit /\ [][SetupNext]_setupVars

-----------------------------------------------------------------------------
(* However often a project is initialized, what its user changed stays, but  *)
(* for the dashboards' data and the files of components that were asked for. *)
ChangesStay ==
  \A f \in replaced :
    \/ f = "dashboards"
    \/ f = "rules.yaml" /\ "rules" \in chosen
    \/ f = ".mas-mode" /\ "bootstrap" \in chosen
    \/ f \notin {"rules.yaml", ".mas-mode"} /\ chosen # {}
       /\ f \notin {s.file : s \in ToSet(Initializing({}))}

(* What was to be written is there, and whole if it is overwritten, but     *)
(* for a file of the MAS that is not there.  A file that is skipped, for    *)
(* "exists already", may be a half one, and tools/ a directory that lacks   *)
(* some.                                                                    *)
Carried(step) ==
  IF step.file = "tools" THEN tools = "dir" \/ (~step.anew /\ tools \in {"mas", "partial"})
  ELSE (step.copied => HasSource) =>
         content[step.file] = "new" \/ (~step.anew /\ content[step.file] \in {"mine", "half"})

(* A command that ends has carried all its steps out, whatever commands and *)
(* deaths were before it; there is one half file for each death, no more.   *)
EndedIsWhole ==
  /\ init.for # "nothing" /\ init.todo = <<>> => \A s \in ToSet(init.steps) : Carried(s)
  /\ Cardinality({f \in Modelled : content[f] = "half"}) <= kills

(* A bootstrapped project keeps its own tools/, whatever is run after it,   *)
(* and its tools whole unless a command died; tools/ lacks some only after  *)
(* a bootstrap that found nothing to copy or died; and only a link that     *)
(* dangles, by a change from outside, stops an --init.                      *)
ToolsStay ==
  /\ ported => tools = "dir" \/ (tools = "partial" /\ "killed" \in stops)
  /\ tools = "partial" => stops \cap {"nothing", "killed"} # {}
  /\ "dangling" \in stops => changes > 0

(* --init keeps what the user changed, and a file that a command reports to *)
(* have written is whole.                                                   *)
InitSound == ChangesStay /\ EndedIsWhole /\ ToolsStay
=============================================================================
