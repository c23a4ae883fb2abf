---------------------------- MODULE AgentFactory ----------------------------
(***************************************************************************)
(* How agents come to be: dev_template_generator.py --create, --refresh    *)
(* and --refresh-all, and --scaffold of dev_workspace.py; and how they are *)
(* entered: the `agents` of workflows.yaml, the sub_recipes of the main    *)
(* recipe, and the recovery agents that init adds to it.                   *)
(*                                                                         *)
(* An agent file is what --refresh asks of it and the number of its        *)
(* version; number 0 is no file.  A back-up is the version that it holds;   *)
(* 0 is none, or one that is not whole.  One command runs at a time.        *)
(***************************************************************************)
EXTENDS Integers, Sequences, FiniteSets

CONSTANTS
  AgentNames, RecoveryAgents,
  Template,     \* wanted texts that the template brings into the instructions
  Sources,      \* wanted texts that the rules of workflows.yaml and the best practices bring
  RecoveryText, \* wanted texts in the templates of the recovery agents
  MaxVersions,  \* bound: versions of agent files
  MaxSeconds    \* bound: the clock of the back-up names

(* What --refresh looks for: in the instructions, and in title, description *)
(* and prompt, which a generated agent always has.                          *)
InInstructions == {"SOT", "AUTONOMIEMODUS", "mas_result", "Retry", "Edge Cases", "Tool-Inventar"}
InHeader == {"stop", "(v1.0.0)", "short", "SUB-MAS", "v1.0.0"}
Wanted == InInstructions \cup InHeader
ASSUME FactoryAssumption ==
  /\ RecoveryAgents \subseteq AgentNames /\ IsFiniteSet(RecoveryAgents) /\ "" \notin AgentNames
  /\ Template \subseteq InInstructions /\ Sources \subseteq InInstructions
  /\ RecoveryText \subseteq Wanted
  /\ MaxVersions \in Nat /\ MaxSeconds \in Nat \ {0}

VARIABLES
  agent,      \* name -> [id, says, defaults, parses]
  sot,        \* names among the `agents` of workflows.yaml
  subRecipes, \* entries of the main recipe: sequence of [name, kind]
  cutOff,     \* which of the two registers, "sot" and "sub", a failed write has cut off
  backedUp,   \* back-ups: <<second, name>> -> version, at second 0 pre_refresh_<name>.yaml
  job,        \* the running command, see Job
  templates,  \* recovery agents that this checkout has a template of
  agentVersions, clock,
  gone        \* observation: versions that were replaced in one of the known ways

factoryVars == <<agent, sot, subRecipes, cutOff, backedUp, job, templates, agentVersions, clock, gone>>

AgentFile(id, says, defaults, parses) ==
  [id |-> id, says |-> says, defaults |-> defaults, parses |-> parses]
NoFile == AgentFile(0, {}, FALSE, TRUE)

(* A source that is missing or does not parse brings nothing; the template  *)
(* is filled with what there is.  A file that was cut off may parse.        *)
Generated(brought) == AgentFile(agentVersions + 1, InHeader \cup Template \cup brought, TRUE, TRUE)
Broken(parses) == AgentFile(agentVersions + 1, {}, FALSE, parses)
NamesOf(kind) == {subRecipes[i].name : i \in {j \in DOMAIN subRecipes : subRecipes[j].kind = kind}}
CopiesOf(n) == {0} \cup {backedUp[<<s, n>>] : s \in 0..MaxSeconds}
Replace(n, new) ==
  /\ agentVersions < MaxVersions /\ agentVersions' = agentVersions + 1
  /\ agent' = [agent EXCEPT ![n] = new]

-----------------------------------------------------------------------------
(* --create and --refresh: a back-up if there is a file, named by the clock *)
(* or the one of the agent, and the file; --create goes on with the two     *)
(* registers (unless --no-sot) and the ledger of changes, which is of       *)
(* ChangeLedger.  A back-up that fails is printed or ignored, and the file  *)
(* is written all the same.                                                 *)
Job(pc, name, second, register, failed) ==
  [pc |-> pc, name |-> name, second |-> second, register |-> register, failed |-> failed]
NoJob == Job("idle", "", 0, FALSE, FALSE)
GoOn(pc) ==
  job' = IF pc = "idle" THEN NoJob ELSE Job(pc, job.name, job.second, job.register, FALSE)

(* Mutation: the file is replaced without a back-up.                        *)
FirstStepWrites(n) == "write"

FirstStep(n) == IF agent[n].id = 0 THEN "write" ELSE "save"

BeginCreate(n, register) ==
  /\ job = NoJob /\ agentVersions < MaxVersions
  /\ job' = Job(FirstStep(n), n, clock, register, FALSE)
  /\ UNCHANGED <<agent, sot, subRecipes, cutOff, backedUp, templates, agentVersions, clock, gone>>

(* What the file lacks is listed, only the settings are changed.            *)
Issues(a) == (Wanted \ a.says) \cup IF a.defaults THEN {} ELSE {"settings"}
Status(a, dry) ==
  CASE a.id = 0 -> "not_found"
    [] a.id # 0 /\ ~a.parses -> "parse_error"
    [] a.id # 0 /\ a.parses /\ Issues(a) = {} -> "clean"
    [] OTHER -> IF dry THEN "issues" ELSE "fixed"

BeginRefresh(n) ==
  /\ job = NoJob /\ agentVersions < MaxVersions /\ Status(agent[n], FALSE) = "fixed"
  /\ job' = Job("save", n, 0, FALSE, FALSE)
  /\ UNCHANGED <<agent, sot, subRecipes, cutOff, backedUp, templates, agentVersions, clock, gone>>

(* The place of the back-up is emptied before the file is read.             *)
CopyTo(version) ==
  LET place == <<job.second, job.name>> IN
    /\ backedUp' = [backedUp EXCEPT ![place] = version]
    /\ gone' = gone \cup ({backedUp[place]} \ {0, agent[job.name].id})

Save ==
  /\ job.pc = "save" /\ GoOn("write")
  /\ CopyTo(agent[job.name].id)
  /\ UNCHANGED <<agent, sot, subRecipes, cutOff, templates, agentVersions, clock>>

SaveFails ==
  /\ job.pc = "save" /\ job' = Job("write", job.name, job.second, job.register, TRUE)
  /\ CopyTo(0) \/ UNCHANGED <<backedUp, gone>>
  /\ UNCHANGED <<agent, sot, subRecipes, cutOff, templates, agentVersions, clock>>

PutAgent(new) ==
  /\ Replace(job.name, new)
  /\ gone' = IF job.failed THEN gone \cup {agent[job.name].id} ELSE gone

WriteAgent ==
  /\ job.pc = "write" /\ GoOn(IF job.register THEN "sot" ELSE "idle")
  /\ IF job.second = 0 THEN PutAgent(AgentFile(agentVersions + 1, agent[job.name].says, TRUE, TRUE))
     ELSE \E brought \in {{}, Sources} : PutAgent(Generated(brought))
  /\ UNCHANGED <<sot, subRecipes, cutOff, backedUp, templates, clock>>

(* A register that is cut off is not read any more.  What goes wrong with   *)
(* either is printed.                                                       *)
CutOff(register) ==
  /\ cutOff' = cutOff \cup {register}
  /\ IF register = "sot" THEN sot' = {} /\ UNCHANGED subRecipes
     ELSE subRecipes' = <<>> /\ UNCHANGED sot

AddSot ==
  /\ job.pc = "sot" /\ GoOn("sub")
  /\ \/ "sot" \notin cutOff /\ sot' = sot \cup {job.name} /\ UNCHANGED <<subRecipes, cutOff>>
     \/ UNCHANGED <<sot, subRecipes, cutOff>>
     \/ CutOff("sot")
  /\ UNCHANGED <<agent, backedUp, templates, agentVersions, clock, gone>>

(* The entry is a string, and only strings are compared.                    *)
AddSubRecipe ==
  /\ job.pc = "sub" /\ GoOn("idle")
  /\ \/ /\ "sub" \notin cutOff /\ job.name \notin NamesOf("string")
        /\ subRecipes' = Append(subRecipes, [name |-> job.name, kind |-> "string"])
        /\ UNCHANGED <<sot, cutOff>>
     \/ UNCHANGED <<sot, subRecipes, cutOff>>
     \/ CutOff("sub")
  /\ UNCHANGED <<agent, backedUp, templates, agentVersions, clock, gone>>

(* The command dies or raises before its next step is done; the file that   *)
(* it writes is then cut off or was not opened yet.                         *)
Stops ==
  /\ job # NoJob /\ job' = NoJob
  /\ \/ UNCHANGED <<agent, sot, subRecipes, cutOff, backedUp, agentVersions, gone>>
     \/ /\ job.pc = "save" /\ CopyTo(0)
        /\ UNCHANGED <<agent, sot, subRecipes, cutOff, agentVersions>>
     \/ /\ job.pc = "write" /\ \E parses \in BOOLEAN : PutAgent(Broken(parses))
        /\ UNCHANGED <<sot, subRecipes, cutOff, backedUp>>
     \/ /\ job.pc = "sot" /\ CutOff("sot")
        /\ UNCHANGED <<agent, backedUp, agentVersions, gone>>
     \/ /\ job.pc \in {"sub", "enter"} /\ CutOff("sub")
        /\ UNCHANGED <<agent, backedUp, agentVersions, gone>>
  /\ UNCHANGED <<templates, clock>>

(* --scaffold: an existing file is replaced after a question, without a     *)
(* back-up, and nothing is registered; the write may be cut off.            *)
Scaffold(n) ==
  /\ job = NoJob
  /\ \E new \in {Generated({})} \cup {Broken(parses) : parses \in BOOLEAN} : Replace(n, new)
  /\ gone' = gone \cup ({agent[n].id} \ CopiesOf(n))
  /\ UNCHANGED <<sot, subRecipes, cutOff, backedUp, job, templates, clock>>

-----------------------------------------------------------------------------
(* init adds the recovery agents: first the files that are missing and have *)
(* a template, then the entries that are missing, of all of them.           *)
BeginRecovery ==
  /\ job = NoJob /\ templates # {}
  /\ job' = Job("enter", "", 0, FALSE, FALSE)
  /\ UNCHANGED <<agent, sot, subRecipes, cutOff, backedUp, templates, agentVersions, clock, gone>>

CopyTemplate(n) ==
  /\ job.pc = "enter" /\ n \in templates /\ agent[n].id = 0
  /\ \/ Replace(n, AgentFile(agentVersions + 1, RecoveryText, FALSE, TRUE)) /\ UNCHANGED job
     \/ (\E parses \in BOOLEAN : Replace(n, Broken(parses))) /\ job' = NoJob
  /\ UNCHANGED <<sot, subRecipes, cutOff, backedUp, templates, clock, gone>>

(* The main recipe is read, which raises when it is cut off, and the name   *)
(* of every entry, which raises for one that is a string.                   *)
EnterRecovery ==
  /\ job.pc = "enter" /\ job' = NoJob
  /\ \A n \in templates : agent[n].id # 0
  /\ "sub" \notin cutOff /\ NamesOf("string") = {}
  /\ \E new \in [1..Cardinality(RecoveryAgents \ NamesOf("mapping")) -> RecoveryAgents \ NamesOf("mapping")] :
       /\ \A i, j \in DOMAIN new : new[i] = new[j] => i = j
       /\ subRecipes' = subRecipes \o [i \in DOMAIN new |-> [name |-> new[i], kind |-> "mapping"]]
  /\ UNCHANGED <<agent, sot, cutOff, backedUp, templates, agentVersions, clock, gone>>

NextSecond ==
  /\ clock < MaxSeconds /\ clock' = clock + 1
  /\ UNCHANGED <<agent, sot, subRecipes, cutOff, backedUp, job, templates, agentVersions, gone>>

FactoryInit ==
  /\ agent = [n \in AgentNames |-> NoFile] /\ sot = {} /\ subRecipes = <<>> /\ cutOff = {}
  /\ backedUp = [k \in (0..MaxSeconds) \X AgentNames |-> 0]
  /\ job = NoJob /\ templates \in SUBSET RecoveryAgents
  /\ agentVersions = 0 /\ clock = 1 /\ gone = {}

FactoryNext ==
  \/ \E n \in AgentNames, register \in BOOLEAN : BeginCreate(n, register)
  \/ Save \/ SaveFails \/ WriteAgent \/ AddSot \/ AddSubRecipe \/ Stops
  \/ \E n \in AgentNames : BeginRefresh(n) \/ Scaffold(n) \/ CopyTemplate(n)
  \/ BeginRecovery \/ EnterRecovery
  \/ NextSecond

FactorySpec == FactoryInit /\ [][FactoryNext]_factoryVars

-----------------------------------------------------------------------------
(* Every version of an agent is its file or in a back-up, unless it was     *)
(* scaffolded over, its back-up failed and the file was replaced all the    *)
(* same, or a later back-up took its place: one of the same second, or the  *)
(* next refresh.                                                            *)
ReplacedIsSaved ==
  \A v \in 1..agentVersions :
    v \in gone \/ \E n \in AgentNames : v = agent[n].id \/ v \in CopiesOf(n)

(* A registered agent has a file, whatever step a command died in, unless   *)
(* init entered it without a template; and an entry is there once in each   *)
(* of its two forms.                                                        *)
RegisteredHasFile ==
  /\ \A n \in sot \cup NamesOf("string") : agent[n].id # 0
  /\ \A n \in NamesOf("mapping") : agent[n].id # 0 \/ n \in RecoveryAgents \ templates
  /\ \A i, j \in DOMAIN subRecipes : subRecipes[i] = subRecipes[j] => i = j

(* No version of an agent disappears unnoticed, and none is registered that *)
(* has no file.                                                             *)
AgentsSound == ReplacedIsSaved /\ RegisteredHasFile
=============================================================================
