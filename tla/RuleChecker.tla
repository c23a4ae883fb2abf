---------------------------- MODULE RuleChecker ----------------------------
(***************************************************************************)
(* dev_rule_checker.py, which a MAS agent asks before it writes, edits or  *)
(* runs a shell command, and dev_architecture_checker.py, which it asks.   *)
(* A rule looks for words in the text of the planned action and at files   *)
(* that anyone may change between the answer and the act.  Nothing holds   *)
(* the caller to the answer: here every caller does what was approved.     *)
(***************************************************************************)
EXTENDS Integers, FiniteSets

CONSTANTS
  Askers,     \* agents that ask and then act
  Acts,        \* planned actions, see PlannedAct
  Registered,  \* sub-agents listed in workflows.yaml
  Special,     \* files named after an agent of special_agents.yaml
  Registry,    \* the domains of registry.yaml; {} without the file
  ActiveDomain,
  NotGiven,     \* no mode file, no target, no agent, no domain
  TopN, DoneTarget, \* IM_TOP_N, and IM_TOP_N times its multiplier
  MaxAsked,    \* bound: questions
  MaxTurns     \* bound: changes from outside

(* The words of a text, lower-cased, and what stands in it: the first path  *)
(* after the verb, which the rules look at, the file the act writes, what   *)
(* file that is, the sub_mas-* name, the domain whose path is named and the *)
(* one that is imported, and the number of patches.                         *)
PlannedAct(words, path, file, kind, agent, domain, imports, patches) ==
  [words |-> words, path |-> path, file |-> file, kind |-> kind, agent |-> agent,
   domain |-> domain, imports |-> imports, patches |-> patches]

ASSUME RulesAssumption ==
  /\ TopN \in Int /\ DoneTarget \in Int /\ MaxAsked \in Nat /\ MaxTurns \in Nat
  /\ \A a \in Acts : a.patches \in Nat

VARIABLES
  inside,      \* is the working directory mas-engineer/, or the directory above
  listed,      \* is there a workflows.yaml, with its restrictions and sub-agents
  modes,       \* the .mas-mode files: "mas", "root", "home" -> text or NotGiven
  confirmation,\* is .last_confirmation less than 5 minutes old
  existing,    \* files in the working directory
  patchCount,  \* applied_count of r55_session_count.yaml; 0 while that is empty
  caller,      \* caller -> its question or approved act, see Caller
  overwritten, \* observation: the callers who overwrote a file, with what they knew
  smuggled,    \* observation: those who wrote an agent that is not registered
  early,       \* observation: a done signal after too few patches
  patchesDone,     \* observation: the patches that were applied
  raced,       \* observation: two counted their patches at once
  asked, turns

observed == <<overwritten, smuggled, early, patchesDone, raced>>
ruleVars == <<inside, listed, modes, confirmation, existing, patchCount, caller,
              observed, asked, turns>>

Has(a, ws) == a.words \cap ws # {}
Writing == {"write", "edit", "mv", "cp"}

(* The mode of R14 and R110-31 is that of the first file there is; R09 only *)
(* looks into the working directory.                                        *)
WorkOn ==
  LET there == {m \in {"mas", "root", "home"} : modes[m] # NotGiven /\ ~(inside /\ m = "root")}
  IN  IF "mas" \in there THEN modes["mas"]
      ELSE IF "root" \in there THEN modes["root"]
      ELSE IF "home" \in there THEN modes["home"] ELSE NotGiven

-----------------------------------------------------------------------------
(* One definition per rule: "BLOCKED", "WARNING" or "OK".                   *)
BlockedIf(b) == IF b THEN "BLOCKED" ELSE "OK"
WarnedIf(b) == IF b THEN "WARNING" ELSE "OK"

R01(a) == BlockedIf(~confirmation)

(* An import of another domain; a write into one, whatever its mode.        *)
R09(a) ==
  LET foreign == Registry \ {ActiveDomain}
  IN  BlockedIf(\/ a.imports \in foreign
                \/ /\ Has(a, Writing \cup {"delete", "rm", ">", "sed"})
                   /\ ActiveDomain # NotGiven /\ a.domain \in foreign)

(* Mutation: an overwritten file is worth a warning, which --all lets pass. *)
R02Warns(a) == WarnedIf(Has(a, Writing) /\ a.path \in existing \ Special /\ ~Has(a, {"force"}))

(* Only a relative path, looked up in lower case: an absolute one, one with *)
(* capitals, and the target of a cp or mv are not found.                    *)
R02(a) == BlockedIf(Has(a, Writing) /\ a.path \in existing \ Special /\ ~Has(a, {"force"}))

R05(a) == BlockedIf(/\ Has(a, Writing) /\ ~Has(a, {"checkpoint"})
                    /\ Has(a, {"git commit"}) \/ ~Has(a, {"git add"}))
R06(a) == BlockedIf(Has(a, {"delegate"}) /\ Has(a, {"write", "edit", "rm", "mv"}))
R07(a) == WarnedIf(Has(a, {"checkpoint"}) /\ ~Has(a, {"cp_done"}))
R08(a) == BlockedIf(Has(a, {"general-improver"}) /\ Has(a, {"50000 tokens"}))
R04(a) == BlockedIf(Has(a, {"general-improver"}) /\ Has(a, {"edit", "write"}))

(* The domain is that of the mode, or else of the words; only in the first  *)
(* one the named agent has to be registered.                                *)
DomainOf(a) ==
  IF WorkOn \in {"mas", "framework", "generic"} THEN WorkOn
  ELSE IF Has(a, {"demo-team", "orchestrator"}) THEN "framework"
  ELSE IF Has(a, {"project workspace", "generic mode"}) THEN "generic"
  ELSE IF a.agent # NotGiven \/ Has(a, {"mas-self"}) THEN "mas" ELSE NotGiven
R110x31(a) ==
  BlockedIf(/\ Has(a, {"write", "edit", "create", "add"})
            /\ DomainOf(a) = "mas" /\ listed
            /\ a.agent # NotGiven /\ a.agent \notin Registered)

\* A missing dev_yaml_immune.py is a note, which refuses nothing.
R10(a) == BlockedIf(/\ Has(a, {"action-type write"}) \/ (a.kind = "yaml" /\ Has(a, {"write", "edit"}))
                    /\ ~Has(a, {"immune"}))

R55(a) ==
  BlockedIf(\/ Has(a, {"apply patches"}) /\ a.patches < TopN
            \/ Has(a, {"signal done"}) /\ patchCount < DoneTarget)

R12(a) == WarnedIf(Has(a, {".mase/"}) /\ ~Has(a, {"checkpoint"}))

R14(a) ==
  BlockedIf(\/ WorkOn = NotGiven
            \/ WorkOn # "mas" /\ (a.agent # NotGiven \/ Has(a, {"mas-engineer", "workflows.yaml"})))

(* ist_architektur_change(), on the text alone: no file is handed over.     *)
Architecture(a) ==
  IF Has(a, {"create", "new", "clone"})
  THEN a.agent # NotGiven \/ Has(a, {"dev_"}) \/ a.kind \notin {"md", "changes", "bak"}
  ELSE /\ Has(a, {"workflows.yaml", "constitution", "protected"})
       /\ Has(a, {"edit", "write"}) \/ (Has(a, {"add", "delete"}) /\ ~Has(a, {"constitution"}))
\* The tool is found from the inside only; python3 then ends with 2, not 1.
R15(a) == BlockedIf(inside /\ Architecture(a))
R16(a) == WarnedIf(/\ Has(a, {"delegate"}) /\ a.agent # NotGiven
                   /\ ~Has(a, {"dev_", "analyse", "build", "harden", "dashboard"}))
R19(a) == BlockedIf(/\ Has(a, {"mas-engineer/tools/"})
                    /\ ~Has(a, {"dev_build.sh", "mas-engineer-tools/"}))

(* The names of the agents end with the letters of a comment that stands    *)
(* among them: from the inside every such action names one of them.         *)
R18(a) == BlockedIf(inside /\ listed /\ Has(a, {"shell", "write", "edit"}))

Verdict(rule, a) ==
  CASE rule = "R01" -> R01(a) [] rule = "R02" -> R02(a) [] rule = "R04" -> R04(a)
    [] rule = "R05" -> R05(a) [] rule = "R06" -> R06(a) [] rule = "R07" -> R07(a)
    [] rule = "R08" -> R08(a) [] rule = "R09" -> R09(a) [] rule = "R10" -> R10(a)
    [] rule = "R12" -> R12(a) [] rule = "R14" -> R14(a) [] rule = "R15" -> R15(a)
    [] rule = "R16" -> R16(a) [] rule = "R18" -> R18(a) [] rule = "R19" -> R19(a)
    [] rule = "R55" -> R55(a) [] rule = "R110-31" -> R110x31(a)
    [] OTHER -> "OK"

(* The rules of the yaml files, and those of workflows.yaml.  R56 is in     *)
(* neither: its branch is never reached.                                    *)
FileRules == {"R01", "R02", "R04", "R05", "R06", "R07", "R08", "R09", "R10", "R18", "R55", "R110-31"}
FlowRules == {"R11", "R12", "R13", "R14", "R15", "R16", "R17", "R19", "R20", "R21", "R22", "R23"}
ActiveRules == FileRules \cup (IF listed THEN FlowRules ELSE {})

(* The rules are asked in the order of the files, each of which is opened   *)
(* when its rule is asked: a round is a rule that reads what may change and *)
(* those after it that do not.  --all leaves out R19; the default asks some *)
(* rules again, which can only refuse more; --check asks one.               *)
Round == [R01 |-> {"R09", "R01"}, R02 |-> {"R02", "R04", "R05", "R18"},
          R110 |-> {"R110-31", "R10"}, R55 |-> {"R55", "R06", "R07", "R08"}, R14 |-> FlowRules]
NextRound == [R01 |-> "R02", R02 |-> "R110", R110 |-> "R55", R55 |-> "R14", R14 |-> "approved"]

RulesOf(form, round) ==
  CASE form = "R02" -> {"R02"}
    [] form = "all" -> Round[round] \cap (ActiveRules \ {"R19"})
    [] OTHER -> Round[round] \cap ActiveRules

\* Both forms only refuse what is BLOCKED; a single --check also what is a warning.
Refuses(form, round, a) ==
  \E r \in RulesOf(form, round) :
     Verdict(r, a) \in (IF form = "R02" THEN {"BLOCKED", "WARNING"} ELSE {"BLOCKED"})

-----------------------------------------------------------------------------
(* at: the round to come, "approved", or the place in the counting of a     *)
(* patch; there: the files when R02 was asked; moved: did the mode change   *)
(* since R110-31 was asked; count: applied_count as read; left: patches.    *)
Caller(act, form, at, left) ==
  [act |-> act, form |-> form, at |-> at, there |-> {}, moved |-> FALSE, count |-> 0, left |-> left]
Free == Caller(NotGiven, "all", "free", 0)

\* What is left of a question after a round of it.
Answered(q, round) ==
  IF Refuses(q.form, round, q.act) THEN Free
  ELSE [q EXCEPT !.at = IF q.form = "R02" THEN "approved" ELSE NextRound[round],
                 !.there = IF round = "R02" THEN existing ELSE @,
                 !.moved = round # "R110" /\ @]

Ask(c, form, a) ==
  /\ caller[c].at = "free" /\ asked < MaxAsked
  /\ asked' = asked + 1
  /\ caller' = [caller EXCEPT ![c] = Answered(Caller(a, form, "free", 0),
                                             IF form = "R02" THEN "R02" ELSE "R01")]
  /\ UNCHANGED <<inside, listed, modes, confirmation, existing, patchCount, observed, turns>>

Answer(c) ==
  /\ caller[c].at \in DOMAIN Round
  /\ caller' = [caller EXCEPT ![c] = Answered(@, @.at)]
  /\ UNCHANGED <<inside, listed, modes, confirmation, existing, patchCount, observed,
                  asked, turns>>

AskedAll(c) == caller[c].form # "R02"
Patching(c) == caller[c].at \in {"counted", "truncated"}

(* A write, an edit or a signal, or the first of several patches.           *)
Act(c) ==
  /\ caller[c].at = "approved"
  /\ LET a == caller[c].act
         writes == Has(a, Writing) /\ a.file # NotGiven
     IN  /\ existing' = IF writes THEN existing \cup {a.file} ELSE existing
         /\ overwritten' = IF writes /\ a.file \in existing
                           THEN overwritten \cup {caller[c]} ELSE overwritten
         /\ smuggled' = IF /\ Has(a, {"write", "edit"}) /\ AskedAll(c)
                           /\ listed /\ a.agent \notin Registered \cup {NotGiven}
                        THEN smuggled \cup {caller[c]} ELSE smuggled
         /\ early' = (early \/ (/\ Has(a, {"signal done"}) /\ AskedAll(c)
                                /\ patchesDone < DoneTarget))
         /\ caller' = [caller EXCEPT ![c] =
                          IF Has(a, {"apply patches"}) /\ a.patches > 0
                          THEN Caller(a, "all", "patch", a.patches)
                          ELSE Free]
  /\ UNCHANGED <<inside, listed, modes, confirmation, patchCount, patchesDone, raced,
                  asked, turns>>

(* dev_editor.py has applied a patch and counts it, without a lock: it      *)
(* reads the counter, truncates the file, and writes one more.              *)
ReadCount(c) ==
  /\ caller[c].at = "patch"
  /\ patchesDone' = patchesDone + 1
  /\ raced' = (raced \/ \E d \in Askers : Patching(d))
  /\ caller' = [caller EXCEPT ![c].at = "counted", ![c].count = patchCount]
  /\ UNCHANGED <<inside, listed, modes, confirmation, existing, patchCount,
                  overwritten, smuggled, early, asked, turns>>

TruncateCount(c) ==
  /\ caller[c].at = "counted"
  /\ patchCount' = 0
  /\ caller' = [caller EXCEPT ![c].at = "truncated"]
  /\ UNCHANGED <<inside, listed, modes, confirmation, existing, observed, asked, turns>>

WriteCount(c) ==
  /\ caller[c].at = "truncated"
  /\ patchCount' = caller[c].count + 1
  /\ caller' = [caller EXCEPT ![c] =
                   IF @.left > 1 THEN Caller(@.act, "all", "patch", @.left - 1) ELSE Free]
  /\ UNCHANGED <<inside, listed, modes, confirmation, existing, observed, asked, turns>>

(* The user confirms, or five minutes go by; another mode is set.           *)
Turn ==
  /\ turns < MaxTurns
  /\ turns' = turns + 1
  /\ \/ confirmation' = ~confirmation /\ UNCHANGED <<modes, caller>>
     \/ \E m \in DOMAIN modes, text \in {"mas", "framework", "project"} :
          /\ modes[m] # text
          /\ modes' = [modes EXCEPT ![m] = text]
          /\ caller' = [c \in Askers |-> [caller[c] EXCEPT !.moved = caller[c].at \in {"R55", "R14"} \/ @]]
          /\ UNCHANGED confirmation
  /\ UNCHANGED <<inside, listed, existing, patchCount, observed, asked>>

RulesInit ==
  /\ inside \in BOOLEAN /\ listed \in BOOLEAN
  /\ modes \in [{"mas", "root", "home"} -> {NotGiven, "mas", "framework", "project"}]
  /\ confirmation = TRUE /\ existing = {} /\ patchCount = 0
  /\ caller = [c \in Askers |-> Free]
  /\ overwritten = {} /\ smuggled = {} /\ early = FALSE
  /\ patchesDone = 0 /\ raced = FALSE /\ asked = 0 /\ turns = 0

RulesNext ==
  \/ Turn
  \/ \E c \in Askers :
       \/ \E a \in Acts, form \in {"all", "default", "R02"} : Ask(c, form, a)
       \/ Answer(c)
       \/ Act(c)
       \/ ReadCount(c)
       \/ TruncateCount(c)
       \/ WriteCount(c)

-----------------------------------------------------------------------------
(* What overwrites a file in spite of R02 says so, is special, names the    *)
(* file in a way R02 does not see, or came to be after R02 was asked: the   *)
(* answer of one caller is stale when another has written.                  *)
OverwritesAreKnown ==
  \A o \in overwritten : \/ Has(o.act, {"force"}) \/ o.act.file \in Special
                         \/ o.act.path # o.act.file \/ o.act.file \notin o.there

(* In no mode an unregistered agent is written once all the rules were      *)
(* asked: R110-31 refuses it in the mas mode, R14 in every other and in     *)
(* none, though R110-31 goes by the words of the text there.  But each of   *)
(* the two opens .mas-mode for itself, and a mode that changes in between   *)
(* lets the agent through.                                                  *)
SmuggledByMode == \A o \in smuggled : o.moved

(* A run signals its end only after as many patches as R55 demands, however *)
(* late the signal comes after the answer and whatever becomes of the       *)
(* counter, which never runs ahead of the patches; it falls behind them     *)
(* only when two count at once, or one is cut off.                          *)
DoneIsEarned == ~early
CountFallsBehind ==
  /\ patchCount <= patchesDone
  /\ patchCount = patchesDone \/ raced \/ \E c \in Askers : Patching(c)

(* The rules keep their promise for every action whose check was answered.  *)
RulesSound == OverwritesAreKnown /\ SmuggledByMode /\ DoneIsEarned /\ CountFallsBehind
=============================================================================
