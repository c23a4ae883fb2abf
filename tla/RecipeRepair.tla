---------------------------- MODULE RecipeRepair ----------------------------
(***************************************************************************)
(* run_yaml_scan() of dev_im_finder_scan_lib.py looks at every recipe and  *)
(* reports what it misses, but for what the severity filter holds back and *)
(* what the database of issues knows already.  bulk_findings_fixer.py      *)
(* appends a text for each reported finding it has one for, while others   *)
(* edit the recipes.                                                       *)
(*                                                                         *)
(* A recipe is what the scan asks of it: its place, whether it parses, its *)
(* fields, the words in its prompt and in its instructions, its limits.    *)
(***************************************************************************)
EXTENDS Integers

CONSTANTS
  RecipeFiles,
  Given,        \* file -> the recipes its editors write
  Twice,        \* files that two --scope directories contain
  FixTypes,     \* the values of --types
  MaxFixes,     \* bound: runs of the fixer
  NoRecipe

Fields == {"name", "version", "description", "about", "prompt", "instructions",
           "extensions", "settings", "constitution", "title"}
\* What the scan looks for in the instructions and in the prompt of a recipe,
\* and what else it asks of it.
Says == {"mode", "stop", "step", "try", "retry", "clean", "log", "output", "undo", "valid", "format",
         "tmp", "loop", "batch", "barepath", "pattern", "MODE-CHECK"}
Prompts == {"I_AM", "MODE-CHECK", "context", "barestep"}
YamlRecipes ==
  [shape : {"mapping", "list", "empty", "broken"},
   place : {"orchestrator", "parser", "sub", "workflow", "recipe", "other"},
   fields : SUBSET Fields, says : SUBSET Says, prompt : SUBSET Prompts,
   long : {"short", "medium", "over"}, timeout : Int, turns : Int, steps : Int, tools : Nat, roles : Nat,
   temperature : BOOLEAN, summon : BOOLEAN, big : BOOLEAN, splitLately : BOOLEAN, broad : BOOLEAN,
   numbered : BOOLEAN]
ASSUME RepairAssumption ==
  /\ MaxFixes \in Nat /\ Twice \subseteq RecipeFiles /\ NoRecipe \notin RecipeFiles
  /\ \A f \in RecipeFiles : Given[f] \subseteq YamlRecipes

VARIABLES
  recipe,    \* file -> the recipe
  marks,     \* file -> type -> how often its text is in the file
  known,     \* file -> its issues in the database
  report,    \* file -> bag of the types of its findings in the last scan
  options,   \* of that scan: with the database, with low severity
  fresh,     \* files that did not change since that scan
  fixer,     \* the running fixer: what it loaded, the files it has to visit,
             \* the one it has read and what it read
  fixes,
  heard      \* observation: file -> the issues that reports named

repairVars == <<recipe, marks, known, report, options, fresh, fixer, fixes, heard>>

(* The fixer has a text for some types, and treats three others on its own. *)
Snippets == {"K3", "U1", "L1", "G2", "K1", "L2", "II1", "B3", "O1", "BB1", "F3", "F4"}
Unhandled == {"Q3", "Q3-STEPS"}
Templates == Snippets \cup {"C1", "C2"} \cup Unhandled

(* The severity filter lets medium and above through by default.            *)
Low == {"A2-EXT", "B2", "B3", "BB1", "C1", "C2", "C4", "F3", "F4", "G2", "H1", "II1", "K1", "K3", "L1",
        "L2", "MM5", "MM7", "MM8", "MM9", "O1", "Q3", "Q3-STEPS", "T1", "U1", "V1", "Y1"}

If(condition, type) == IF condition THEN {type} ELSE {}

-----------------------------------------------------------------------------
(* What instructions without a word are reported for.                       *)
Wants == [mode |-> {"G2"}, stop |-> {"C1", "BB1"}, step |-> {"C2"}, try |-> {"K1"}, retry |-> {"K3"},
          clean |-> {"L1"}, log |-> {"L2"}, output |-> {"O1"}, undo |-> {"U1"}, valid |-> {"V1"},
          format |-> {"II1"}]
Instructions(r) ==
  IF "instructions" \notin r.fields THEN {}
  ELSE (UNION {Wants[w] : w \in DOMAIN Wants \ r.says})
       \cup (IF "tmp" \in r.says THEN {"T1", "C4"} ELSE {})
       \cup If("loop" \in r.says /\ "batch" \notin r.says, "Y1")
       \cup If("barepath" \in r.says, "Q4")

Prompt(r) ==
  IF "prompt" \notin r.fields THEN {"MM2"}
  ELSE If(r.long # "short" /\ "I_AM" \notin r.prompt, "MM8")
       \cup If("I_AM" \in r.prompt /\ "MODE-CHECK" \notin r.prompt, "MM9")
       \cup If("MODE-CHECK" \notin r.prompt, "F3") \cup If("I_AM" \notin r.prompt, "F4")
       \cup If(r.long = "over", "B2") \cup If("context" \notin r.prompt, "B3")
       \cup If("barestep" \in r.prompt, "Q4")

(* Missing or zero limits are equal to the scan; only a timeout has to be   *)
(* there.  Few steps are a Q3 like unknown fields, but another issue.       *)
Limits(r) ==
  If(r.timeout \in 1..59, "A1") \cup If(r.timeout = 0, "A5")
  \cup If(r.turns \in 1..24, "A2") \cup If(r.turns > 200, "A2-EXT") \cup If(r.steps \in 1..9, "Q3-STEPS")

Structure(r) ==
  If(r.fields \cap {"about", "name", "version"} = {}, "MM1")
  \cup If("instructions" \notin r.fields, "MM3")
  \cup If("settings" \in r.fields /\ ~r.temperature, "MM4")
  \cup If("constitution" \notin r.fields /\ r.place = "orchestrator", "MM5")
  \cup If("extensions" \notin r.fields /\ r.place \in {"sub", "parser"}, "MM6")
  \cup If("description" \notin r.fields, "MM7") \cup If("constitution" \notin r.fields, "H1")
  \cup If(~({"name", "version", "description"} \subseteq r.fields), "Q1")
  \cup If("title" \in r.fields, "Q3")
  \cup If("extensions" \in r.fields /\ r.tools > 0 /\ ~r.summon, "JJ1")
  \cup If("extensions" \in r.fields /\ r.tools > 0 /\ ~r.summon /\ r.place \in {"sub", "parser"}, "N2")

(* Does an agent do too much?  Small files that are no sub-recipe and those *)
(* that were split lately are left alone.                                   *)
Split(r) ==
  LET part == r.place \in {"sub", "parser", "workflow"}
  IN  IF r.splitLately \/ (~r.big /\ ~part) THEN {}
      ELSE If(~part /\ r.place # "orchestrator" /\ r.roles >= 8, "NN1")
           \cup If(r.tools >= 5, "NN2") \cup If(~part /\ r.broad, "NN3")

(* The two files with checks of their own are loaded without a try.         *)
Special(r) ==
  If(r.place = "orchestrator" /\ "instructions" \in r.fields /\ "step" \notin r.says, "D3")
  \cup If(r.place = "orchestrator" /\ "instructions" \in r.fields
          /\ "step" \notin r.says /\ "MODE-CHECK" \notin r.says, "D1")
  \cup If(r.place = "parser" /\ "instructions" \in r.fields /\ "pattern" \notin r.says, "E1")

Unreadable(r) == If(r.shape = "broken", "Q2")

Findings(r) ==
  CASE r.shape = "broken" -> Unreadable(r)
    [] r.shape = "empty" -> {}
    [] r.shape \notin {"broken", "empty"} /\ r.place = "other" -> Split(r)
    [] OTHER -> Special(r) \cup Split(r) \cup Structure(r) \cup Prompt(r) \cup Limits(r) \cup Instructions(r)

(* Anything but a mapping in the special files, or a list anywhere, ends    *)
(* the scan with a traceback.                                               *)
ScanRaises == \E f \in RecipeFiles :
  \/ recipe[f].place \in {"orchestrator", "parser"} /\ recipe[f].shape # "mapping"
  \/ recipe[f].shape = "list"

(* An issue is the file, the type and, for some, what was counted.          *)
IssueHash(r, t) ==
  [type |-> t, count |-> IF t = "NN1" THEN r.roles ELSE IF t = "NN2" THEN r.tools ELSE 0]

(* add_finding(): what is below the filter is dropped, the rest is          *)
(* registered, and with the database only what it did not know is reported. *)
Considered(f, low) == {t \in Findings(recipe[f]) : low \/ t \notin Low}
(* Mutation: findings are registered before they are filtered.              *)
RegisteredAll(f, db, low) == IF db THEN {IssueHash(recipe[f], t) : t \in Findings(recipe[f])} ELSE {}
Registered(f, db, low) == IF db THEN {IssueHash(recipe[f], t) : t \in Considered(f, low)} ELSE {}
Emitted(f, db, low) == {t \in Considered(f, low) : db => IssueHash(recipe[f], t) \notin known[f]}

(* How often each is listed: a file that two directories contain is in the  *)
(* list of files twice, which the database notices.                         *)
Listed(f, db, low) == [t \in Emitted(f, db, low) |-> IF f \in Twice /\ ~db THEN 2 ELSE 1]

-----------------------------------------------------------------------------
ScanRecipes(db, low) ==
  /\ ~ScanRaises
  /\ report' = [f \in RecipeFiles |-> Listed(f, db, low)]
  /\ options' = [db |-> db, low |-> low]
  /\ known' = [f \in RecipeFiles |-> known[f] \cup Registered(f, db, low)]
  /\ heard' = [f \in RecipeFiles |-> heard[f] \cup {IssueHash(recipe[f], t) : t \in Emitted(f, db, low)}]
  /\ fresh' = RecipeFiles
  /\ UNCHANGED <<recipe, marks, fixer, fixes>>

(* A recipe is edited, by an agent that follows an advice or by anybody     *)
(* else; the texts that were appended to it stay or go.                     *)
EditRecipe(f) ==
  /\ recipe' \in {[recipe EXCEPT ![f] = r] : r \in Given[f]}
  /\ marks' \in {marks, [marks EXCEPT ![f] = [t \in Snippets |-> 0]]}
  /\ fresh' = fresh \ {f}
  /\ UNCHANGED <<known, report, options, fixer, fixes, heard>>

-----------------------------------------------------------------------------
(* The fixer loads the report once and visits the files one by one.         *)
Fixer(files, list, types, file, text, texts) ==
  [files |-> files, list |-> list, types |-> types, file |-> file, text |-> text, texts |-> texts]
Asleep == Fixer({}, {}, {}, NoRecipe, NoRecipe, NoRecipe)

FixerStarts(types) ==
  /\ fixer.files = {} /\ fixer.file = NoRecipe /\ fixes < MaxFixes /\ fixes' = fixes + 1
  /\ fixer' = Fixer(RecipeFiles, report, types, NoRecipe, NoRecipe, NoRecipe)
  /\ UNCHANGED <<recipe, marks, known, report, options, fresh, heard>>

(* Of the findings of a file those are relevant that have a template and    *)
(* that --types names.                                                      *)
Relevant(f) == DOMAIN fixer.list[f] \cap Templates \cap fixer.types

FixerReads(f) ==
  /\ fixer.file = NoRecipe /\ f \in fixer.files
  /\ LET left == fixer.files \ {f}
     IN  fixer' = IF Relevant(f) \subseteq Unhandled THEN Fixer(left, fixer.list, fixer.types, NoRecipe, NoRecipe, NoRecipe)
                  ELSE Fixer(left, fixer.list, fixer.types, f, recipe[f], marks[f])
  /\ UNCHANGED <<recipe, marks, known, report, options, fresh, fixes, heard>>

(* A text is appended at the end of what was read, outside any block,       *)
(* unless its marker is there; so the file does not parse any more.  The    *)
(* steps of C2 are renumbered only if there are numbered lines, which then  *)
(* lose their indentation.                                                  *)
Added(f, t) == IF t \in Relevant(f) /\ fixer.texts[t] = 0 THEN 1 ELSE 0

FixerWrites(f) ==
  /\ fixer.file = f
  /\ LET changed == \/ \E t \in Snippets : Added(f, t) > 0
                    \/ "C2" \in Relevant(f) /\ fixer.text.numbered /\ fixer.text.shape # "broken"
     IN  IF ~changed THEN UNCHANGED <<recipe, marks, fresh>>
         ELSE /\ marks' = [marks EXCEPT ![f] = [t \in Snippets |-> fixer.texts[t] + Added(f, t)]]
              /\ recipe' = [recipe EXCEPT ![f] = [fixer.text EXCEPT !.shape = "broken"]]
              /\ fresh' = fresh \ {f}
  /\ fixer' = Fixer(fixer.files, fixer.list, fixer.types, NoRecipe, NoRecipe, NoRecipe)
  /\ UNCHANGED <<known, report, options, fixes, heard>>

RepairInit ==
  /\ recipe \in {g \in [RecipeFiles -> UNION {Given[f] : f \in RecipeFiles}] :
                  \A f \in RecipeFiles : g[f] \in Given[f]}
  /\ marks = [f \in RecipeFiles |-> [t \in Snippets |-> 0]]
  /\ known = [f \in RecipeFiles |-> {}]
  /\ report = [f \in RecipeFiles |-> [t \in {} |-> 0]] /\ options = [db |-> FALSE, low |-> FALSE]
  /\ fresh = {}
  /\ fixer = Asleep /\ fixes = 0
  /\ heard = [f \in RecipeFiles |-> {}]

RepairNext ==
  \/ \E db, low \in BOOLEAN : ScanRecipes(db, low)
  \/ \E f \in RecipeFiles : EditRecipe(f)
  \/ \E types \in FixTypes : FixerStarts(types)
  \/ \E f \in RecipeFiles : FixerReads(f)
  \/ \E f \in RecipeFiles : FixerWrites(f)

RepairSpec == RepairInit /\ [][RepairNext]_repairVars

-----------------------------------------------------------------------------
(* A finding that the last report could name is in it, or it is an issue    *)
(* the database knew, and every issue it knows was in some report: what it  *)
(* holds back was told once.  A recipe that breaks again, by the fixer or   *)
(* by hand, is passed over in silence.                                      *)
NothingUnheard ==
  /\ \A f \in fresh : \A t \in Findings(recipe[f]) :
       \/ t \in DOMAIN report[f]
       \/ t \in Low /\ ~options.low
       \/ options.db /\ IssueHash(recipe[f], t) \in known[f]
  /\ \A f \in RecipeFiles : known[f] \subseteq heard[f]

(* A report of a file that did not change names only what a scan finds in   *)
(* it; of one that does not parse only that.                                *)
ReportIsTrue ==
  \A f \in fresh : DOMAIN report[f] \subseteq
    IF recipe[f].shape = "broken" THEN {"Q2"} ELSE Findings(recipe[f]) \ {"Q2"}

(* However the fixer and the editors of a file overtake one another, a text *)
(* is in it at most once and answers to a finding that was reported.        *)
TextsAnswer ==
  \A f \in RecipeFiles, t \in Snippets :
    marks[f][t] = 0 \/ (marks[f][t] = 1 /\ \E issue \in heard[f] : issue.type = t)

(* v2 requirement 3 of the skill for this tool (SKILL.md:47): a file that   *)
(* does not load after its modification is reverted.                        *)
FixedStillLoads ==
  [][\A f \in RecipeFiles : fixer.file = f /\ fixer'.file # f /\ recipe[f].shape = "mapping" =>
       recipe'[f].shape = "mapping"]_repairVars

(* What a scan finds is told, if not again, and the fixer appends what was  *)
(* asked for, once.                                                         *)
RepairSound == NothingUnheard /\ ReportIsTrue /\ TextsAnswer
=============================================================================
