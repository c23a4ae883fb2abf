---------------------------- MODULE RecipeChecks ----------------------------
(***************************************************************************)
(* The two checks of a recipe that is about to be used: dev_yaml_immune.py *)
(* loads the file again for each of its checks, dev_editor.py --validate   *)
(* reads it once and looks at the best practices.  Neither holds a lock,   *)
(* so the files change under them.  They write nothing: one check at a     *)
(* time is enough.                                                         *)
(***************************************************************************)
EXTENDS Integers, Sequences, FiniteSets

CONSTANTS
  Recipes, YamlFiles,  \* files; the ones whose name ends in .yaml or .yml
  References,          \* names of sub-recipes
  Candidates,          \* <<file, name>> -> files that the name may mean there
  Documents,           \* what a file may hold: see Document
  Practices,           \* category -> its best practices, in order
  AutoApply,           \* the practices that are enforced
  HasYaml,             \* PyYAML is installed
  MaxChecked, MaxRewritten  \* bounds: files checked, writes

(* What a recipe holds: whether it parses, is a mapping and equals itself     *)
(* when loaded twice (.nan does not), the names its sub_recipes and those of  *)
(* its `agents` give ("none", or "odd" for a value that cannot be iterated),  *)
(* the required fields it has, and the practices it meets.                    *)
Document(parses, mapping, same, top, below, fields, meets) ==
  [parses |-> parses, mapping |-> mapping, same |-> same, top |-> top, below |-> below,
   fields |-> fields, meets |-> meets]
NoTop == [kind |-> "none", names |-> {}]
OddTop == [kind |-> "odd", names |-> {}]
Top(names) == [kind |-> "list", names |-> names]

Absent == Document(FALSE, FALSE, FALSE, NoTop, NoTop, {}, {})
Required == {"title", "description", "version"}

ASSUME ChecksAssumption ==
  /\ YamlFiles \subseteq Recipes /\ HasYaml \in BOOLEAN
  /\ Candidates \in [Recipes \X References -> (SUBSET Recipes) \ {{}}]
  /\ Absent \notin Documents
  /\ \A d \in Documents : /\ d.top.kind = "none" => d.top.names = {}
                          /\ d.top.names \cup d.below.names \subseteq References
  /\ \A c \in DOMAIN Practices : Practices[c] \in Seq(STRING \ {"syntax"})
  /\ MaxChecked \in Nat /\ MaxRewritten \in Nat

VARIABLES
  recipe,      \* file -> its document, Absent if there is none
  check,       \* the running check: see NoCheck
  lookups,     \* what check_path_resolution() has left: <<name, file it may mean>>
  checked, rewritten,
  seen         \* observation: states of all files since the check began

validationVars == <<recipe, check, lookups, checked, rewritten, seen>>

(* `of` are the files of the arguments, `todo` those left, `next` the checks *)
(* that are left of the first, `failed` what was found.                      *)
NoCheck == [tool |-> "none", of |-> {}, strict |-> FALSE, todo |-> <<>>, next |-> <<>>,
            failed |-> {}, code |-> 0]

-----------------------------------------------------------------------------
(* dev_yaml_immune.py                                                       *)

(* safe_load()                                                              *)
Loads(files, f) == HasYaml /\ files[f].parses

(* The names that check_path_resolution() looks up: `agents` counts only    *)
(* where there is no sub_recipes, be it empty.                              *)
Listing(doc) == IF doc.top.kind = "none" THEN doc.below ELSE doc.top
Referenced(doc) == Listing(doc).names
Lookups(f, doc) ==
  {t \in References \X Recipes : t[1] \in Referenced(doc) /\ t[2] \in Candidates[<<f, t[1]>>]}

(* Whether one of the checks finds an error in what it loads.               *)
Fails(kind, files, f) ==
  CASE kind = "syntax"    -> f \in YamlFiles /\ ~Loads(files, f)
    [] kind = "roundtrip" -> ~Loads(files, f) \/ ~files[f].same
    [] kind = "path"      -> ~Loads(files, f)
    [] kind = "required"  -> ~Loads(files, f)
                             \/ (files[f].mapping /\ files[f].fields # Required)

(* The loop over sub_recipes has nothing to catch what it raises.           *)
Raises(kind, files, f) ==
  kind = "path" /\ Loads(files, f) /\ files[f].mapping /\ Listing(files[f]).kind = "odd"

(* Mutation: a strict check forgets the required fields.                    *)
FurtherLenient(tool, strict) ==
  (IF tool = "roundtrip" \/ strict THEN <<"roundtrip">> ELSE <<>>)
    \o (IF tool = "path-check" \/ strict THEN <<"path">> ELSE <<>>)

(* What main() does with a file after its syntax check.                     *)
Further(tool, strict) ==
  (IF tool = "roundtrip" \/ strict THEN <<"roundtrip">> ELSE <<>>)
    \o (IF tool = "path-check" \/ strict THEN <<"path">> ELSE <<>>)
    \o (IF strict THEN <<"required">> ELSE <<>>)

(* --validate, --roundtrip and --path-check take one file, the arguments    *)
(* without an option are checked one after the other.                       *)
BeginImmune(tool, strict, todo) ==
  /\ check.todo = <<>> /\ checked + Len(todo) <= MaxChecked
  /\ tool # "files" => Len(todo) = 1
  /\ check' = [NoCheck EXCEPT !.tool = tool, !.of = {todo[i] : i \in DOMAIN todo},
                               !.strict = strict, !.todo = todo, !.next = <<"syntax">>]
  /\ checked' = checked + Len(todo)
  /\ seen' = {recipe}
  /\ UNCHANGED <<recipe, lookups, rewritten>>

(* A file whose syntax check fails is not checked any further.              *)
After(kind, f, fails) ==
  IF kind # "syntax" THEN Tail(check.next)
  ELSE IF fails \/ f \notin YamlFiles THEN <<>> ELSE Further(check.tool, check.strict)

\* A check has failed or not, and is over or not.
Result(f, kind, fails, over) ==
  LET failed == check.failed \cup (IF fails THEN {<<f, kind>>} ELSE {})
      rest == After(kind, f, fails)
  IN  [check EXCEPT
         !.failed = failed,
         !.todo = IF over /\ rest = <<>> THEN Tail(@) ELSE @,
         !.next = IF ~over THEN @ ELSE IF rest # <<>> THEN rest ELSE <<"syntax">>,
         !.code = IF failed # {} THEN 1 ELSE 0]

(* Each check loads the file for itself; the lookups of a strict path check *)
(* come after its load.  Without --strict they find nothing.                *)
CheckOne ==
  /\ check.todo # <<>> /\ lookups = {}
  /\ LET f == Head(check.todo)
         kind == Head(check.next)
     IN  \/ /\ Raises(kind, recipe, f)
            /\ check' = [check EXCEPT !.failed = @ \cup {<<f, "raised">>},
                                     !.todo = <<>>, !.next = <<>>, !.code = 1]
            /\ lookups' = {}
         \/ /\ ~Raises(kind, recipe, f)
            /\ lookups' = IF /\ kind = "path" /\ check.strict
                             /\ Loads(recipe, f) /\ recipe[f].mapping
                          THEN Lookups(f, recipe[f]) ELSE {}
            /\ check' = Result(f, kind, Fails(kind, recipe, f), lookups' = {})
  /\ UNCHANGED <<recipe, checked, rewritten, seen>>

(* One of the files that a name may mean is looked for: the first that is   *)
(* there is enough, and a name without one is missing.                      *)
LookUp(t) ==
  LET sameName == {u \in lookups : u[1] = t[1]}
      found == recipe[t[2]] # Absent
  IN  /\ t \in lookups
      /\ lookups' = lookups \ (IF found THEN sameName ELSE {t})
      /\ check' = Result(Head(check.todo), "path", ~found /\ sameName = {t}, lookups' = {})
      /\ UNCHANGED <<recipe, checked, rewritten, seen>>

-----------------------------------------------------------------------------
(* dev_editor.py --validate: what is said of a practice stands after the    *)
(* loop over its category, so only the last one of each is reported.        *)

Reported(doc) ==
  {Practices[c][Len(Practices[c])] : c \in {d \in DOMAIN Practices : Practices[d] # <<>>}}
    \ doc.meets

Validate(f) ==
  /\ check.todo = <<>> /\ checked < MaxChecked
  /\ LET doc == recipe[f]
         invalid == doc = Absent \/ ~doc.parses
         said == IF doc = Absent THEN {} ELSE Reported(doc)
     IN  check' = [NoCheck EXCEPT
           !.tool = "editor", !.of = {f},
           !.failed = {<<f, p>> : p \in said} \cup (IF invalid THEN {<<f, "syntax">>} ELSE {}),
           !.code = IF invalid \/ said \cap AutoApply # {} THEN 1 ELSE 0]
  /\ checked' = checked + 1
  /\ seen' = {recipe}
  /\ UNCHANGED <<recipe, lookups, rewritten>>

-----------------------------------------------------------------------------
(* Another tool or agent writes or deletes a file.                          *)
Rewrite(f, doc) ==
  /\ rewritten < MaxRewritten /\ recipe[f] # doc
  /\ recipe' = [recipe EXCEPT ![f] = doc]
  /\ rewritten' = rewritten + 1
  /\ seen' = IF check.todo = <<>> THEN seen ELSE seen \cup {recipe'}
  /\ UNCHANGED <<check, lookups, checked>>

ChecksInit ==
  /\ recipe \in [Recipes -> Documents \cup {Absent}]
  /\ check = NoCheck /\ lookups = {} /\ checked = 0 /\ rewritten = 0 /\ seen = {}

Tools == {"files", "validate", "roundtrip", "path-check"}
Todos == {<<f>> : f \in Recipes} \cup {<<f, g>> : f, g \in Recipes}

ChecksNext ==
  \/ \E tool \in Tools, strict \in BOOLEAN, todo \in Todos : BeginImmune(tool, strict, todo)
  \/ CheckOne
  \/ \E t \in lookups : LookUp(t)
  \/ \E f \in Recipes : Validate(f)
  \/ \E f \in Recipes, doc \in Documents \cup {Absent} : Rewrite(f, doc)

ChecksSpec == ChecksInit /\ [][ChecksNext]_validationVars

-----------------------------------------------------------------------------
CheckEnded == check.tool # "none" /\ check.todo = <<>>
Passed == CheckEnded /\ check.code = 0
Sometimes(holds(_)) == \E files \in seen : holds(files)
Complete(files, f) == files[f].mapping => files[f].fields = Required
\* A file that the name may mean was there, or none of them at some moment each.
Found(f, name) == \E files \in seen : \E c \in Candidates[<<f, name>>] : files[c] # Absent
Missed(f, name) == \A c \in Candidates[<<f, name>>] : \E files \in seen : files[c] = Absent

Reachable(files, f) ==
  LET hidden == IF files[f].top.kind = "none" THEN {} ELSE files[f].below.names
  IN  files[f].mapping =>
        \A n \in files[f].top.names \cup (files[f].below.names \ hidden) : Found(f, n)

(* What --strict passes did load, with all its fields, and each name of a   *)
(* sub-recipe meant a file that was there, except the names below `agents`  *)
(* that a sub_recipes hides; each of it at some moment of the check, at one *)
(* and the same only if nobody wrote.  This holds for every file of the     *)
(* arguments.                                                               *)
PassedIsUsable ==
  Passed /\ check.tool # "editor" =>
    \A f \in check.of \cap YamlFiles :
      /\ Sometimes(LAMBDA files : files[f].parses)
      /\ check.strict =>
           /\ Sometimes(LAMBDA files : files[f].parses /\ Complete(files, f))
           /\ Sometimes(LAMBDA files : files[f].parses /\ Reachable(files, f))
           /\ Sometimes(LAMBDA files : files[f].parses /\ files[f].same)

(* A check fails only for what was wrong at some moment of it; a name may   *)
(* fail though one of its files was there at every moment, when it moved    *)
(* from the place that is looked at last to one that was looked at before.  *)
Broken(files, f) ==
  ~(files[f].parses /\ files[f].same /\ Complete(files, f))
    \/ (files[f].mapping /\ (Listing(files[f]).kind = "odd"
                             \/ \E n \in Referenced(files[f]) : Missed(f, n)))
FailedIsBroken ==
  CheckEnded /\ check.code # 0 /\ HasYaml =>
    Sometimes(LAMBDA files : \E f \in check.of :
      \/ f \in YamlFiles /\ Broken(files, f)
      \/ check.tool = "editor" /\ (~files[f].parses \/ AutoApply \ files[f].meets # {}))

(* --validate reports practices that the recipe does not meet, and one that *)
(* it keeps silent about is followed by another of its category.            *)
ReportIsTrue ==
  CheckEnded /\ check.tool = "editor" =>
    \A f \in check.of : Sometimes(LAMBDA files : files[f] # Absent =>
      \A c \in DOMAIN Practices : \A i \in DOMAIN Practices[c] :
        LET unmet == Practices[c][i] \notin files[f].meets
            said == <<f, Practices[c][i]>> \in check.failed
        IN  (said => unmet) /\ (unmet /\ ~said => i < Len(Practices[c])))

(* What the two checks say of a recipe is true of what they read.           *)
ChecksSound == PassedIsUsable /\ FailedIsBroken /\ ReportIsTrue
=============================================================================
