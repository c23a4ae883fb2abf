---------------------------- MODULE GenericRules ----------------------------
(***************************************************************************)
(* dev_rule_checker_generic.py in a project: --action checks a planned     *)
(* action against the user's rules.yaml and the confirmation.  On the way  *)
(* it counts the actions of some types that it did not refuse by then, in  *)
(* .rule_strikes.json, and the third of a type adds a rule to rules.yaml,  *)
(* after a copy to rules.yaml.bak.auto.  dev_generic_init writes the same  *)
(* rules.yaml, and the user does.  Nothing is locked, and what cannot be   *)
(* read counts as no rules.                                                *)
(***************************************************************************)
EXTENDS Integers, FiniteSets

CONSTANTS
  Checkers,    \* processes
  Types,       \* action types that analyse_action_type() counts
  Plans,       \* planned actions: the types, "import", "foreign", "existing", "plain"
  Domains,     \* is there a registry of domains, with an active one
  Large,       \* has the project 20 files or more
  NoTally,
  FirstTallies, \* contents of .rule_strikes.json at the start, NoTally without the file
  MaxPlans,    \* bound: planned actions
  MaxDeaths,   \* bound: processes that die
  MaxAnswers   \* bound: confirmations and other changes from outside

ASSUME GenericAssumption ==
  /\ IsFiniteSet(Checkers) /\ Domains \in BOOLEAN /\ Large \in BOOLEAN
  /\ FirstTallies \subseteq {NoTally} \cup [Types -> Nat]
  /\ MaxPlans \in Nat /\ MaxDeaths \in Nat /\ MaxAnswers \in Nat

(* rules.yaml: a list of rules, among them R01 and R02 or not, and          *)
(* generated ones with a hardness; the mapping that dev_generic_init writes *)
(* without its template; an empty file, as open() leaves it; a torn one.    *)
Rules(form, guards, gen) == [form |-> form, guards |-> guards, gen |-> gen]
NoneGenerated == [t \in Types |-> 0]
NoRules == Rules("absent", FALSE, NoneGenerated)
EmptyRules == Rules("empty", FALSE, NoneGenerated)
DefaultRules == Rules("keyed", FALSE, NoneGenerated)
TemplateRules == Rules("list", FALSE, NoneGenerated)
MASRules == Rules("list", TRUE, NoneGenerated)

(* What a process leaves of a file in whose writing it dies: the generated  *)
(* rules come last.                                                         *)
CutShort(r) ==
  {EmptyRules, Rules("torn", FALSE, NoneGenerated), Rules(r.form, r.guards, NoneGenerated)}

VARIABLES
  userRules,   \* rules.yaml
  backup,      \* rules.yaml.bak.auto
  tally,       \* .rule_strikes.json, or NoTally
  confirmed,   \* is .last_confirmation less than 5 minutes old
  checker,     \* process -> what it does
  copier,      \* the rules dev_generic_init is writing, NoRules when it is not
  guarded,     \* observation: R01 has been put into rules.yaml
  planned,     \* observation: type -> planned actions that were counted or read
  generated,   \* observation: type -> generations that were begun
  unconfirmed, \* observation: R01 was in rules.yaml before and did not refuse
  incidents,   \* observation: "copied" over rules, "cut" in it, "overlap" of two writers
  plans, deaths, answers

genericVars == <<userRules, backup, tally, confirmed, checker, copier, guarded, planned,
                 generated, unconfirmed, incidents, plans, deaths, answers>>

initVars == <<copier, incidents>>

Resting == [at |-> "idle", plan |-> "plain", tally |-> [t \in Types |-> 0], rules |-> NoRules]
To(p, place) == checker' = [checker EXCEPT ![p].at = place]
Overlapping(now) == IF now THEN {"overlap"} ELSE {}

-----------------------------------------------------------------------------
(* check_user_imports() and check_domain_isolation_generic() come first:    *)
(* what they refuse is not counted.                                         *)
RefusedAtOnce(a) == a = "import" \/ (a = "foreign" /\ Domains)

PlanAction(p, a) ==
  /\ checker[p].at = "idle" /\ plans < MaxPlans
  /\ plans' = plans + 1
  /\ checker' = IF RefusedAtOnce(a) THEN checker
                ELSE [checker EXCEPT ![p].at = "count", ![p].plan = a]
  /\ planned' = IF a \in Types THEN [planned EXCEPT ![a] = @ + 1] ELSE planned
  /\ UNCHANGED <<userRules, backup, tally, confirmed, initVars, guarded, generated,
                 unconfirmed, deaths, answers>>

(* check_strikes(): the first call only creates the file; one that another  *)
(* process is writing cannot be read and counts as empty.                   *)
Counted(s, a) == [s EXCEPT ![a] = @ + 1]

Count(p) ==
  /\ checker[p].at = "count"
  /\ \/ /\ tally = NoTally
        /\ tally' = [t \in Types |-> 0] /\ To(p, "check")
     \/ /\ tally # NoTally /\ checker[p].plan \notin Types
        /\ To(p, "check") /\ UNCHANGED tally
     \/ /\ tally # NoTally /\ checker[p].plan \in Types
        /\ \E s \in {tally} \cup (IF \E q \in Checkers : checker[q].at \in {"tally", "tidy"}
                                  THEN {[t \in Types |-> 0]} ELSE {}) :
             checker' = [checker EXCEPT ![p].at = "tally", ![p].tally = Counted(s, checker[p].plan)]
        /\ UNCHANGED tally
  /\ UNCHANGED <<userRules, backup, confirmed, initVars, guarded, planned, generated,
                 unconfirmed, plans, deaths, answers>>

SaveTally(p) ==
  /\ checker[p].at = "tally"
  /\ tally' = checker[p].tally
  /\ To(p, IF checker[p].tally[checker[p].plan] >= 3 THEN "copy" ELSE "check")
  /\ UNCHANGED <<userRules, backup, confirmed, initVars, guarded, planned, generated,
                 unconfirmed, plans, deaths, answers>>

(* generiere_rule(): copy, read, truncate, write.  An empty file is read as *)
(* a list without rules; the mapping and a torn file raise.                 *)
Copy(p) ==
  /\ checker[p].at = "copy"
  /\ IF userRules.form = "absent"
     THEN To(p, "tidy") /\ UNCHANGED <<backup, generated, incidents>>
     ELSE /\ To(p, "read") /\ backup' = userRules
          /\ generated' = [generated EXCEPT ![checker[p].plan] = @ + 1]
          /\ incidents' = incidents \cup Overlapping(copier # NoRules)
  /\ UNCHANGED <<userRules, tally, confirmed, copier, guarded, planned, unconfirmed,
                 plans, deaths, answers>>

Harder(h) == IF h = 0 THEN 4 ELSE IF h < 5 THEN h + 1 ELSE 5

ReadRules(p) ==
  /\ checker[p].at = "read"
  /\ IF userRules.form \in {"keyed", "torn"} THEN To(p, "idle")
     ELSE checker' = [checker EXCEPT ![p].at = "truncate", ![p].rules =
            Rules("list", userRules.guards, [userRules.gen EXCEPT ![checker[p].plan] = Harder(@)])]
  /\ UNCHANGED <<userRules, backup, tally, confirmed, initVars, guarded, planned, generated,
                 unconfirmed, plans, deaths, answers>>

TruncateRules(p) ==
  /\ checker[p].at = "truncate"
  /\ userRules' = EmptyRules
  /\ To(p, "write")
  /\ UNCHANGED <<backup, tally, confirmed, initVars, guarded, planned, generated,
                 unconfirmed, plans, deaths, answers>>

WriteRules(p) ==
  /\ checker[p].at = "write"
  /\ userRules' = checker[p].rules
  /\ To(p, "tidy")
  /\ UNCHANGED <<backup, tally, confirmed, initVars, guarded, planned, generated,
                 unconfirmed, plans, deaths, answers>>

Tidy(p) ==
  /\ checker[p].at = "tidy"
  /\ tally' = [checker[p].tally EXCEPT ![checker[p].plan] = 0]
  /\ To(p, "check")
  /\ UNCHANGED <<userRules, backup, confirmed, initVars, guarded, planned, generated,
                 unconfirmed, plans, deaths, answers>>

\* Mutation: the confirmation is not looked at.
NoR01(r, fresh) == FALSE

(* check_all(): R01 refuses what is not confirmed in every profile, R02     *)
(* what overwrites a file in all but small projects; a generated rule has   *)
(* no check and refuses nothing; the mapping raises, which refuses.         *)
RefusesR01(r, fresh) == r.guards /\ ~fresh
RefusesR02(r, a) == r.guards /\ Large /\ a = "existing"
Approved(r, a, fresh) == r.form # "keyed" /\ ~RefusesR01(r, fresh) /\ ~RefusesR02(r, a)

Check(p) ==
  /\ checker[p].at = "check"
  /\ unconfirmed' = (unconfirmed \/
       (guarded /\ ~confirmed /\ Approved(userRules, checker[p].plan, confirmed)))
  /\ checker' = [checker EXCEPT ![p] = Resting]
  /\ UNCHANGED <<userRules, backup, tally, confirmed, initVars, guarded, planned, generated,
                 plans, deaths, answers>>

(* Whoever dies in a write leaves part of the file, in that of the counts   *)
(* one that counts as empty.                                                *)
CheckerDies(p) ==
  /\ checker[p].at # "idle" /\ deaths < MaxDeaths
  /\ deaths' = deaths + 1
  /\ userRules' \in {userRules} \cup
       (IF checker[p].at = "write" THEN CutShort(checker[p].rules) ELSE {})
  /\ tally' \in {tally} \cup
       (IF checker[p].at \in {"tally", "tidy"} THEN {[t \in Types |-> 0]} ELSE {})
  /\ \/ UNCHANGED <<backup, generated>>
     \/ /\ checker[p].at = "copy" /\ userRules.form # "absent" /\ backup' \in CutShort(userRules)
        /\ generated' = [generated EXCEPT ![checker[p].plan] = @ + 1]
  /\ checker' = [checker EXCEPT ![p] = Resting]
  /\ UNCHANGED <<confirmed, initVars, guarded, planned, unconfirmed, plans, answers>>

Generating == \E p \in Checkers : checker[p].at \in {"read", "truncate", "write"}

(* --confirm, and dev_generic_init with the state component, which writes   *)
(* the same file; five minutes go by.                                       *)
Confirm ==
  /\ answers < MaxAnswers
  /\ answers' = answers + 1 /\ confirmed' = ~confirmed
  /\ UNCHANGED <<userRules, backup, tally, checker, initVars, guarded, planned, generated,
                 unconfirmed, plans, deaths>>

(* The user adds R01 and R02, at any time.                                  *)
UserEdits ==
  /\ answers < MaxAnswers
  /\ answers' = answers + 1
  /\ userRules' = Rules("list", TRUE, userRules.gen) /\ guarded' = TRUE
  /\ incidents' = incidents \cup Overlapping(Generating \/ copier # NoRules)
  /\ UNCHANGED <<backup, tally, confirmed, checker, copier, planned, generated, unconfirmed,
                 plans, deaths>>

(* dev_generic_init: create_rules() where there is no file, from its        *)
(* template or without; copy_rules_full() over whatever there is.           *)
InitOpens ==
  /\ copier = NoRules /\ answers < MaxAnswers
  /\ answers' = answers + 1
  /\ copier' \in (IF userRules.form = "absent" THEN {TemplateRules, DefaultRules} ELSE {MASRules})
  /\ userRules' = EmptyRules
  /\ incidents' = incidents \cup (IF userRules.form = "absent" THEN {} ELSE {"copied"})
                            \cup Overlapping(Generating)
  /\ UNCHANGED <<backup, tally, confirmed, checker, guarded, planned, generated, unconfirmed,
                 plans, deaths>>

InitWrites ==
  /\ copier # NoRules
  /\ userRules' = copier /\ guarded' = (guarded \/ copier.guards) /\ copier' = NoRules
  /\ UNCHANGED <<backup, tally, confirmed, checker, planned, generated, unconfirmed, incidents,
                 plans, deaths, answers>>

InitDies ==
  /\ copier # NoRules /\ deaths < MaxDeaths
  /\ deaths' = deaths + 1
  /\ userRules' \in CutShort(copier) /\ copier' = NoRules
  /\ incidents' = incidents \cup {"cut"}
  /\ UNCHANGED <<backup, tally, confirmed, checker, guarded, planned, generated, unconfirmed,
                 plans, answers>>

GenericInit ==
  /\ userRules = NoRules /\ backup = NoRules /\ tally \in FirstTallies /\ confirmed = FALSE
  /\ checker = [p \in Checkers |-> Resting]
  /\ copier = NoRules /\ incidents = {} /\ guarded = FALSE
  /\ planned = (IF tally = NoTally THEN [t \in Types |-> 0] ELSE tally)
  /\ generated = [t \in Types |-> 0] /\ unconfirmed = FALSE
  /\ plans = 0 /\ deaths = 0 /\ answers = 0

GenericNext ==
  \/ Confirm \/ UserEdits \/ InitOpens \/ InitWrites \/ InitDies
  \/ \E p \in Checkers :
       \/ \E a \in Plans : PlanAction(p, a)
       \/ Count(p) \/ SaveTally(p) \/ Copy(p) \/ ReadRules(p) \/ TruncateRules(p)
       \/ WriteRules(p) \/ Tidy(p) \/ Check(p) \/ CheckerDies(p)

-----------------------------------------------------------------------------
AnyGeneration == \E t \in Types : generated[t] > 0
SeveralGenerations ==
  \E t \in Types : generated[t] > 1 \/ (generated[t] > 0 /\ \E u \in Types \ {t} : generated[u] > 0)

(* As long as no rule is generated and dev_generic_init leaves a rules.yaml *)
(* alone, nothing that R01 guards is approved without a confirmation.       *)
UnconfirmedNeedsGeneration ==
  unconfirmed => AnyGeneration \/ incidents \cap {"copied", "overlap"} # {}

(* One generation does not lose R01, wherever it dies and whatever is       *)
(* checked meanwhile; a second one may, a cut dev_generic_init, and two     *)
(* writers at a time.                                                       *)
OneGenerationLosesNothing ==
  guarded /\ ~SeveralGenerations /\ incidents \cap {"cut", "overlap"} = {} =>
    userRules.guards \/ backup.guards \/ copier.guards

(* Each generated rule took two planned actions of its type and one of its  *)
(* own, however the counts were lost.                                       *)
GeneratedWasCounted == \A t \in Types : generated[t] > 0 => generated[t] <= planned[t] - 2

(* The rules of a project guard it and grow only by what was counted.       *)
GenericSound == UnconfirmedNeedsGeneration /\ OneGenerationLosesNothing /\ GeneratedWasCounted
=============================================================================
