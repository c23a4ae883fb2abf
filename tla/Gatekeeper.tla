----------------------------- MODULE Gatekeeper -----------------------------
(***************************************************************************)
(* dev_gatekeeper.py: a write, edit, delete or shell command that goes     *)
(* through the gate.  Each rule is looked up in a file that others write   *)
(* too: the confirmation, the checkpoints, and the audit log, whose last   *)
(* line has to be a delegation.  A rule that fails is logged at once, a    *)
(* command that passes before it is performed.                             *)
(***************************************************************************)
EXTENDS Integers, FiniteSets

CONSTANTS
  Gates,           \* processes of the gatekeeper
  Requests,        \* the commands: see Request
  MaxDelegations,  \* bound: delegations to the action-executor
  MaxRequests,     \* bound: commands
  MaxOutside       \* bound: changes of the confirmation, the checkpoints, the lock

(* A command: what it is, where its target lies, the second argument, where *)
(* the last word of all arguments does, and whether a content that R10      *)
(* parses does so.  A path is "home": under /home and without mas-engineer; *)
(* "git": with .git/ in it; "elsewhere": neither, in the MAS or not.  A     *)
(* shell command is a "tool" when it names mas-engineer/tools/ without      *)
(* dev_build or dev_install.                                                *)
Request(type, target, lastWord, parses) ==
  [type |-> type, target |-> target, lastWord |-> lastWord, parses |-> parses]

ASSUME GateAssumption ==
  /\ IsFiniteSet(Gates)
  /\ MaxDelegations \in Nat /\ MaxRequests \in Nat /\ MaxOutside \in Nat

Nobody == 0
Blocked == -1    \* a last line of the log that is no delegation

VARIABLES
  lastLine,     \* of the audit log: Nobody, a delegation, or Blocked
  approved,     \* commands the log has approved
  performed,     \* commands that were performed
  fresh,        \* which of "confirmation" (5 min) and "checkpoint" (30 min) are new
  frozen,       \* the lock file
  keeper,         \* process -> the rule it checks next, its request, what it found
  used,         \* observation: gate -> delegation -> performed commands
  reached,      \* observation: the deletes that were performed
  delegations, requests, outside

gateVars == <<lastLine, approved, performed, fresh, frozen, keeper, used, reached, delegations, requests, outside>>

Delegations == 1..MaxDelegations
Closed == [at |-> "idle", request |-> CHOOSE r \in Requests : TRUE, line |-> Nobody, ok |-> TRUE]

\* PRUEF_MATRIX, without R20, which always holds; a shell command and a
\* delete have no R10, but it holds for them, as R05 does for the first.
Following == [R01 |-> "R18", R18 |-> "R19", R19 |-> "R10", R10 |-> "R05", R05 |-> "verdict"]

(* check_r19() looks at the last word, whatever is written or deleted.      *)
Request19(r) ==
  /\ r.type \in {"write", "edit", "delete"} => r.lastWord \notin {"home", "git"}
  /\ r.type = "shell" => r.lastWord # "tool"
Request10(r) == r.type \in {"write", "edit"} => r.parses

Holds(rule, p) ==
  CASE rule = "R01" -> "confirmation" \in fresh
    [] rule = "R18" -> lastLine \in Delegations
    [] rule = "R19" -> Request19(keeper[p].request)
    [] rule = "R10" -> Request10(keeper[p].request)
    [] rule = "R05" -> keeper[p].request.type = "shell" \/ "checkpoint" \in fresh

OpenGate(p) == \E r \in Requests :
  /\ keeper[p].at = "idle" /\ ~frozen /\ requests < MaxRequests
  /\ requests' = requests + 1
  /\ keeper' = [keeper EXCEPT ![p] = [Closed EXCEPT !.at = "R01", !.request = r]]
  /\ UNCHANGED <<lastLine, approved, performed, fresh, frozen, used, reached, delegations, outside>>

(* One rule.  Its failure is the new last line, which R18 then finds.       *)
CheckRule(p) ==
  /\ keeper[p].at \in DOMAIN Following
  /\ LET rule == keeper[p].at
         ok == Holds(rule, p)
     IN  /\ keeper' = [keeper EXCEPT ![p].at = Following[rule], ![p].ok = @ /\ ok,
                                 ![p].line = IF rule = "R18" THEN lastLine ELSE @]
         /\ lastLine' = IF ok THEN lastLine ELSE Blocked
  /\ UNCHANGED <<approved, performed, fresh, frozen, used, reached, delegations, requests, outside>>

(* A refusal; or a confirmation, a last line or a checkpoint whose text is  *)
(* no number or entry, which raises.                                        *)
Refuse(p) ==
  /\ \/ keeper[p].at = "verdict" /\ ~keeper[p].ok
     \/ keeper[p].at \in {"R01", "R18", "R05"}
  /\ keeper' = [keeper EXCEPT ![p] = Closed]
  /\ UNCHANGED <<lastLine, approved, performed, fresh, frozen, used, reached, delegations, requests, outside>>

\* Mutation: what is approved is not logged.
ApproveSilently(p) ==
  /\ keeper[p].at = "verdict" /\ keeper[p].ok
  /\ keeper' = [keeper EXCEPT ![p].at = "execute"]
  /\ UNCHANGED <<lastLine, approved, performed, fresh, frozen, used, reached, delegations, requests, outside>>

Approve(p) ==
  /\ keeper[p].at = "verdict" /\ keeper[p].ok
  /\ lastLine' = Blocked
  /\ approved' = approved + 1
  /\ keeper' = [keeper EXCEPT ![p].at = "execute"]
  /\ UNCHANGED <<performed, fresh, frozen, used, reached, delegations, requests, outside>>

\* It is performed, or raises: an edit whose text is not there, a file that
\* cannot be written, a process that dies.
Execute(p) ==
  /\ keeper[p].at = "execute"
  /\ keeper' = [keeper EXCEPT ![p] = Closed]
  /\ \/ /\ performed' = performed + 1
        /\ used' = [used EXCEPT ![p][keeper[p].line] = @ + 1]
        /\ reached' = IF keeper[p].request.type = "delete"
                      THEN reached \cup {keeper[p].request} ELSE reached
     \/ UNCHANGED <<performed, used, reached>>
  /\ UNCHANGED <<lastLine, approved, fresh, frozen, delegations, requests, outside>>

\* The agents append to the log; only a delegation to the action-executor counts.
Delegate ==
  /\ delegations < MaxDelegations
  /\ delegations' = delegations + 1
  /\ lastLine' = delegations'
  /\ UNCHANGED <<approved, performed, fresh, frozen, keeper, used, reached, requests, outside>>

Outside ==
  /\ outside < MaxOutside
  /\ outside' = outside + 1
  /\ \/ fresh' \in SUBSET {"confirmation", "checkpoint"} /\ fresh' # fresh /\ UNCHANGED frozen
     \/ frozen' = ~frozen /\ UNCHANGED fresh
  /\ UNCHANGED <<lastLine, approved, performed, keeper, used, reached, delegations, requests>>

GateInit ==
  /\ lastLine = Nobody /\ approved = 0 /\ performed = 0 /\ frozen = FALSE
  /\ fresh \in {{}, {"confirmation", "checkpoint"}}
  /\ keeper = [p \in Gates |-> Closed]
  /\ used = [p \in Gates |-> [d \in Delegations |-> 0]] /\ reached = {}
  /\ delegations = 0 /\ requests = 0 /\ outside = 0

GateNext ==
  \/ Delegate \/ Outside
  \/ \E p \in Gates : OpenGate(p) \/ CheckRule(p) \/ Refuse(p) \/ Approve(p) \/ Execute(p)

GateSpec == GateInit /\ [][GateNext]_gateVars

-----------------------------------------------------------------------------
(* A delegation is good for one command.  Several gates that look at once    *)
(* may each execute one, a single gate never a second, whatever it performed *)
(* or refused before.                                                        *)
OneCommandEach == \A p \in Gates, d \in Delegations : used[p][d] <= 1

(* Two commands on one delegation were both checked before the first of     *)
(* them was logged: a delegation that is no longer the last line opens no   *)
(* gate that has yet to look.                                               *)
OpenedBeforeLogged ==
  \A p \in Gates :
    keeper[p].at \in {"R19", "R10", "R05", "verdict", "execute"} /\ keeper[p].ok =>
      keeper[p].line \in Delegations /\ used[p][keeper[p].line] = 0

(* What was performed is in the log, which never runs behind.               *)
LoggedBefore == performed + Cardinality({p \in Gates : keeper[p].at = "execute"}) <= approved

(* A delete reaches .git/ or another directory of /home only with a second  *)
(* word that R19 looks at in place of the target.                           *)
DeletesAreSeen ==
  \A r \in reached : r.target \in {"home", "git"} => r.lastWord # r.target

(* A command is performed once per delegation, after it was logged, and not *)
(* on what R19 sees to be forbidden.                                        *)
GateSound == OneCommandEach /\ OpenedBeforeLogged /\ LoggedBefore /\ DeletesAreSeen
=============================================================================
