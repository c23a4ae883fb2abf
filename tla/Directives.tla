----------------------------- MODULE Directives -----------------------------
(***************************************************************************)
(* Two ways to change the repository without an operator who edits it.     *)
(* dev_directive_applier.py lets an agent apply a directive, unless a      *)
(* marker file names it; the agent itself is to call the hook that writes  *)
(* the marker.  dev_recursion_override.py applies the patches that were    *)
(* found CONFORM, if the costs of the day allow it.                        *)
(***************************************************************************)
EXTENDS Integers, Sequences, FiniteSets

CONSTANTS
  Agents,       \* processes that call the applier
  DirectiveIds,
  Patches,      \* the CONFORM entries of validation.yaml, applied in any order
  Brings,       \* patch -> the patches whose text to be found is in its replacement
  MaxOccurs,    \* bound: how often a text to be found is in its file at first
  Incomplete,   \* patches without a file, a text to find or a replacement
  GateModes,    \* gate.daily: "block", "warn"
  MaxApplied    \* bound: how often a directive or a patch is applied

ASSUME DirectivesAssumption ==
  /\ Brings \in [Patches -> SUBSET Patches] /\ Incomplete \subseteq Patches
  /\ MaxOccurs \in Nat
  /\ GateModes \subseteq {"block", "warn"} /\ MaxApplied \in Nat
  /\ IsFiniteSet(Agents)

VARIABLES
  marker,    \* directive_already_applied.json: [state, names]
  hook,      \* agent -> its call
  applied,   \* directive -> how often an agent carried it out
  posted,    \* observation: directives whose post-apply hook ended
  why,       \* observation: what may bring a marked directive back
  repeated,  \* observation: carried out unforced although posted
  costs,     \* "none", "unreadable", "below", "over" the budget of the day
  gate,      \* its mode
  occurs,    \* patch -> how often its text to be found is in its file
  first,     \* observation: the same before the first run
  patched,   \* patch -> how often it was applied
  override   \* [pc, left]: the run of the override

directiveVars == <<marker, hook, applied, posted, why, repeated>>
overrideVars == <<costs, gate, occurs, first, patched, override>>

NoHook == [pc |-> "none", what |-> {}, read |-> {}, forced |-> FALSE]
Marker(state, names) == [state |-> state, names |-> names]
OthersIn(a) == \E b \in Agents \ {a} : hook[b].pc # "none"

-----------------------------------------------------------------------------
(* The marker file is "part" when a write of it was cut off, and "empty"    *)
(* when it was only opened: json.loads(read_text() or '{}') raises for the  *)
(* one and finds no directives in the other.                                *)
Readable == marker.state # "part"

(* --apply: the pre-apply check ...                                         *)
PreApply(a, d, forced) ==
  /\ hook[a].pc = "none" /\ applied[d] < MaxApplied
  /\ Readable /\ (d \in marker.names => forced)
  /\ hook' = [hook EXCEPT ![a] = [pc |-> "goose", what |-> {d}, read |-> {}, forced |-> forced]]
  /\ why' = IF OthersIn(a) THEN why \cup {"overlap"} ELSE why
  /\ UNCHANGED <<marker, applied, posted, repeated, overrideVars>>

(* ... and goose, which carries the directive out or not, whether it        *)
(* returns 0, fails or is stopped after 300 seconds.                        *)
Goose(a, carriesOut) ==
  /\ hook[a].pc = "goose"
  /\ hook' = [hook EXCEPT ![a] = NoHook]
  /\ IF carriesOut
     THEN \E d \in hook[a].what :
            /\ applied' = [applied EXCEPT ![d] = @ + 1]
            /\ repeated' = IF d \in posted /\ ~hook[a].forced THEN repeated \cup {d} ELSE repeated
     ELSE UNCHANGED <<applied, repeated>>
  /\ UNCHANGED <<marker, posted, why, overrideVars>>

(* --hook post-apply, once the agent is through with a directive.  The test *)
(* run and the scan decide about the answer only, but one that takes too    *)
(* long ends the hook: nothing has happened then.                           *)
PostRead(a, d) ==
  /\ hook[a].pc = "none" /\ applied[d] > 0 /\ Readable
  /\ hook' = [hook EXCEPT ![a] = [pc |-> "read", what |-> {d}, read |-> marker.names,
                                   forced |-> FALSE]]
  /\ why' = IF OthersIn(a) THEN why \cup {"overlap"} ELSE why
  /\ UNCHANGED <<marker, applied, posted, repeated, overrideVars>>
PostTruncate(a) ==
  /\ hook[a].pc = "read"
  /\ marker' = Marker("empty", {})
  /\ hook' = [hook EXCEPT ![a].pc = "write"]
  /\ UNCHANGED <<applied, posted, why, repeated, overrideVars>>
(* Mutation: the marker names the last directive only.                      *)
PostWriteLast(a) ==
  /\ hook[a].pc = "write"
  /\ marker' = Marker("list", hook[a].what)
  /\ posted' = posted \cup hook[a].what
  /\ hook' = [hook EXCEPT ![a] = NoHook]
  /\ UNCHANGED <<applied, why, repeated, overrideVars>>

PostWrite(a) ==
  /\ hook[a].pc = "write"
  /\ marker' = Marker("list", hook[a].read \cup hook[a].what)
  /\ posted' = posted \cup hook[a].what
  /\ hook' = [hook EXCEPT ![a] = NoHook]
  /\ UNCHANGED <<applied, why, repeated, overrideVars>>

(* An agent that dies in the write, or cannot write, leaves the file empty, *)
(* or a part of it, which an operator has to remove.                        *)
AgentDies(a) ==
  /\ hook[a].pc \in {"read", "write"}
  /\ hook' = [hook EXCEPT ![a] = NoHook]
  /\ IF hook[a].pc = "write"
     THEN why' = why \cup {"died"} /\ marker' \in {marker, Marker("part", {})}
     ELSE UNCHANGED <<why, marker>>
  /\ UNCHANGED <<applied, posted, repeated, overrideVars>>
OperatorRemoves ==
  /\ ~Readable /\ \A a \in Agents : hook[a].pc # "write"
  /\ marker' = Marker("absent", {})
  /\ UNCHANGED <<hook, applied, posted, why, repeated, overrideVars>>

-----------------------------------------------------------------------------
(* check_cost_gate(): without a readable database nothing is refused.       *)
GateOpen == costs \in {"none", "unreadable", "below"} \/ gate = "warn"

OverrideStarts ==
  /\ override.pc = "idle" /\ GateOpen /\ Patches # {}
  /\ override' = [pc |-> "patching", left |-> Patches]
  /\ UNCHANGED <<directiveVars, costs, gate, occurs, first, patched>>

(* apply_patch(): the first occurrence is replaced.  already_applied()      *)
(* looks for a key `file` that no entry of log_change() has, and finds      *)
(* nothing.                                                                 *)
OverridePatches(p) ==
  /\ override.pc = "patching" /\ p \in override.left
  /\ override' = [override EXCEPT !.left = @ \ {p}]
  /\ IF occurs[p] > 0 /\ p \notin Incomplete
     THEN /\ patched[p] < MaxApplied
          /\ patched' = [patched EXCEPT ![p] = @ + 1]
          /\ occurs' = [q \in Patches |-> occurs[q] - (IF q = p THEN 1 ELSE 0)
                                                   + (IF q \in Brings[p] THEN 1 ELSE 0)]
     ELSE UNCHANGED <<occurs, patched>>
  /\ UNCHANGED <<directiveVars, costs, gate, first>>

(* Every run that went so far exits with 0 and adds an entry to the ledger. *)
OverrideEnds ==
  /\ override.pc = "patching" /\ override.left = {}
  /\ override' = [pc |-> "idle", left |-> {}]
  /\ UNCHANGED <<directiveVars, costs, gate, occurs, first, patched>>

CostsChange(c) ==
  /\ override.pc = "idle" /\ costs' = c
  /\ UNCHANGED <<directiveVars, gate, occurs, first, patched, override>>

DirectivesInit ==
  /\ marker = Marker("absent", {}) /\ hook = [a \in Agents |-> NoHook]
  /\ applied = [d \in DirectiveIds |-> 0] /\ posted = {} /\ why = {} /\ repeated = {}
  /\ costs = "below" /\ gate \in GateModes
  /\ occurs \in [Patches -> 0..MaxOccurs] /\ first = occurs
  /\ patched = [p \in Patches |-> 0]
  /\ override = [pc |-> "idle", left |-> {}]

DirectiveNext ==
  \/ \E a \in Agents, d \in DirectiveIds, forced \in BOOLEAN : PreApply(a, d, forced)
  \/ \E a \in Agents, carriesOut \in BOOLEAN : Goose(a, carriesOut)
  \/ \E a \in Agents, d \in DirectiveIds : PostRead(a, d)
  \/ \E a \in Agents : PostTruncate(a)
  \/ \E a \in Agents : PostWrite(a)
  \/ \E a \in Agents : AgentDies(a)
  \/ OperatorRemoves

OverrideNext ==
  \/ OverrideStarts
  \/ \E p \in Patches : OverridePatches(p)
  \/ OverrideEnds
  \/ \E c \in {"none", "unreadable", "below", "over"} : CostsChange(c)

DirectivesSpec ==
  DirectivesInit /\ [][DirectiveNext \/ OverrideNext]_<<directiveVars, overrideVars>>

-----------------------------------------------------------------------------
DirectivesTypeOK ==
  /\ marker \in [state : {"absent", "empty", "part", "list"}, names : SUBSET DirectiveIds]
  /\ hook \in [Agents -> [pc : {"none", "goose", "read", "write"}, what : SUBSET DirectiveIds,
                          read : SUBSET DirectiveIds, forced : BOOLEAN]]
  /\ applied \in [DirectiveIds -> 0..(MaxApplied + Cardinality(Agents))]
  /\ posted \in SUBSET DirectiveIds /\ repeated \in SUBSET DirectiveIds
  /\ why \in SUBSET {"overlap", "died"}
  /\ occurs \in [Patches -> Nat] /\ first \in [Patches -> 0..MaxOccurs] /\ patched \in [Patches -> 0..MaxApplied]
  /\ override \in [pc : {"idle", "patching"}, left : SUBSET Patches]

(* A directive whose post-apply hook ended is not carried out again without *)
(* --force, unless two calls overlapped or an agent died in the write of    *)
(* the marker, which then names no directive at all.                        *)
RepeatedHasCause == repeated # {} => why # {}

(* A text that no replacement brings is replaced as often as it was there   *)
(* before the first run, however often the override runs: nothing else      *)
(* keeps the override from repeating itself.                                *)
PatchedAsFound ==
  \A p \in Patches : (\A q \in Patches : p \notin Brings[q]) => patched[p] + occurs[p] = first[p]

(* A directive is applied a second time only for a named cause, and a text  *)
(* is patched as often as it was found.                                     *)
DirectivesSound == DirectivesTypeOK /\ RepeatedHasCause /\ PatchedAsFound
=============================================================================
