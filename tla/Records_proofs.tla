--------------------------- MODULE Records_proofs ---------------------------
(***************************************************************************)
(* Proofs about the modules of shared files that no lock protects, and of  *)
(* the tools that check an action before it is done.                       *)
(***************************************************************************)
EXTENDS ChangeLedger, CompletedArchive, Directives, ProjectInit, GenericRules, RuleChecker,
        RecipeChecks, ParallelPool, DispatchTracker, FiniteSetTheorems, SequenceTheorems, TLAPS

-----------------------------------------------------------------------------
(* Directives and the override.                                             *)

GooseOn(d) == {a \in Agents : hook[a].pc = "goose" /\ d \in hook[a].what}

DirectiveTypes ==
  /\ marker \in [state : {"absent", "empty", "part", "list"}, names : SUBSET DirectiveIds]
  /\ hook \in [Agents -> [pc : {"none", "goose", "read", "write"}, what : SUBSET DirectiveIds,
                          read : SUBSET DirectiveIds, forced : BOOLEAN]]
  /\ applied \in [DirectiveIds -> Nat]
  /\ posted \in SUBSET DirectiveIds /\ repeated \in SUBSET DirectiveIds
  /\ why \in SUBSET {"overlap", "died"}

(* The agents that may still carry a directive out count as if they had.    *)
FewApplied ==
  \A d \in DirectiveIds :
    applied[d] + Cardinality(GooseOn(d)) <= MaxApplied + Cardinality(Agents)

OneDirective ==
  \A a \in Agents : hook[a].pc # "none" => \E d \in DirectiveIds : hook[a].what = {d}

(* What one call knows of the directives whose hook ended.                  *)
KnowsPosted(a) ==
  /\ hook[a].pc = "goose" => hook[a].forced \/ hook[a].what \cap posted = {}
  /\ hook[a].pc \in {"read", "write"} => posted \subseteq hook[a].read

Undisturbed ==
  why = {} =>
    /\ repeated = {}
    /\ \A a, b \in Agents : hook[a].pc # "none" /\ hook[b].pc # "none" => a = b
    /\ marker.state # "part"
    /\ (\A a \in Agents : hook[a].pc # "write") => posted \subseteq marker.names
    /\ \A a \in Agents : KnowsPosted(a)

OverrideTypes ==
  /\ occurs \in [Patches -> Nat] /\ first \in [Patches -> 0..MaxOccurs]
  /\ patched \in [Patches -> 0..MaxApplied]
  /\ override \in [pc : {"idle", "patching"}, left : SUBSET Patches]

DirectivesInv ==
  /\ DirectiveTypes /\ FewApplied /\ OneDirective /\ Undisturbed
  /\ OverrideTypes /\ PatchedAsFound

HookRecord == [pc : {"none", "goose", "read", "write"}, what : SUBSET DirectiveIds,
               read : SUBSET DirectiveIds, forced : BOOLEAN]

(* The agents on a directive are finitely many, and no more than there are. *)
LEMMA GooseOnFinite ==
  ASSUME NEW d
  PROVE  /\ IsFiniteSet(GooseOn(d)) /\ Cardinality(GooseOn(d)) \in Nat
         /\ IsFiniteSet(GooseOn(d)') /\ Cardinality(GooseOn(d)') \in Nat
         /\ Cardinality(GooseOn(d)) <= Cardinality(Agents)
         /\ Cardinality(GooseOn(d)') <= Cardinality(Agents)
         /\ Cardinality(Agents) \in Nat
<1>1. GooseOn(d) \subseteq Agents /\ GooseOn(d)' \subseteq Agents /\ IsFiniteSet(Agents)
  BY DirectivesAssumption DEF GooseOn
<1>2. IsFiniteSet(GooseOn(d)) /\ Cardinality(GooseOn(d)) <= Cardinality(Agents)
  BY <1>1, FS_Subset
<1>3. IsFiniteSet(GooseOn(d)') /\ Cardinality(GooseOn(d)') <= Cardinality(Agents)
  BY <1>1, FS_Subset
<1> QED  BY <1>1, <1>2, <1>3, FS_CardinalityType

(* What an agent that begins or ends a call does to the calls.              *)
LEMMA HookSet ==
  ASSUME DirectiveTypes, OneDirective, NEW a \in Agents, NEW h \in HookRecord,
         hook' = [hook EXCEPT ![a] = h],
         h.pc = "none" \/ \E d \in DirectiveIds : h.what = {d}
  PROVE  /\ hook' \in [Agents -> HookRecord] /\ hook'[a] = h
         /\ \A b \in Agents : b # a => hook'[b] = hook[b]
         /\ OneDirective'
<1>1. hook \in [Agents -> HookRecord]  BY DEF DirectiveTypes, HookRecord
<1>2. hook' \in [Agents -> HookRecord] /\ hook'[a] = h
      /\ \A b \in Agents : b # a => hook'[b] = hook[b]
  BY <1>1
<1>3. OneDirective'  BY <1>2 DEF OneDirective
<1> QED  BY <1>2, <1>3

(* A call that is not one of goose's keeps the count.                       *)
LEMMA FewAppliedKept ==
  ASSUME DirectiveTypes, FewApplied, applied' = applied,
         \A b \in Agents : hook'[b].pc = "goose" => hook'[b] = hook[b]
  PROVE  FewApplied'
<1> SUFFICES ASSUME NEW d \in DirectiveIds
             PROVE  applied'[d] + Cardinality(GooseOn(d)')
                      <= MaxApplied + Cardinality(Agents)
  BY DEF FewApplied
<1>1. GooseOn(d)' \subseteq GooseOn(d)  BY DEF GooseOn
<1>2. Cardinality(GooseOn(d)') <= Cardinality(GooseOn(d))  BY <1>1, GooseOnFinite, FS_Subset
<1>3. applied[d] + Cardinality(GooseOn(d)) <= MaxApplied + Cardinality(Agents)
  BY DEF FewApplied
<1>4. applied'[d] = applied[d] /\ applied[d] \in Nat  BY DEF DirectiveTypes
<1>5. MaxApplied \in Nat  BY DirectivesAssumption
<1> QED  BY <1>2, <1>3, <1>4, <1>5, GooseOnFinite

(* The pre-apply check counts the directive before it is carried out.       *)
LEMMA PreApplyStep ==
  ASSUME DirectiveTypes, FewApplied, OneDirective, Undisturbed,
         NEW a \in Agents, NEW d \in DirectiveIds, NEW forced \in BOOLEAN,
         PreApply(a, d, forced)
  PROVE  DirectiveTypes' /\ FewApplied' /\ OneDirective' /\ Undisturbed'
<1> DEFINE h == [pc |-> "goose", what |-> {d}, read |-> {}, forced |-> forced]
<1>1. h \in HookRecord  BY DEF HookRecord
<1>2. hook' = [hook EXCEPT ![a] = h]  BY DEF PreApply
<1> HIDE DEF h
<1>3. h.pc = "goose" /\ h.what = {d} /\ h.read = {} /\ h.forced = forced  BY DEF h
<1>4. /\ hook' \in [Agents -> HookRecord] /\ hook'[a] = h
      /\ \A b \in Agents : b # a => hook'[b] = hook[b]
      /\ OneDirective'
  BY <1>1, <1>2, <1>3, HookSet
<1>5. DirectiveTypes'  BY <1>4 DEF PreApply, DirectiveTypes, HookRecord
<1>6. FewApplied'
  <2> SUFFICES ASSUME NEW e \in DirectiveIds
               PROVE  applied'[e] + Cardinality(GooseOn(e)')
                        <= MaxApplied + Cardinality(Agents)
    BY DEF FewApplied
  <2>1. applied'[e] = applied[e] /\ applied[e] \in Nat /\ MaxApplied \in Nat
    BY DirectivesAssumption DEF PreApply, DirectiveTypes
  <2>2. CASE e = d
    <3>1. applied[e] < MaxApplied  BY <2>2 DEF PreApply
    <3> QED  BY <3>1, <2>1, GooseOnFinite
  <2>3. CASE e # d
    <3>1. GooseOn(e)' \subseteq GooseOn(e)  BY <2>3, <1>3, <1>4 DEF GooseOn
    <3>2. Cardinality(GooseOn(e)') <= Cardinality(GooseOn(e))
      BY <3>1, GooseOnFinite, FS_Subset
    <3>3. applied[e] + Cardinality(GooseOn(e)) <= MaxApplied + Cardinality(Agents)
      BY DEF FewApplied
    <3> QED  BY <3>2, <3>3, <2>1, GooseOnFinite
  <2> QED  BY <2>2, <2>3
<1>7. Undisturbed'
  <2> SUFFICES ASSUME why' = {}
               PROVE  /\ repeated' = {}
                      /\ \A b, c \in Agents :
                           hook'[b].pc # "none" /\ hook'[c].pc # "none" => b = c
                      /\ marker'.state # "part" /\ posted' \subseteq marker'.names
                      /\ \A b \in Agents : KnowsPosted(b)'
    BY DEF Undisturbed
  <2>1. why = {} /\ ~OthersIn(a)  BY DEF PreApply
  <2>2. /\ marker' = marker /\ posted' = posted /\ repeated' = repeated
        /\ marker.state # "part" /\ (d \in marker.names => forced) /\ hook[a].pc = "none"
    BY DEF PreApply, Readable
  <2>3. repeated = {} /\ posted \subseteq marker.names
    BY <2>1, <2>2 DEF Undisturbed, OthersIn
  <2>4. \A b \in Agents : b # a => hook'[b].pc = "none"  BY <2>1, <1>4 DEF OthersIn
  <2>5. \A b \in Agents : KnowsPosted(b)'
    BY <2>2, <2>3, <2>4, <1>3, <1>4 DEF KnowsPosted
  <2> QED  BY <2>2, <2>3, <2>4, <2>5
<1> QED  BY <1>4, <1>5, <1>6, <1>7

(* An agent that goes back to no call disturbs nothing, whatever it did     *)
(* with a directive that was not posted.                                    *)
LEMMA LeaveStep ==
  ASSUME DirectiveTypes, OneDirective, Undisturbed, NEW a \in Agents, hook[a].pc # "write",
         hook' = [hook EXCEPT ![a] = NoHook],
         UNCHANGED <<marker, posted, why>>, why = {} => repeated' = {}
  PROVE  /\ OneDirective' /\ Undisturbed' /\ hook' \in [Agents -> HookRecord]
         /\ hook'[a] = NoHook /\ \A b \in Agents : b # a => hook'[b] = hook[b]
<1>1. NoHook \in HookRecord /\ NoHook.pc = "none"  BY DEF NoHook, HookRecord
<1>2. /\ hook' \in [Agents -> HookRecord] /\ hook'[a] = NoHook
      /\ \A b \in Agents : b # a => hook'[b] = hook[b]
      /\ OneDirective'
  BY <1>1, HookSet
<1>3. ASSUME why = {}
      PROVE  /\ repeated' = {}
             /\ \A b, c \in Agents : hook'[b].pc # "none" /\ hook'[c].pc # "none" => b = c
             /\ marker'.state # "part"
             /\ (\A b \in Agents : hook'[b].pc # "write") => posted' \subseteq marker'.names
  BY <1>1, <1>2, <1>3 DEF Undisturbed
<1>4. ASSUME why = {}, NEW b \in Agents
      PROVE  KnowsPosted(b)'
  BY <1>1, <1>2, <1>4 DEF Undisturbed, KnowsPosted
<1>5. Undisturbed'  BY <1>3, <1>4 DEF Undisturbed
<1> QED  BY <1>2, <1>5

(* goose carries out what was counted, and not what was posted unforced.    *)
LEMMA GooseStep ==
  ASSUME DirectiveTypes, FewApplied, OneDirective, Undisturbed,
         NEW a \in Agents, NEW carriesOut \in BOOLEAN, Goose(a, carriesOut)
  PROVE  DirectiveTypes' /\ FewApplied' /\ OneDirective' /\ Undisturbed'
<1>1. PICK d \in DirectiveIds : hook[a].what = {d}  BY DEF Goose, OneDirective
<1>2. /\ hook[a].pc = "goose" /\ hook' = [hook EXCEPT ![a] = NoHook]
      /\ marker' = marker /\ posted' = posted /\ why' = why
  BY DEF Goose
<1>3. CASE ~carriesOut
  <2>1. applied' = applied /\ repeated' = repeated  BY <1>3 DEF Goose
  <2>2. /\ OneDirective' /\ Undisturbed' /\ hook' \in [Agents -> HookRecord]
        /\ hook'[a] = NoHook /\ \A b \in Agents : b # a => hook'[b] = hook[b]
    BY <1>2, <2>1, LeaveStep DEF Undisturbed
  <2>3. FewApplied'  BY <2>1, <2>2, FewAppliedKept DEF NoHook
  <2>4. DirectiveTypes'  BY <1>2, <2>1, <2>2 DEF DirectiveTypes, HookRecord
  <2> QED  BY <2>2, <2>3, <2>4
<1>4. CASE carriesOut
  <2>1. /\ applied' = [applied EXCEPT ![d] = @ + 1]
        /\ repeated' = IF d \in posted /\ ~hook[a].forced THEN repeated \cup {d} ELSE repeated
    BY <1>1, <1>4 DEF Goose
  <2>2. why = {} => repeated' = {}
    BY <1>1, <1>2, <2>1 DEF Undisturbed, KnowsPosted
  <2>3. /\ OneDirective' /\ Undisturbed' /\ hook' \in [Agents -> HookRecord]
        /\ hook'[a] = NoHook /\ \A b \in Agents : b # a => hook'[b] = hook[b]
    BY <1>2, <2>2, LeaveStep
  <2>4. DirectiveTypes'
    BY <1>1, <1>2, <2>1, <2>3 DEF DirectiveTypes, HookRecord
  <2>5. FewApplied'
    <3> SUFFICES ASSUME NEW e \in DirectiveIds
                 PROVE  applied'[e] + Cardinality(GooseOn(e)')
                          <= MaxApplied + Cardinality(Agents)
      BY DEF FewApplied
    <3>1. applied[e] \in Nat /\ MaxApplied \in Nat /\ hook'[a].pc = "none"
      BY DirectivesAssumption, <2>3 DEF DirectiveTypes, NoHook
    <3>2. applied[e] + Cardinality(GooseOn(e)) <= MaxApplied + Cardinality(Agents)
      BY DEF FewApplied
    <3>3. CASE e = d
      <4>1. a \in GooseOn(e) /\ GooseOn(e)' \subseteq GooseOn(e) \ {a}
        BY <3>3, <1>1, <1>2, <2>3, <3>1 DEF GooseOn
      <4>2. Cardinality(GooseOn(e) \ {a}) = Cardinality(GooseOn(e)) - 1
            /\ IsFiniteSet(GooseOn(e) \ {a})
        BY <4>1, GooseOnFinite, FS_RemoveElement
      <4>3. Cardinality(GooseOn(e)') <= Cardinality(GooseOn(e)) - 1
        BY <4>1, <4>2, FS_Subset
      <4>4. applied'[e] = applied[e] + 1  BY <3>3, <2>1 DEF DirectiveTypes
      <4> QED  BY <3>1, <3>2, <4>3, <4>4, GooseOnFinite
    <3>4. CASE e # d
      <4>1. GooseOn(e)' \subseteq GooseOn(e)  BY <2>3, <3>1 DEF GooseOn
      <4>2. Cardinality(GooseOn(e)') <= Cardinality(GooseOn(e))
        BY <4>1, GooseOnFinite, FS_Subset
      <4>3. applied'[e] = applied[e]  BY <3>4, <2>1 DEF DirectiveTypes
      <4> QED  BY <3>1, <3>2, <4>2, <4>3, GooseOnFinite
    <3> QED  BY <3>3, <3>4
  <2> QED  BY <2>3, <2>4, <2>5
<1> QED  BY <1>3, <1>4

(* The hook knows all that was posted: nobody else is in a call.            *)
LEMMA PostReadStep ==
  ASSUME DirectiveTypes, FewApplied, OneDirective, Undisturbed,
         NEW a \in Agents, NEW d \in DirectiveIds, PostRead(a, d)
  PROVE  DirectiveTypes' /\ FewApplied' /\ OneDirective' /\ Undisturbed'
<1> DEFINE h == [pc |-> "read", what |-> {d}, read |-> marker.names, forced |-> FALSE]
<1>1. h \in HookRecord  BY DEF HookRecord, DirectiveTypes
<1>2. hook' = [hook EXCEPT ![a] = h]  BY DEF PostRead
<1> HIDE DEF h
<1>3. h.pc = "read" /\ h.what = {d} /\ h.read = marker.names  BY DEF h
<1>4. /\ hook' \in [Agents -> HookRecord] /\ hook'[a] = h
      /\ \A b \in Agents : b # a => hook'[b] = hook[b]
      /\ OneDirective'
  BY <1>1, <1>2, <1>3, HookSet
<1>5. /\ marker' = marker /\ posted' = posted /\ repeated' = repeated /\ applied' = applied
      /\ marker.state # "part" /\ hook[a].pc = "none"
  BY DEF PostRead, Readable
<1>6. DirectiveTypes'  BY <1>4, <1>5 DEF PostRead, DirectiveTypes, HookRecord
<1>7. FewApplied'  BY <1>3, <1>4, <1>5, FewAppliedKept
<1>8. Undisturbed'
  <2> SUFFICES ASSUME why' = {}
               PROVE  /\ repeated' = {}
                      /\ \A b, c \in Agents :
                           hook'[b].pc # "none" /\ hook'[c].pc # "none" => b = c
                      /\ marker'.state # "part" /\ posted' \subseteq marker'.names
                      /\ \A b \in Agents : KnowsPosted(b)'
    BY DEF Undisturbed
  <2>1. why = {} /\ ~OthersIn(a)  BY DEF PostRead
  <2>2. repeated = {} /\ posted \subseteq marker.names
    BY <2>1, <1>5 DEF Undisturbed, OthersIn
  <2>3. \A b \in Agents : b # a => hook'[b].pc = "none"  BY <2>1, <1>4 DEF OthersIn
  <2>4. \A b \in Agents : KnowsPosted(b)'
    BY <2>2, <2>3, <1>3, <1>4, <1>5 DEF KnowsPosted
  <2> QED  BY <1>5, <2>2, <2>3, <2>4
<1> QED  BY <1>4, <1>6, <1>7, <1>8

(* The file is empty while its writer still knows all that was posted.      *)
LEMMA PostTruncateStep ==
  ASSUME DirectiveTypes, FewApplied, OneDirective, Undisturbed,
         NEW a \in Agents, PostTruncate(a)
  PROVE  DirectiveTypes' /\ FewApplied' /\ OneDirective' /\ Undisturbed'
<1> DEFINE h == [hook[a] EXCEPT !.pc = "write"]
<1>1. h \in HookRecord /\ hook[a].pc = "read"
  BY DEF HookRecord, DirectiveTypes, PostTruncate
<1>2. hook' = [hook EXCEPT ![a] = h]  BY DEF PostTruncate
<1>3. h.pc = "write" /\ h.what = hook[a].what /\ h.read = hook[a].read  BY DEF DirectiveTypes
<1> HIDE DEF h
<1>4. /\ hook' \in [Agents -> HookRecord] /\ hook'[a] = h
      /\ \A b \in Agents : b # a => hook'[b] = hook[b]
      /\ OneDirective'
  <2>1. \E d \in DirectiveIds : h.what = {d}  BY <1>1, <1>3 DEF OneDirective
  <2> QED  BY <2>1, <1>1, <1>2, HookSet
<1>5. /\ marker' = [state |-> "empty", names |-> {}] /\ posted' = posted
      /\ repeated' = repeated /\ applied' = applied /\ why' = why
  BY DEF PostTruncate, Marker
<1>6. DirectiveTypes'  BY <1>4, <1>5 DEF DirectiveTypes, HookRecord
<1>7. FewApplied'  BY <1>3, <1>4, <1>5, FewAppliedKept
<1>8. Undisturbed'
  <2> SUFFICES ASSUME why = {}
               PROVE  /\ repeated' = {}
                      /\ \A b, c \in Agents :
                           hook'[b].pc # "none" /\ hook'[c].pc # "none" => b = c
                      /\ \A b \in Agents : KnowsPosted(b)'
    BY <1>3, <1>4, <1>5 DEF Undisturbed
  <2>1. \A b \in Agents : b # a => hook'[b].pc = "none"  BY <1>1, <1>4 DEF Undisturbed
  <2>2. posted \subseteq h.read  BY <1>1, <1>3 DEF Undisturbed, KnowsPosted
  <2>3. \A b \in Agents : KnowsPosted(b)'
    BY <2>1, <2>2, <1>3, <1>4, <1>5 DEF KnowsPosted
  <2> QED  BY <1>5, <2>1, <2>3 DEF Undisturbed
<1> QED  BY <1>4, <1>6, <1>7, <1>8

(* What is written names all that was posted, and the directive.            *)
LEMMA PostWriteStep ==
  ASSUME DirectiveTypes, FewApplied, OneDirective, Undisturbed,
         NEW a \in Agents, PostWrite(a)
  PROVE  DirectiveTypes' /\ FewApplied' /\ OneDirective' /\ Undisturbed'
<1>1. NoHook \in HookRecord /\ NoHook.pc = "none"  BY DEF NoHook, HookRecord
<1>2. /\ hook[a].pc = "write" /\ hook' = [hook EXCEPT ![a] = NoHook]
      /\ marker' = [state |-> "list", names |-> hook[a].read \cup hook[a].what]
      /\ posted' = posted \cup hook[a].what
      /\ applied' = applied /\ why' = why /\ repeated' = repeated
  BY DEF PostWrite, Marker
<1>3. /\ hook' \in [Agents -> HookRecord] /\ hook'[a] = NoHook
      /\ \A b \in Agents : b # a => hook'[b] = hook[b]
      /\ OneDirective'
  BY <1>1, <1>2, HookSet
<1>4. DirectiveTypes'  BY <1>2, <1>3 DEF DirectiveTypes, HookRecord
<1>5. FewApplied'  BY <1>1, <1>2, <1>3, FewAppliedKept
<1>6. Undisturbed'
  <2> SUFFICES ASSUME why = {}
               PROVE  /\ repeated' = {}
                      /\ \A b, c \in Agents :
                           hook'[b].pc # "none" /\ hook'[c].pc # "none" => b = c
                      /\ posted' \subseteq marker'.names
                      /\ \A b \in Agents : KnowsPosted(b)'
    BY <1>2 DEF Undisturbed
  <2>1. \A b \in Agents : hook'[b].pc = "none"  BY <1>1, <1>2, <1>3 DEF Undisturbed
  <2>2. posted \subseteq hook[a].read  BY <1>2 DEF Undisturbed, KnowsPosted
  <2>3. posted' \subseteq marker'.names  BY <1>2, <2>2
  <2> QED  BY <1>2, <2>1, <2>3 DEF Undisturbed, KnowsPosted
<1> QED  BY <1>3, <1>4, <1>5, <1>6

(* No step of the directives lets one come back without a cause.            *)
LEMMA DirectiveStep ==
  ASSUME DirectiveTypes, FewApplied, OneDirective, Undisturbed, DirectiveNext
  PROVE  DirectiveTypes' /\ FewApplied' /\ OneDirective' /\ Undisturbed'
<1>1. ASSUME NEW a \in Agents, AgentDies(a)
      PROVE  DirectiveTypes' /\ FewApplied' /\ OneDirective' /\ Undisturbed'
  <2>1. hook' = [hook EXCEPT ![a] = NoHook] /\ UNCHANGED <<applied, posted, repeated>>
    BY <1>1 DEF AgentDies
  <2>2. CASE hook[a].pc = "read"
    <3>1. UNCHANGED <<marker, why>>  BY <1>1, <2>2 DEF AgentDies
    <3>2. /\ OneDirective' /\ Undisturbed' /\ hook' \in [Agents -> HookRecord]
          /\ hook'[a] = NoHook /\ \A b \in Agents : b # a => hook'[b] = hook[b]
      BY <2>1, <2>2, <3>1, LeaveStep DEF Undisturbed
    <3>3. FewApplied'  BY <2>1, <3>2, FewAppliedKept DEF NoHook
    <3>4. DirectiveTypes'  BY <2>1, <3>1, <3>2 DEF DirectiveTypes, HookRecord
    <3> QED  BY <3>2, <3>3, <3>4
  <2>3. CASE hook[a].pc = "write"
    <3>1. /\ why' = why \cup {"died"}
          /\ marker' \in {marker, [state |-> "part", names |-> {}]}
      BY <1>1, <2>3 DEF AgentDies, Marker
    <3>2. NoHook \in HookRecord /\ NoHook.pc = "none"  BY DEF NoHook, HookRecord
    <3>3. /\ hook' \in [Agents -> HookRecord] /\ hook'[a] = NoHook
          /\ \A b \in Agents : b # a => hook'[b] = hook[b]
          /\ OneDirective'
      BY <2>1, <3>2, HookSet
    <3>4. FewApplied'  BY <2>1, <3>2, <3>3, FewAppliedKept
    <3>5. DirectiveTypes'  BY <2>1, <3>1, <3>3 DEF DirectiveTypes, HookRecord
    <3>6. Undisturbed'  BY <3>1 DEF Undisturbed
    <3> QED  BY <3>3, <3>4, <3>5, <3>6
  <2> QED  BY <1>1, <2>2, <2>3 DEF AgentDies
<1>2. ASSUME OperatorRemoves
      PROVE  DirectiveTypes' /\ FewApplied' /\ OneDirective' /\ Undisturbed'
  <2>1. /\ hook' = hook /\ applied' = applied /\ posted' = posted /\ repeated' = repeated
        /\ marker' = [state |-> "absent", names |-> {}] /\ why' = why
        /\ marker.state = "part"
    BY <1>2 DEF OperatorRemoves, Readable, Marker
  <2>2. DirectiveTypes'  BY <2>1 DEF DirectiveTypes
  <2>3. FewApplied'  BY <2>1, FewAppliedKept
  <2>4. OneDirective' /\ Undisturbed'
    BY <2>1 DEF OneDirective, Undisturbed, DirectiveTypes
  <2> QED  BY <2>2, <2>3, <2>4
<1> QED
  BY <1>1, <1>2, PreApplyStep, GooseStep, PostReadStep, PostTruncateStep, PostWriteStep
  DEF DirectiveNext

(* A run of the override replaces what is there, one occurrence at a time.  *)
LEMMA OverrideStep ==
  ASSUME OverrideTypes, PatchedAsFound, OverrideNext
  PROVE  OverrideTypes' /\ PatchedAsFound'
<1>1. ASSUME NEW p \in Patches, OverridePatches(p)
      PROVE  OverrideTypes' /\ PatchedAsFound'
  <2>1. override' \in [pc : {"idle", "patching"}, left : SUBSET Patches] /\ first' = first
    BY <1>1 DEF OverridePatches, OverrideTypes
  <2>2. CASE occurs[p] > 0 /\ p \notin Incomplete
    <3>1. /\ patched[p] < MaxApplied /\ patched' = [patched EXCEPT ![p] = @ + 1]
          /\ occurs' = [q \in Patches |-> occurs[q] - (IF q = p THEN 1 ELSE 0)
                                                    + (IF q \in Brings[p] THEN 1 ELSE 0)]
      BY <1>1, <2>2 DEF OverridePatches
    <3>2. patched[p] \in 0..MaxApplied /\ MaxApplied \in Nat
      BY DirectivesAssumption DEF OverrideTypes
    <3>3. patched[p] + 1 \in 0..MaxApplied  BY <3>1, <3>2
    <3>4. ASSUME NEW q \in Patches
          PROVE  /\ occurs'[q] = occurs[q] - (IF q = p THEN 1 ELSE 0)
                                           + (IF q \in Brings[p] THEN 1 ELSE 0)
                 /\ patched'[q] = patched[q] + (IF q = p THEN 1 ELSE 0)
                 /\ occurs[q] \in Nat /\ patched[q] \in Nat /\ first[q] \in Nat
                 /\ occurs'[q] \in Nat
      <4>1. occurs[q] \in Nat /\ patched[q] \in Nat /\ first[q] \in Nat
        BY <3>2, DirectivesAssumption DEF OverrideTypes
      <4>2. occurs'[q] = occurs[q] - (IF q = p THEN 1 ELSE 0)
                                   + (IF q \in Brings[p] THEN 1 ELSE 0)
        BY <3>1
      <4>3. patched'[q] = patched[q] + (IF q = p THEN 1 ELSE 0)
        BY <3>1, <4>1 DEF OverrideTypes
      <4>4. occurs'[q] \in Nat
        <5>1. CASE q = p  BY <5>1, <4>1, <4>2, <2>2
        <5>2. CASE q # p  BY <5>2, <4>1, <4>2
        <5> QED  BY <5>1, <5>2
      <4> QED  BY <4>1, <4>2, <4>3, <4>4
    <3>5. OverrideTypes'
      <4>1. occurs' \in [Patches -> Nat]  BY <3>1, <3>4
      <4> QED  BY <4>1, <2>1, <3>1, <3>3 DEF OverrideTypes
    <3>6. ASSUME NEW q \in Patches, \A o \in Patches : q \notin Brings[o]
          PROVE  patched'[q] + occurs'[q] = first'[q]
      <4>1. q \notin Brings[p]  BY <3>6
      <4>2. patched[q] + occurs[q] = first[q]  BY <3>6 DEF PatchedAsFound
      <4> QED  BY <2>1, <3>4, <4>1, <4>2
    <3> QED  BY <3>5, <3>6 DEF PatchedAsFound
  <2>3. CASE ~(occurs[p] > 0 /\ p \notin Incomplete)
    BY <1>1, <2>1, <2>3 DEF OverridePatches, OverrideTypes, PatchedAsFound
  <2> QED  BY <2>2, <2>3
<1>2. CASE OverrideStarts
  BY <1>2 DEF OverrideStarts, OverrideTypes, PatchedAsFound
<1>3. CASE OverrideEnds
  BY <1>3 DEF OverrideEnds, OverrideTypes, PatchedAsFound
<1>4. CASE \E c \in {"none", "unreadable", "below", "over"} : CostsChange(c)
  BY <1>4 DEF CostsChange, OverrideTypes, PatchedAsFound
<1> QED  BY <1>1, <1>2, <1>3, <1>4 DEF OverrideNext

(* A directive whose hook ended is applied again only after two calls       *)
(* overlapped or an agent died in the write of the marker, however many     *)
(* agents there are; and a text that no replacement brings is replaced as   *)
(* often as it was there at first, however often the override runs.         *)
THEOREM DirectivesAlwaysSound == DirectivesSpec => []DirectivesSound
<1>1. DirectivesInit => DirectivesInv
  <2> SUFFICES ASSUME DirectivesInit PROVE DirectivesInv  OBVIOUS
  <2> USE DirectivesAssumption
  <2>1. DirectiveTypes /\ OneDirective
    BY DEF DirectivesInit, DirectiveTypes, OneDirective, NoHook, Marker
  <2>2. FewApplied
    <3> SUFFICES ASSUME NEW d \in DirectiveIds
                 PROVE  applied[d] + Cardinality(GooseOn(d)) <= MaxApplied + Cardinality(Agents)
      BY DEF FewApplied
    <3>1. applied[d] = 0  BY DEF DirectivesInit
    <3> QED  BY <3>1, GooseOnFinite
  <2>3. Undisturbed  BY DEF DirectivesInit, Undisturbed, KnowsPosted, NoHook, Marker
  <2>4. OverrideTypes /\ PatchedAsFound
    BY DEF DirectivesInit, OverrideTypes, PatchedAsFound
  <2> QED  BY <2>1, <2>2, <2>3, <2>4 DEF DirectivesInv
<1>2. DirectivesInv /\ [DirectiveNext \/ OverrideNext]_<<directiveVars, overrideVars>>
        => DirectivesInv'
  <2> SUFFICES ASSUME DirectivesInv,
                      [DirectiveNext \/ OverrideNext]_<<directiveVars, overrideVars>>
               PROVE  DirectivesInv'
    OBVIOUS
  <2>1. CASE DirectiveNext
    <3>1. DirectiveTypes' /\ FewApplied' /\ OneDirective' /\ Undisturbed'
      BY <2>1, DirectiveStep DEF DirectivesInv
    <3>2. UNCHANGED overrideVars
      BY <2>1 DEF DirectiveNext, PreApply, Goose, PostRead, PostTruncate, PostWrite,
                  AgentDies, OperatorRemoves
    <3>3. OverrideTypes' /\ PatchedAsFound'
      BY <3>2 DEF overrideVars, DirectivesInv, OverrideTypes, PatchedAsFound
    <3> QED  BY <3>1, <3>3 DEF DirectivesInv
  <2>2. CASE OverrideNext \/ UNCHANGED <<directiveVars, overrideVars>>
    <3>1. OverrideTypes' /\ PatchedAsFound'
      BY <2>2, OverrideStep
      DEF DirectivesInv, overrideVars, OverrideTypes, PatchedAsFound
    <3>2. UNCHANGED directiveVars
      BY <2>2 DEF OverrideNext, OverrideStarts, OverridePatches, OverrideEnds, CostsChange
    <3>3. DirectiveTypes' /\ OneDirective' /\ Undisturbed'
      BY <3>2 DEF directiveVars, DirectivesInv, DirectiveTypes, OneDirective, Undisturbed,
                  KnowsPosted
    <3>4. FewApplied'  BY <3>2, FewAppliedKept DEF directiveVars, DirectivesInv
    <3> QED  BY <3>1, <3>3, <3>4 DEF DirectivesInv
  <2> QED  BY <2>1, <2>2
<1>3. DirectivesInv => DirectivesSound
  <2> SUFFICES ASSUME DirectivesInv PROVE DirectivesSound  OBVIOUS
  <2>1. \A d \in DirectiveIds : applied[d] \in 0..(MaxApplied + Cardinality(Agents))
    <3> TAKE d \in DirectiveIds
    <3>1. applied[d] \in Nat /\ applied[d] + Cardinality(GooseOn(d)) <= MaxApplied + Cardinality(Agents)
      BY DEF DirectivesInv, DirectiveTypes, FewApplied
    <3> QED  BY <3>1, GooseOnFinite, DirectivesAssumption
  <2>2. DirectivesTypeOK
    BY <2>1 DEF DirectivesTypeOK, DirectivesInv, DirectiveTypes, OverrideTypes
  <2>3. RepeatedHasCause  BY DEF DirectivesInv, Undisturbed, RepeatedHasCause
  <2> QED  BY <2>2, <2>3 DEF DirectivesSound, DirectivesInv
<1> QED  BY <1>1, <1>2, <1>3, PTL DEF DirectivesSpec

-----------------------------------------------------------------------------
(* The rule checker.                                                        *)

RulesSpec == RulesInit /\ [][RulesNext]_ruleVars

FileNames == {a.file : a \in Acts}
Question == [act : Acts \cup {NotGiven}, form : {"all", "default", "R02"},
             at : {"free", "R01", "R02", "R110", "R55", "R14", "approved", "patch",
                   "counted", "truncated"},
             there : SUBSET FileNames, moved : BOOLEAN, count : Nat, left : Nat]

RulesTypes ==
  /\ caller \in [Askers -> Question] /\ existing \subseteq FileNames
  /\ patchCount \in Nat /\ patchesDone \in Nat
  /\ \A c \in Askers : caller[c].at # "free" => caller[c].act \in Acts
  /\ \A c \in Askers : caller[c].at \in DOMAIN Round => AskedAll(c)

Ends(a) == Has(a, {"signal done"})
Refused110 == {a \in Acts : R110x31(a) = "BLOCKED"}
Ghost(a) == /\ Has(a, {"write", "edit"}) /\ listed
            /\ a.agent \notin Registered \cup {NotGiven}

(* What the rules asked so far still say: none of it goes by what anyone    *)
(* may change after the answer, but for the files and the mode.             *)
StillApproved(c) ==
  LET a == caller[c].act
      at == caller[c].at
  IN  /\ at \in {"R110", "R55", "R14", "approved"} =>
           (Has(a, Writing) /\ ~Has(a, {"force"}) => a.path \notin caller[c].there \ Special)
      /\ at \in {"R55", "R14"} /\ ~caller[c].moved => a \notin Refused110
      /\ at \in {"R14", "approved"} /\ AskedAll(c) /\ Ends(a) =>
           patchesDone >= DoneTarget
      /\ at = "approved" /\ AskedAll(c) /\ Ghost(a) => caller[c].moved

AnswersKept ==
  /\ \A c \in Askers : StillApproved(c)
  /\ OverwritesAreKnown /\ SmuggledByMode /\ early = FALSE

(* A counter that one process rewrites is one behind the patches.           *)
CountKept ==
  /\ patchCount <= patchesDone
  /\ patchCount = patchesDone \/ raced \/ \E c \in Askers : Patching(c)
  /\ \A c \in Askers : Patching(c) =>
       /\ caller[c].count + 1 <= patchesDone
       /\ raced \/ (/\ caller[c].count + 1 = patchesDone
                    /\ \A d \in Askers : Patching(d) => d = c)

RulesInv == RulesTypes /\ AnswersKept /\ CountKept

(* A step of one caller.                                                    *)
LEMMA CallerSet ==
  ASSUME caller \in [Askers -> Question], NEW c \in Askers, NEW q \in Question,
         caller' = [caller EXCEPT ![c] = q]
  PROVE  /\ caller' \in [Askers -> Question] /\ caller'[c] = q
         /\ \A d \in Askers \ {c} : caller'[d] = caller[d]
OBVIOUS

(* Who has not asked yet is a question too: the caller that is free.        *)
LEMMA FreeQuestion == Free \in Question
BY DEF Free, Caller, Question

(* A round refuses what overwrites, what writes an agent that is not        *)
(* registered and what ends a run too early.                                *)
LEMMA RoundRefuses ==
  ASSUME NEW a \in Acts, NEW form \in {"all", "default", "R02"}, NEW round \in DOMAIN Round,
         form = "R02" => round = "R02", ~Refuses(form, round, a),
         patchCount \in Nat
  PROVE  /\ round = "R02" => (Has(a, Writing) /\ ~Has(a, {"force"}) => a.path \notin existing \ Special)
         /\ round = "R110" => a \notin Refused110
         /\ round = "R55" => (Ends(a) => patchCount >= DoneTarget)
         /\ round = "R14" /\ listed => R14(a) # "BLOCKED"
<1>1. ASSUME NEW r \in RulesOf(form, round)
      PROVE  Verdict(r, a) # "BLOCKED"
  BY <1>1 DEF Refuses
<1>2. ASSUME NEW r \in Round[round], r \in ActiveRules \ {"R19"}, form # "R02"
      PROVE  Verdict(r, a) # "BLOCKED"
  <2>1. r \in RulesOf(form, round)  BY <1>2 DEF RulesOf
  <2> QED  BY <1>1, <2>1
<1>3. ASSUME round = "R02", Has(a, Writing), ~Has(a, {"force"})
      PROVE  a.path \notin existing \ Special
  <2>1. "R02" \in Round[round] /\ "R02" \in ActiveRules \ {"R19"}
    BY <1>3 DEF Round, ActiveRules, FileRules
  <2>2. "R02" \in RulesOf(form, round)  BY <2>1 DEF RulesOf
  <2>3. Verdict("R02", a) # "BLOCKED"  BY <1>1, <2>2
  <2>4. R02(a) # "BLOCKED"  BY <2>3 DEF Verdict
  <2> QED  BY <2>4, <1>3 DEF R02, BlockedIf
<1>4. ASSUME round = "R110" PROVE a \notin Refused110
  <2>1. "R110-31" \in Round[round] /\ "R110-31" \in ActiveRules \ {"R19"}
    BY <1>4 DEF Round, ActiveRules, FileRules
  <2>2. Verdict("R110-31", a) # "BLOCKED"  BY <1>2, <1>4, <2>1
  <2>3. R110x31(a) # "BLOCKED"  BY <2>2 DEF Verdict
  <2> QED  BY <2>3 DEF Refused110
<1>5. ASSUME round = "R55", Ends(a) PROVE patchCount >= DoneTarget
  <2>1. "R55" \in Round[round] /\ "R55" \in ActiveRules \ {"R19"}
    BY <1>5 DEF Round, ActiveRules, FileRules
  <2>2. Verdict("R55", a) # "BLOCKED"  BY <1>2, <1>5, <2>1
  <2>3. R55(a) # "BLOCKED"  BY <2>2 DEF Verdict
  <2>4. ~(patchCount < DoneTarget)  BY <1>5, <2>3 DEF R55, BlockedIf, Ends
  <2> QED  BY <2>4, RulesAssumption
<1>6. ASSUME round = "R14", listed PROVE R14(a) # "BLOCKED"
  <2>1. "R14" \in Round[round] /\ "R14" \in ActiveRules \ {"R19"}
    BY <1>6 DEF Round, ActiveRules, FlowRules
  <2>2. Verdict("R14", a) # "BLOCKED"  BY <1>2, <1>6, <2>1
  <2> QED  BY <2>2 DEF Verdict
<1> QED  BY <1>3, <1>4, <1>5, <1>6

(* R14 and R110-31 let no unregistered agent through in the same mode.      *)
LEMMA OneModeRefuses ==
  ASSUME NEW a \in Acts, Ghost(a), R14(a) # "BLOCKED"
  PROVE  a \in Refused110
<1>1. a.agent # NotGiven /\ a.agent \notin Registered /\ listed /\ Has(a, {"write", "edit"})
  BY DEF Ghost
<1>2. WorkOn = "mas"  BY <1>1 DEF R14, BlockedIf
<1>3. DomainOf(a) = "mas"  BY <1>2 DEF DomainOf
<1>4. Has(a, {"write", "edit", "create", "add"})  BY <1>1 DEF Has
<1>5. R110x31(a) = "BLOCKED"  BY <1>1, <1>3, <1>4 DEF R110x31, BlockedIf
<1> QED  BY <1>5 DEF Refused110

(* Who does not move keeps what he was told, while the mode does not.       *)
LEMMA AnswersStay ==
  ASSUME RulesInv, UNCHANGED <<inside, listed, modes>>,
         patchesDone' \in Nat, patchesDone' >= patchesDone,
         NEW d \in Askers, caller'[d] = caller[d]
  PROVE  StillApproved(d)'
<1>1. Refused110' = Refused110
  BY DEF Refused110, R110x31, DomainOf, WorkOn
<1>2. StillApproved(d) /\ patchesDone \in Nat /\ DoneTarget \in Int
  BY RulesAssumption DEF RulesInv, AnswersKept, RulesTypes
<1>3. patchesDone >= DoneTarget => patchesDone' >= DoneTarget  BY <1>2
<1>4. \A a \in Acts : Ends(a)' = Ends(a) /\ (Ghost(a)' <=> Ghost(a))  BY DEF Ends, Ghost
<1>5. listed' = listed  OBVIOUS
<1> QED  BY <1>1, <1>2, <1>3, <1>5 DEF StillApproved, AskedAll, Ghost

(* A round that is passed leaves a question that stands, or an approval.    *)
LEMMA RoundStep ==
  ASSUME RulesInv, NEW c \in Askers, NEW q \in Question, q.act \in Acts,
         NEW round \in DOMAIN Round, q.form = "R02" => round = "R02",
         round # "R01" /\ round # "R02" => q = caller[c] /\ q.at = round,
         ~Patching(c),
         caller' = [caller EXCEPT ![c] = Answered(q, round)],
         UNCHANGED <<inside, listed, modes, confirmation, existing, patchCount, observed>>
  PROVE  RulesInv'
<1>0. /\ RulesTypes /\ patchCount \in Nat /\ patchesDone \in Nat
      /\ UNCHANGED <<inside, listed, modes, existing, patchCount, overwritten, smuggled,
                     early, patchesDone, raced>>
  BY DEF RulesInv, RulesTypes, observed
<1>1. CASE Refuses(q.form, round, q.act)
  <2>1. Answered(q, round) = Free  BY <1>1 DEF Answered
  <2>2. /\ caller' \in [Askers -> Question] /\ caller'[c] = Free
        /\ \A d \in Askers \ {c} : caller'[d] = caller[d]
    BY <1>0, <2>1, CallerSet, FreeQuestion DEF RulesTypes
  <2>3. caller'[c].at = "free"  BY <2>2 DEF Free, Caller
  <2>4. RulesTypes'
    BY <1>0, <2>2, <2>3 DEF RulesTypes, AskedAll, Round
  <2>5. AnswersKept'
    <3>1. ASSUME NEW d \in Askers PROVE StillApproved(d)'
      <4>1. CASE d = c  BY <4>1, <2>3 DEF StillApproved
      <4>2. CASE d # c
        <5>1. caller'[d] = caller[d]  BY <4>2, <2>2
        <5> QED  BY <5>1, <1>0, AnswersStay
      <4> QED  BY <4>1, <4>2
    <3> QED  BY <1>0, <3>1 DEF AnswersKept, RulesInv, OverwritesAreKnown, SmuggledByMode
  <2>6. \A d \in Askers : Patching(d)' <=> Patching(d)
    BY <2>2, <2>3 DEF Patching
  <2>7. \A d \in Askers : Patching(d) => caller'[d] = caller[d]
    BY <2>2
  <2>8. CountKept'  BY <1>0, <2>6, <2>7 DEF RulesInv, CountKept
  <2> QED  BY <2>4, <2>5, <2>8 DEF RulesInv
<1>2. CASE ~Refuses(q.form, round, q.act)
  <2> DEFINE g == [act |-> q.act, form |-> q.form,
                   at |-> IF q.form = "R02" THEN "approved" ELSE NextRound[round],
                   there |-> IF round = "R02" THEN existing ELSE q.there,
                   moved |-> round # "R110" /\ q.moved, count |-> q.count, left |-> q.left]
  <2>1. Answered(q, round) = g
    BY <1>2 DEF Answered, Question
  <2>2. NextRound[round] \in {"R02", "R110", "R55", "R14", "approved"}
    BY DEF NextRound, Round
  <2>3. g \in Question
    BY <1>0, <2>2 DEF Question, RulesTypes
  <2>31. PICK h \in Question : h = g  BY <2>3
  <2>4. /\ h.act = q.act /\ h.form = q.form
        /\ h.at = (IF q.form = "R02" THEN "approved" ELSE NextRound[round])
        /\ h.there = (IF round = "R02" THEN existing ELSE q.there)
        /\ h.moved = (round # "R110" /\ q.moved)
    BY <2>31
  <2>5. /\ caller' \in [Askers -> Question] /\ caller'[c] = h
        /\ \A d \in Askers \ {c} : caller'[d] = caller[d]
    BY <1>0, <2>1, <2>31, CallerSet DEF RulesTypes
  <2>6. RulesTypes'
    BY <1>0, <2>4, <2>5 DEF RulesTypes, AskedAll, Round
  <2>7. /\ round = "R02" => (Has(q.act, Writing) /\ ~Has(q.act, {"force"})
                              => q.act.path \notin existing \ Special)
        /\ round = "R110" => q.act \notin Refused110
        /\ round = "R55" => (Ends(q.act) => patchCount >= DoneTarget)
        /\ round = "R14" /\ listed => R14(q.act) # "BLOCKED"
    <3>1. q.form \in {"all", "default", "R02"}  BY DEF Question
    <3> QED  BY <1>0, <1>2, <3>1, RoundRefuses
  <2>8. Refused110' = Refused110
    BY <1>0 DEF Refused110, R110x31, DomainOf, WorkOn
  <2>9. StillApproved(c)'
    <3>1. CASE round = "R01"
      BY <3>1, <2>4, <2>5 DEF StillApproved, NextRound
    <3>2. CASE round = "R02"
      BY <3>2, <2>4, <2>5, <2>7, <1>0 DEF StillApproved, NextRound, AskedAll
    <3>3. CASE round = "R110"
      <4>1. StillApproved(c) /\ q = caller[c] /\ q.at = "R110" /\ q.form # "R02"
        BY <3>3 DEF RulesInv, AnswersKept
      <4>2. h.at = "R55"  BY <3>3, <4>1, <2>4 DEF NextRound
      <4>3. h.there = q.there  BY <3>3, <2>4
      <4>4. caller'[c].act \notin Refused110'
        BY <2>5, <2>4, <2>7, <2>8, <3>3
      <4>5. Has(h.act, Writing) /\ ~Has(h.act, {"force"}) => h.act.path \notin h.there \ Special
        BY <4>1, <4>3, <2>4 DEF StillApproved
      <4> QED  BY <4>2, <4>4, <4>5, <2>5 DEF StillApproved
    <3>4. CASE round = "R55"
      <4>1. StillApproved(c) /\ q = caller[c] /\ q.at = "R55" /\ q.form # "R02"
        BY <3>4 DEF RulesInv, AnswersKept
      <4>2. h.at = "R14"  BY <3>4, <4>1, <2>4 DEF NextRound
      <4>3. h.there = q.there /\ h.moved = q.moved
        <5>1. q.moved \in BOOLEAN  BY DEF Question
        <5> QED  BY <5>1, <3>4, <2>4
      <4>4. ~h.moved => caller'[c].act \notin Refused110'
        BY <4>1, <4>3, <2>5, <2>4, <2>8 DEF StillApproved
      <4>5. Has(h.act, Writing) /\ ~Has(h.act, {"force"}) => h.act.path \notin h.there \ Special
        BY <4>1, <4>3, <2>4 DEF StillApproved
      <4>6. Ends(h.act) => patchesDone >= DoneTarget
        <5>1. patchCount <= patchesDone /\ DoneTarget \in Int
          BY RulesAssumption DEF RulesInv, CountKept
        <5>2. Ends(h.act) => patchCount >= DoneTarget  BY <3>4, <2>7, <2>4
        <5> QED  BY <5>1, <5>2, <1>0
      <4> QED  BY <4>2, <4>4, <4>5, <4>6, <2>5, <1>0 DEF StillApproved
    <3>5. CASE round = "R14"
      <4>1. StillApproved(c) /\ q = caller[c] /\ q.at = "R14" /\ q.form # "R02"
        BY <3>5 DEF RulesInv, AnswersKept
      <4>2. h.at = "approved"  BY <3>5, <4>1, <2>4 DEF NextRound
      <4>3. h.there = q.there /\ h.moved = q.moved
        <5>1. q.moved \in BOOLEAN  BY DEF Question
        <5> QED  BY <5>1, <3>5, <2>4
      <4>4. Ghost(q.act) => h.moved
        BY <3>5, <4>1, <4>3, <2>7, OneModeRefuses DEF StillApproved, Ghost
      <4>5. Has(h.act, Writing) /\ ~Has(h.act, {"force"}) => h.act.path \notin h.there \ Special
        BY <4>1, <4>3, <2>4 DEF StillApproved
      <4>6. Ends(h.act) => patchesDone >= DoneTarget
        BY <4>1, <2>4 DEF StillApproved, AskedAll
      <4>7. Ghost(h.act)' <=> Ghost(q.act)  BY <2>4, <1>0 DEF Ghost
      <4>8. patchesDone' = patchesDone /\ caller'[c] = h  BY <1>0, <2>5
      <4> QED  BY <4>2, <4>4, <4>5, <4>6, <4>7, <4>8 DEF StillApproved, AskedAll, Ghost
    <3> QED  BY <3>1, <3>2, <3>3, <3>4, <3>5 DEF Round
  <2>10. ASSUME NEW d \in Askers, d # c PROVE StillApproved(d)'
    <3>1. caller'[d] = caller[d]  BY <2>10, <2>5
    <3> QED  BY <3>1, <1>0, AnswersStay
  <2>11. AnswersKept'
    BY <1>0, <2>9, <2>10 DEF AnswersKept, RulesInv, OverwritesAreKnown, SmuggledByMode
  <2>12. \A d \in Askers : Patching(d)' <=> Patching(d)
    BY <2>2, <2>4, <2>5 DEF Patching
  <2>13. \A d \in Askers : Patching(d) => caller'[d] = caller[d]
    BY <2>5
  <2>14. CountKept'  BY <1>0, <2>12, <2>13 DEF RulesInv, CountKept
  <2> QED  BY <2>6, <2>11, <2>14 DEF RulesInv
<1> QED  BY <1>1, <1>2

(* A question is asked, and its first round answered.                       *)
LEMMA AskStep ==
  ASSUME RulesInv, NEW c \in Askers, NEW form \in {"all", "default", "R02"}, NEW a \in Acts,
         Ask(c, form, a)
  PROVE  RulesInv'
<1> DEFINE round == IF form = "R02" THEN "R02" ELSE "R01"
<1>1. PICK q : q = Caller(a, form, "free", 0)  OBVIOUS
<1>2. q \in Question /\ q.act \in Acts /\ q.form = form  BY <1>1 DEF Question, Caller
<1>3. caller' = [caller EXCEPT ![c] = Answered(q, round)]  BY <1>1 DEF Ask
<1>4. ~Patching(c)  BY DEF Ask, Patching
<1>5. round \in DOMAIN Round /\ (q.form = "R02" => round = "R02")  BY <1>2 DEF Round
<1>6. UNCHANGED <<inside, listed, modes, confirmation, existing, patchCount, observed>>
  BY DEF Ask
<1>7. round = "R01" \/ round = "R02"  OBVIOUS
<1> HIDE DEF round
<1> QED  BY <1>2, <1>3, <1>4, <1>5, <1>6, <1>7, RoundStep

(* A later round is answered.                                               *)
LEMMA AnswerStep ==
  ASSUME RulesInv, NEW c \in Askers, Answer(c)
  PROVE  RulesInv'
<1>1. PICK q \in Question : q = caller[c]  BY DEF RulesInv, RulesTypes
<1>2. PICK round \in DOMAIN Round : round = caller[c].at  BY DEF Answer
<1>3. q.act \in Acts  BY <1>1, <1>2 DEF RulesInv, RulesTypes, Round
<1>4. q.form # "R02"  BY <1>1, <1>2 DEF RulesInv, RulesTypes, AskedAll
<1>5. ~Patching(c)  BY <1>2 DEF Patching, Round
<1>6. caller' = [caller EXCEPT ![c] = Answered(q, round)]
  BY <1>1, <1>2 DEF Answer
<1>7. UNCHANGED <<inside, listed, modes, confirmation, existing, patchCount, observed>>
  BY DEF Answer
<1> QED  BY <1>1, <1>2, <1>3, <1>4, <1>5, <1>6, <1>7, RoundStep

(* An act does what its approval still stands for.                          *)
LEMMA ActStep ==
  ASSUME RulesInv, NEW c \in Askers, Act(c)
  PROVE  RulesInv'
<1> DEFINE a == caller[c].act
           writes == Has(a, Writing) /\ a.file # NotGiven
           h == IF Has(a, {"apply patches"}) /\ a.patches > 0
                THEN Caller(a, "all", "patch", a.patches) ELSE Free
<1>1. /\ caller[c].at = "approved"
      /\ existing' = IF writes THEN existing \cup {a.file} ELSE existing
      /\ overwritten' = IF writes /\ a.file \in existing
                        THEN overwritten \cup {caller[c]} ELSE overwritten
      /\ smuggled' = IF /\ Has(a, {"write", "edit"}) /\ AskedAll(c)
                        /\ listed /\ a.agent \notin Registered \cup {NotGiven}
                     THEN smuggled \cup {caller[c]} ELSE smuggled
      /\ early' = (early \/ (/\ Ends(a) /\ AskedAll(c) /\ patchesDone < DoneTarget))
      /\ UNCHANGED <<inside, listed, modes, patchCount, patchesDone, raced>>
  BY DEF Act, Ends
<1>2. a \in Acts /\ a.patches \in Nat
  BY <1>1, RulesAssumption DEF RulesInv, RulesTypes
<1>3. h \in Question /\ h.at \in {"patch", "free"} /\ (h.at = "patch" => h.act = a)
  BY <1>2 DEF Question, Free, Caller
<1>3a. caller' = [caller EXCEPT ![c] = h]  BY DEF Act
<1>4. StillApproved(c) /\ RulesTypes /\ patchesDone \in Nat /\ DoneTarget \in Int
  BY RulesAssumption DEF RulesInv, AnswersKept, RulesTypes
<1>5. a.file \in FileNames  BY <1>2 DEF FileNames
<1>6. OverwritesAreKnown'
  BY <1>1, <1>4 DEF StillApproved, OverwritesAreKnown, RulesInv, AnswersKept, Has
<1>7. SmuggledByMode'
  BY <1>1, <1>4 DEF StillApproved, SmuggledByMode, RulesInv, AnswersKept, Ghost
<1>8. early' = FALSE
  <2>1. Ends(a) /\ AskedAll(c) => patchesDone >= DoneTarget
    BY <1>1, <1>4 DEF StillApproved
  <2>2. early = FALSE  BY DEF RulesInv, AnswersKept
  <2>3. patchesDone >= DoneTarget => ~(patchesDone < DoneTarget)  BY <1>4
  <2> QED  BY <1>1, <2>1, <2>2, <2>3
<1> HIDE DEF h
<1>9. /\ caller' \in [Askers -> Question] /\ caller'[c] = h
      /\ \A d \in Askers \ {c} : caller'[d] = caller[d]
  BY <1>3a, <1>3, <1>4, CallerSet DEF RulesTypes
<1>10. RulesTypes'
  <2>1. existing' \subseteq FileNames  BY <1>1, <1>4, <1>5 DEF RulesTypes
  <2>2. caller'[c].at # "free" => caller'[c].act \in Acts  BY <1>2, <1>3, <1>9
  <2>3. caller'[c].at \notin DOMAIN Round  BY <1>3, <1>9 DEF Round
  <2> QED  BY <1>1, <1>4, <1>9, <2>1, <2>2, <2>3 DEF RulesTypes, AskedAll
<1>11. ASSUME NEW d \in Askers PROVE StillApproved(d)'
  <2>1. CASE d = c  BY <2>1, <1>3, <1>9 DEF StillApproved
  <2>2. CASE d # c
    <3>1. caller'[d] = caller[d]  BY <2>2, <1>9
    <3> QED  BY <3>1, <1>1, <1>4, AnswersStay
  <2> QED  BY <2>1, <2>2
<1>12. \A d \in Askers : Patching(d)' <=> Patching(d)
  BY <1>1, <1>3, <1>9 DEF Patching
<1>13. \A d \in Askers : Patching(d) => caller'[d] = caller[d]
  BY <1>1, <1>9 DEF Patching
<1>14. CountKept'  BY <1>1, <1>12, <1>13 DEF RulesInv, CountKept
<1> QED  BY <1>6, <1>7, <1>8, <1>10, <1>11, <1>14 DEF RulesInv, AnswersKept

(* A step of the counting leaves every answer as it was.                    *)
LEMMA CountingStep ==
  ASSUME RulesInv, NEW c \in Askers, NEW q \in Question,
         caller[c].at \in {"patch", "counted", "truncated"},
         q.at \in {"free", "patch", "counted", "truncated"},
         q.at # "free" => q.act = caller[c].act,
         caller' = [caller EXCEPT ![c] = q],
         UNCHANGED <<inside, listed, modes, existing, overwritten, smuggled, early>>,
         patchCount' \in Nat, patchesDone' \in Nat, patchesDone' >= patchesDone
  PROVE  /\ RulesTypes' /\ AnswersKept'
         /\ caller'[c] = q /\ \A d \in Askers \ {c} : caller'[d] = caller[d]
<1>1. /\ caller' \in [Askers -> Question] /\ caller'[c] = q
      /\ \A d \in Askers \ {c} : caller'[d] = caller[d]
  BY CallerSet DEF RulesInv, RulesTypes
<1>2. RulesTypes'
  <2>1. caller'[c].at \notin DOMAIN Round  BY <1>1 DEF Round
  <2>2. caller'[c].at # "free" => caller'[c].act \in Acts
    BY <1>1 DEF RulesInv, RulesTypes
  <2> QED  BY <1>1, <2>1, <2>2 DEF RulesInv, RulesTypes, AskedAll
<1>3. ASSUME NEW d \in Askers PROVE StillApproved(d)'
  <2>1. CASE d = c  BY <2>1, <1>1 DEF StillApproved
  <2>2. CASE d # c
    <3>1. caller'[d] = caller[d]  BY <2>2, <1>1
    <3> QED  BY <3>1, AnswersStay
  <2> QED  BY <2>1, <2>2
<1>4. AnswersKept'
  BY <1>3 DEF AnswersKept, RulesInv, OverwritesAreKnown, SmuggledByMode
<1> QED  BY <1>1, <1>2, <1>4

(* A patch is done, and its counter read.                                   *)
LEMMA ReadCountStep ==
  ASSUME RulesInv, NEW c \in Askers, ReadCount(c)
  PROVE  RulesInv'
<1>1. PICK p \in Question : p = caller[c]  BY DEF RulesInv, RulesTypes
<1>2. /\ p.at = "patch" /\ patchesDone' = patchesDone + 1
      /\ raced' = (raced \/ \E d \in Askers : Patching(d))
      /\ UNCHANGED <<inside, listed, modes, existing, patchCount, overwritten, smuggled, early>>
  BY <1>1 DEF ReadCount
<1>3. patchCount \in Nat /\ patchesDone \in Nat /\ patchCount <= patchesDone
  BY DEF RulesInv, RulesTypes, CountKept
<1>4. PICK q \in Question : q = [p EXCEPT !.at = "counted", !.count = patchCount]
  BY <1>3 DEF Question
<1>5. /\ caller' = [caller EXCEPT ![c] = q]
      /\ q.at = "counted" /\ q.act = p.act /\ q.count = patchCount
  BY <1>1, <1>4 DEF ReadCount, Question
<1>6. /\ RulesTypes' /\ AnswersKept'
      /\ caller'[c] = q /\ \A d \in Askers \ {c} : caller'[d] = caller[d]
  <2>1. /\ caller[c].at \in {"patch", "counted", "truncated"}
        /\ q.at \in {"free", "patch", "counted", "truncated"}
        /\ q.at # "free" => q.act = caller[c].act
    BY <1>1, <1>2, <1>5
  <2>2. patchCount' \in Nat /\ patchesDone' \in Nat /\ patchesDone' >= patchesDone
    BY <1>2, <1>3
  <2> QED  BY <1>2, <1>5, <2>1, <2>2, CountingStep
<1>7. ~Patching(c) /\ Patching(c)'  BY <1>1, <1>2, <1>5, <1>6 DEF Patching
<1>8. \A d \in Askers \ {c} : (Patching(d)' <=> Patching(d)) /\ caller'[d] = caller[d]
  BY <1>6 DEF Patching
<1>9. CASE \E d \in Askers : Patching(d)
  <2>1. raced'  BY <1>2, <1>9
  <2>2. \A d \in Askers : Patching(d)' => caller'[d].count + 1 <= patchesDone'
    <3> SUFFICES ASSUME NEW d \in Askers, Patching(d)' PROVE caller'[d].count + 1 <= patchesDone'
      OBVIOUS
    <3>1. CASE d = c  BY <3>1, <1>2, <1>3, <1>4, <1>6
    <3>2. CASE d # c
      <4>1. caller'[d] = caller[d] /\ caller[d].count + 1 <= patchesDone
        BY <3>2, <1>8 DEF RulesInv, CountKept
      <4>2. caller[d].count \in Nat  BY DEF RulesInv, RulesTypes, Question
      <4> QED  BY <4>1, <4>2, <1>2, <1>3
    <3> QED  BY <3>1, <3>2
  <2> QED  BY <1>2, <1>3, <1>6, <2>1, <2>2 DEF RulesInv, CountKept
<1>10. CASE \A d \in Askers : ~Patching(d)
  <2>1. raced \/ patchCount = patchesDone  BY <1>10 DEF RulesInv, CountKept
  <2>2. raced' <=> raced  BY <1>2, <1>10
  <2>3. \A d \in Askers : Patching(d)' => d = c  BY <1>8, <1>10
  <2>4. caller'[c].count + 1 <= patchesDone' /\ (raced \/ caller'[c].count + 1 = patchesDone')
    BY <1>2, <1>3, <1>4, <1>6, <2>1
  <2> QED  BY <1>2, <1>3, <1>6, <1>7, <2>2, <2>3, <2>4 DEF RulesInv, CountKept
<1> QED  BY <1>9, <1>10

(* The counter is emptied.                                                  *)
LEMMA TruncateCountStep ==
  ASSUME RulesInv, NEW c \in Askers, TruncateCount(c)
  PROVE  RulesInv'
<1>1. PICK p \in Question : p = caller[c]  BY DEF RulesInv, RulesTypes
<1>2. /\ p.at = "counted" /\ patchCount' = 0
      /\ UNCHANGED <<inside, listed, modes, existing, overwritten, smuggled, early,
                     patchesDone, raced>>
  BY <1>1 DEF TruncateCount, observed
<1>3. patchesDone \in Nat  BY DEF RulesInv, RulesTypes
<1>4. PICK q \in Question : q = [p EXCEPT !.at = "truncated"]
  BY DEF Question
<1>5. /\ caller' = [caller EXCEPT ![c] = q]
      /\ q.at = "truncated" /\ q.act = p.act /\ q.count = p.count
  BY <1>1, <1>4 DEF TruncateCount, Question
<1>6. /\ RulesTypes' /\ AnswersKept'
      /\ caller'[c] = q /\ \A d \in Askers \ {c} : caller'[d] = caller[d]
  <2>1. /\ caller[c].at \in {"patch", "counted", "truncated"}
        /\ q.at \in {"free", "patch", "counted", "truncated"}
        /\ q.at # "free" => q.act = caller[c].act
    BY <1>1, <1>2, <1>5
  <2>2. patchCount' \in Nat /\ patchesDone' \in Nat /\ patchesDone' >= patchesDone
    BY <1>2, <1>3
  <2> QED  BY <1>2, <1>5, <2>1, <2>2, CountingStep
<1>7. \A d \in Askers : (Patching(d)' <=> Patching(d)) /\ caller'[d].count = caller[d].count
  BY <1>1, <1>2, <1>5, <1>6 DEF Patching
<1>8. Patching(c)  BY <1>1, <1>2 DEF Patching
<1> QED  BY <1>2, <1>3, <1>6, <1>7, <1>8 DEF RulesInv, CountKept

(* The counter is written, one more than was read.                          *)
LEMMA WriteCountStep ==
  ASSUME RulesInv, NEW c \in Askers, WriteCount(c)
  PROVE  RulesInv'
<1>1. PICK p \in Question : p = caller[c]  BY DEF RulesInv, RulesTypes
<1>2. /\ p.at = "truncated" /\ patchCount' = p.count + 1
      /\ UNCHANGED <<inside, listed, modes, existing, overwritten, smuggled, early,
                     patchesDone, raced>>
  BY <1>1 DEF WriteCount, observed
<1>3. patchesDone \in Nat /\ p.count \in Nat /\ p.left \in Nat
  BY DEF RulesInv, RulesTypes, Question
<1>4. PICK q : q = IF p.left > 1 THEN Caller(p.act, "all", "patch", p.left - 1)
                   ELSE Free
  OBVIOUS
<1>5. /\ q \in Question /\ q.at \in {"patch", "free"} /\ (q.at # "free" => q.act = p.act)
      /\ caller' = [caller EXCEPT ![c] = q]
  <2>1. CASE p.left > 1
    <3>1. q = Caller(p.act, "all", "patch", p.left - 1)  BY <1>4, <2>1
    <3>2. p.left - 1 \in Nat  BY <1>3, <2>1
    <3>3. q \in Question /\ q.at = "patch" /\ q.act = p.act  BY <3>1, <3>2 DEF Question, Caller
    <3>4. caller' = [caller EXCEPT ![c] = q]  BY <1>1, <2>1, <3>1 DEF WriteCount
    <3> QED  BY <3>3, <3>4
  <2>2. CASE ~(p.left > 1)
    <3>1. q = Free  BY <1>4, <2>2
    <3>2. q \in Question /\ q.at = "free"  BY <3>1, FreeQuestion DEF Free, Caller
    <3>3. caller' = [caller EXCEPT ![c] = q]  BY <1>1, <2>2, <3>1 DEF WriteCount
    <3> QED  BY <3>2, <3>3
  <2> QED  BY <2>1, <2>2
<1>6. /\ RulesTypes' /\ AnswersKept'
      /\ caller'[c] = q /\ \A d \in Askers \ {c} : caller'[d] = caller[d]
  <2>1. /\ caller[c].at \in {"patch", "counted", "truncated"}
        /\ q.at \in {"free", "patch", "counted", "truncated"}
        /\ q.at # "free" => q.act = caller[c].act
    BY <1>1, <1>2, <1>5
  <2>2. patchCount' \in Nat /\ patchesDone' \in Nat /\ patchesDone' >= patchesDone
    BY <1>2, <1>3
  <2> QED  BY <1>2, <1>5, <2>1, <2>2, CountingStep
<1>7. Patching(c) /\ ~Patching(c)'  BY <1>1, <1>2, <1>5, <1>6 DEF Patching
<1>8. \A d \in Askers \ {c} : (Patching(d)' <=> Patching(d)) /\ caller'[d] = caller[d]
  BY <1>6 DEF Patching
<1>9. patchCount' <= patchesDone /\ (raced \/ patchCount' = patchesDone)
  BY <1>1, <1>2, <1>7 DEF RulesInv, CountKept
<1>10. ASSUME NEW d \in Askers, Patching(d)'
       PROVE  /\ caller'[d].count + 1 <= patchesDone
              /\ raced
  <2>1. d # c /\ Patching(d) /\ caller'[d] = caller[d]  BY <1>7, <1>8, <1>10
  <2> QED  BY <2>1, <1>7 DEF RulesInv, CountKept
<1> QED  BY <1>2, <1>6, <1>9, <1>10 DEF RulesInv, CountKept

(* The mode or the confirmation changes while questions are asked.          *)
LEMMA TurnStep ==
  ASSUME RulesInv, Turn
  PROVE  RulesInv'
<1>1. UNCHANGED <<inside, listed, existing, patchCount, overwritten, smuggled, early,
                  patchesDone, raced>>
  BY DEF Turn, observed
<1>2. CASE UNCHANGED <<modes, caller>>
  <2>1. RulesTypes'  BY <1>1, <1>2 DEF RulesInv, RulesTypes, AskedAll
  <2>2. AnswersKept'
    <3>1. ASSUME NEW d \in Askers PROVE StillApproved(d)'
      BY <1>1, <1>2, AnswersStay DEF RulesInv, RulesTypes
    <3> QED
      BY <1>1, <3>1 DEF RulesInv, AnswersKept, OverwritesAreKnown, SmuggledByMode
  <2>3. CountKept'  BY <1>1, <1>2 DEF RulesInv, CountKept, Patching
  <2> QED  BY <2>1, <2>2, <2>3 DEF RulesInv
<1>3. CASE caller' = [c \in Askers |-> [caller[c] EXCEPT !.moved = caller[c].at \in {"R55", "R14"} \/ @]]
  <2>1. ASSUME NEW c \in Askers
        PROVE  /\ caller'[c] \in Question
               /\ caller'[c].act = caller[c].act /\ caller'[c].form = caller[c].form
               /\ caller'[c].at = caller[c].at /\ caller'[c].there = caller[c].there
               /\ caller'[c].count = caller[c].count
               /\ caller'[c].moved = (caller[c].at \in {"R55", "R14"} \/ caller[c].moved)
    <3>1. PICK q \in Question : q = caller[c]  BY DEF RulesInv, RulesTypes
    <3>2. caller'[c] = [q EXCEPT !.moved = q.at \in {"R55", "R14"} \/ q.moved]
      BY <1>3, <3>1
    <3> QED  BY <3>1, <3>2 DEF Question
  <2>2. caller' \in [Askers -> Question]  BY <1>3, <2>1
  <2>3. RulesTypes'
    BY <1>1, <2>1, <2>2 DEF RulesInv, RulesTypes, AskedAll
  <2>4. ASSUME NEW c \in Askers PROVE StillApproved(c)'
    <3>1. StillApproved(c)  BY DEF RulesInv, AnswersKept
    <3> QED  BY <3>1, <1>1, <2>1 DEF StillApproved, AskedAll, Ghost
  <2>5. AnswersKept'
    BY <1>1, <2>4 DEF RulesInv, AnswersKept, OverwritesAreKnown, SmuggledByMode
  <2>6. CountKept'  BY <1>1, <2>1 DEF RulesInv, CountKept, Patching
  <2> QED  BY <2>3, <2>5, <2>6 DEF RulesInv
<1> QED  BY <1>2, <1>3 DEF Turn

(* Whoever asks all rules before he writes, edits or runs a command, with   *)
(* whatever words: an overwritten file was announced, special, named in a   *)
(* way R02 does not see, or new since R02 was asked; an unregistered agent  *)
(* is only written when the mode changed between two rules; no run signals  *)
(* its end too early, though patches that are counted at once lose counts.  *)
THEOREM RulesAlwaysSound == RulesSpec => []RulesSound
<1>1. RulesInit => RulesInv
  <2> SUFFICES ASSUME RulesInit PROVE RulesInv  OBVIOUS
  <2>1. caller = [c \in Askers |-> Free]  BY DEF RulesInit
  <2>2. \A c \in Askers : caller[c].at = "free"  BY <2>1 DEF Free, Caller
  <2>3. RulesTypes
    BY <2>1, <2>2, FreeQuestion DEF RulesInit, RulesTypes, Round
  <2>4. AnswersKept
    BY <2>2 DEF RulesInit, AnswersKept, StillApproved, OverwritesAreKnown, SmuggledByMode
  <2>5. CountKept  BY <2>2 DEF RulesInit, CountKept, Patching
  <2> QED  BY <2>3, <2>4, <2>5 DEF RulesInv
<1>2. RulesInv /\ [RulesNext]_ruleVars => RulesInv'
  <2> SUFFICES ASSUME RulesInv, [RulesNext]_ruleVars PROVE RulesInv'  OBVIOUS
  <2>1. CASE UNCHANGED ruleVars
    <3>1. RulesTypes'  BY <2>1 DEF ruleVars, observed, RulesInv, RulesTypes, AskedAll
    <3>2. AnswersKept'
      <4>1. ASSUME NEW d \in Askers PROVE StillApproved(d)'
        BY <2>1, AnswersStay DEF ruleVars, observed, RulesInv, RulesTypes
      <4> QED
        BY <2>1, <4>1 DEF ruleVars, observed, RulesInv, AnswersKept, OverwritesAreKnown,
           SmuggledByMode
    <3>3. CountKept'  BY <2>1 DEF ruleVars, observed, RulesInv, CountKept, Patching
    <3> QED  BY <3>1, <3>2, <3>3 DEF RulesInv
  <2> QED
    BY <2>1, TurnStep, AskStep, AnswerStep, ActStep, ReadCountStep, TruncateCountStep, WriteCountStep
    DEF RulesNext
<1>3. RulesInv => RulesSound
  BY DEF RulesInv, AnswersKept, CountKept, RulesSound, DoneIsEarned, CountFallsBehind
<1> QED  BY <1>1, <1>2, <1>3, PTL DEF RulesSpec

-----------------------------------------------------------------------------
(* The change ledger.                                                       *)

(* A set of natural numbers has a least one.                                *)
LEMMA LeastNatural ==
  ASSUME NEW S \in SUBSET Nat, S # {}
  PROVE  \E x \in S : \A y \in S : x <= y
<1> DEFINE R == OpToRel(<, Nat)
<1>1. IsWellFoundedOn(R, Nat)  BY NatLessThanWellFounded
<1>2. \A x, y \in Nat : x < y => <<x, y>> \in R  BY DEF OpToRel
<1> HIDE DEF R
<1>3. PICK x \in S : \A y \in S : ~(<<y, x>> \in R)  BY <1>1, WFMin
<1>4. \A y \in S : ~(y < x)  BY <1>2, <1>3
<1>5. \A y \in S : x <= y  BY <1>4
<1> QED  BY <1>5

(* The numbers of a sequence have a bound: the shortest one without a bound *)
(* would have one with its last number left out.                            *)
LEMMA NumbersBounded ==
  ASSUME NEW n \in Nat, NEW s \in [1..n -> Nat]
  PROVE  \E b \in Nat : \A i \in 1..n : s[i] <= b
<1> DEFINE Unbounded(m, v) == \A b \in Nat : \E i \in 1..m : ~(v[i] <= b)
           Bad == {m \in Nat : \E v \in [1..m -> Nat] : Unbounded(m, v)}
<1>1. SUFFICES ASSUME Bad # {} PROVE FALSE  OBVIOUS
<1>2. PICK m \in Bad : \A k \in Bad : m <= k  BY <1>1, LeastNatural
<1>3. PICK v \in [1..m -> Nat] : Unbounded(m, v)  BY <1>2
<1>4. m \in Nat /\ m # 0
  <2>1. m \in Nat  BY <1>2
  <2>2. m # 0
    <3>1. PICK i \in 1..m : ~(v[i] <= 0)  BY <1>3
    <3> QED  BY <3>1, <2>1
  <2> QED  BY <2>1, <2>2
<1> DEFINE u == [i \in 1..(m - 1) |-> v[i]]
<1>5. u \in [1..(m - 1) -> Nat] /\ m - 1 \in Nat /\ ~(m <= m - 1)
  <2>1. m - 1 \in Nat /\ ~(m <= m - 1) /\ \A i \in 1..(m - 1) : i \in 1..m  BY <1>4
  <2>2. \A i \in 1..(m - 1) : v[i] \in Nat  BY <2>1, <1>3
  <2> QED  BY <2>1, <2>2
<1>6. m - 1 \notin Bad  BY <1>2, <1>5
<1>7. ~Unbounded(m - 1, u)  BY <1>5, <1>6
<1>8. PICK b \in Nat : \A i \in 1..(m - 1) : u[i] <= b  BY <1>7
<1>9. PICK k \in Nat : k = v[m]  BY <1>3, <1>4
<1>10. PICK c \in Nat : v[m] <= c /\ b <= c
  <2>1. \A i, j \in Nat : i + j \in Nat /\ i <= i + j /\ j <= i + j  OBVIOUS
  <2> QED  BY <2>1, <1>8, <1>9
<1>11. \A i \in 1..m : v[i] <= c
  <2> TAKE i \in 1..m
  <2>1. CASE i = m  BY <2>1, <1>10
  <2>2. CASE i # m
    <3>1. i \in 1..(m - 1)  BY <2>2, <1>4
    <3>2. v[i] \in Nat  BY <1>3
    <3>3. v[i] <= b  BY <3>1, <1>8
    <3>4. b \in Nat /\ c \in Nat /\ b <= c  BY <1>8, <1>10
    <3> QED  BY <3>2, <3>3, <3>4
  <2> QED  BY <2>1, <2>2
<1> QED  BY <1>3, <1>10, <1>11

(* A bounded set of numbers has a greatest one, which Max chooses.          *)
LEMMA MaxGreatest ==
  ASSUME NEW S \in SUBSET Nat, S # {}, NEW b \in Nat, \A x \in S : x <= b
  PROVE  Max(S) \in S /\ \A x \in S : x <= Max(S)
<1> DEFINE U == {c \in Nat : \A x \in S : x <= c}
<1>1. PICK c \in U : \A d \in U : c <= d
  <2>1. b \in U /\ U \in SUBSET Nat  OBVIOUS
  <2> HIDE DEF U
  <2> QED  BY <2>1, LeastNatural
<1>2. c \in S
  <2>1. SUFFICES ASSUME c \notin S PROVE FALSE  OBVIOUS
  <2>2. \A x \in S : x < c  BY <1>1, <2>1
  <2>3. c # 0
    <3>1. PICK x \in S : TRUE  OBVIOUS
    <3> QED  BY <3>1, <2>2
  <2>4. c - 1 \in Nat /\ \A x \in S : x <= c - 1  BY <1>1, <2>2, <2>3
  <2>5. c <= c - 1  BY <1>1, <2>4
  <2> QED  BY <1>1, <2>5
<1>3. \A x \in S : c >= x  BY <1>1
<1>4. \E x \in S : \A y \in S : x >= y  BY <1>2, <1>3
<1>5. Max(S) \in S /\ \A y \in S : Max(S) >= y  BY <1>4 DEF Max
<1> QED  BY <1>5

(* add_change() gives out a number that no entry of the file has.           *)
LEMMA NextIdIsNew ==
  ASSUME NEW f \in Ledgers
  PROVE  NextId(f) \in Nat /\ \A i \in DOMAIN f.entries : f.entries[i].num < NextId(f)
<1> DEFINE n == Len(f.entries)
           s == [i \in 1..n |-> f.entries[i].num]
           S == {0} \cup {f.entries[i].num : i \in DOMAIN f.entries}
<1>1. f.entries \in Seq(LedgerEntries) /\ n \in Nat /\ DOMAIN f.entries = 1..n
  BY DEF Ledgers
<1>2. \A i \in 1..n : f.entries[i].num \in Nat
  <2> TAKE i \in 1..n
  <2>1. f.entries[i] \in LedgerEntries  BY <1>1
  <2> QED  BY <2>1 DEF LedgerEntries
<1>3. s \in [1..n -> Nat]  BY <1>2
<1>4. PICK b \in Nat : \A i \in 1..n : s[i] <= b
  <2> HIDE DEF s, n
  <2> QED  BY <1>1, <1>3, NumbersBounded
<1>5. S \in SUBSET Nat /\ S # {} /\ \A x \in S : x <= b
  <2>1. \A i \in 1..n : f.entries[i].num <= b  BY <1>4
  <2>2. 0 <= b  BY <1>4
  <2> QED  BY <1>1, <1>2, <2>1, <2>2
<1>6. Max(S) \in S /\ \A x \in S : x <= Max(S)
  <2> HIDE DEF S
  <2> QED  BY <1>5, MaxGreatest
<1>7. \A i \in DOMAIN f.entries : f.entries[i].num \in S  OBVIOUS
<1>8. NextId(f) = 1 + Max(S)  BY DEF NextId
<1> HIDE DEF S
<1>9. Max(S) \in Nat  BY <1>5, <1>6
<1> QED  BY <1>1, <1>2, <1>6, <1>7, <1>8, <1>9

(* What the calls make of a file that they do not spoil.                    *)
RolledIn(f) == {i \in DOMAIN f.entries : f.entries[i].rolled}
Covers(f, g) ==
  /\ Tags(f) \subseteq Tags(g)
  /\ \A i \in RolledIn(f) : \E j \in RolledIn(g) : g.entries[j].tag = f.entries[i].tag
DictionaryOK(f) == f \in Ledgers /\ f.form = "dict" /\ UniqueNumbers(f) /\ CountsRight(f)

(* The entries of a file, and those of them that were rolled back.          *)
LEMMA EntriesOf ==
  ASSUME NEW f \in Ledgers
  PROVE  /\ f.entries \in Seq(LedgerEntries) /\ Len(f.entries) \in Nat
         /\ DOMAIN f.entries = 1..Len(f.entries)
         /\ \A i \in DOMAIN f.entries : f.entries[i] \in LedgerEntries
         /\ IsFiniteSet(RolledIn(f)) /\ Cardinality(RolledIn(f)) \in Nat
         /\ Cardinality(RolledIn(f)) <= Len(f.entries)
<1>1. /\ f.entries \in Seq(LedgerEntries) /\ Len(f.entries) \in Nat
      /\ DOMAIN f.entries = 1..Len(f.entries)
  BY DEF Ledgers
<1>2. IsFiniteSet(1..Len(f.entries)) /\ Cardinality(1..Len(f.entries)) = Len(f.entries)
  BY <1>1, FS_Interval
<1>3. RolledIn(f) \subseteq 1..Len(f.entries)  BY <1>1 DEF RolledIn
<1>4. IsFiniteSet(RolledIn(f)) /\ Cardinality(RolledIn(f)) <= Len(f.entries)
  BY <1>2, <1>3, FS_Subset
<1> QED  BY <1>1, <1>4, FS_CardinalityType

(* load() keeps the entries, and its dictionary has unique numbers.         *)
LEMMA LoadKeeps ==
  ASSUME NEW f \in Ledgers, WellFormed(f), f.form # "empty"
  PROVE  DictionaryOK(Load(f)) /\ Covers(f, Load(f))
<1>1. CASE f.form = "none"
  <2>1. Load(f) = [form |-> "dict", entries |-> <<>>, total |-> 0, rolled |-> 0]
        /\ f = [form |-> "none", entries |-> <<>>, total |-> 0, rolled |-> 0]
    BY <1>1 DEF Load, File, WellFormed, NoFile
  <2>2. Load(f) \in Ledgers  BY <2>1 DEF Ledgers
  <2>3. RolledIn(Load(f)) = {} /\ RolledIn(f) = {} /\ Tags(f) = {}  BY <2>1 DEF RolledIn, Tags
  <2>4. CountsRight(Load(f))
    <3>1. Cardinality(RolledIn(Load(f))) = 0  BY <2>3, FS_EmptySet
    <3>2. Load(f).total = Len(Load(f).entries) /\ Load(f).rolled = 0  BY <2>1
    <3> QED  BY <3>1, <3>2 DEF CountsRight, RolledIn
  <2> QED  BY <2>1, <2>2, <2>3, <2>4 DEF DictionaryOK, UniqueNumbers, Covers
<1>2. CASE f.form = "list"
  <2> DEFINE es == [i \in DOMAIN f.entries |-> [f.entries[i] EXCEPT !.legacy = TRUE, !.num = i]]
  <2>1. Load(f) = [form |-> "dict", entries |-> es, total |-> Len(f.entries), rolled |-> 0]
    BY <1>2 DEF Load, File, Migrated
  <2>2. \A i \in DOMAIN f.entries :
          /\ es[i] \in LedgerEntries /\ es[i].tag = f.entries[i].tag /\ es[i].num = i
          /\ es[i].rolled = f.entries[i].rolled
    <3> TAKE i \in DOMAIN f.entries
    <3>1. f.entries[i] \in LedgerEntries /\ i \in Nat  BY EntriesOf
    <3> QED  BY <3>1 DEF LedgerEntries
  <2>3. DOMAIN es = 1..Len(f.entries) /\ Len(f.entries) \in Nat  BY EntriesOf
  <2>a. es \in [1..Len(f.entries) -> LedgerEntries]  BY <2>2, <2>3
  <2> HIDE DEF es
  <2>4. es \in Seq(LedgerEntries) /\ Len(es) = Len(f.entries)  BY <2>a, <2>3
  <2>5. Load(f) \in Ledgers  BY <2>1, <2>3, <2>4 DEF Ledgers
  <2>6. RolledIn(Load(f)) = {} /\ RolledIn(f) = {}
    BY <1>2, <2>1, <2>2, <2>3, EntriesOf DEF RolledIn, WellFormed
  <2>7. CountsRight(Load(f))
    <3>1. Cardinality(RolledIn(Load(f))) = 0  BY <2>6, FS_EmptySet
    <3>2. Load(f).total = Len(Load(f).entries) /\ Load(f).rolled = 0  BY <2>1, <2>4
    <3> QED  BY <3>1, <3>2 DEF CountsRight, RolledIn
  <2>8. UniqueNumbers(Load(f))  BY <2>1, <2>2, <2>3, EntriesOf DEF UniqueNumbers
  <2>9. Covers(f, Load(f))  BY <2>1, <2>2, <2>3, <2>6, EntriesOf DEF Covers, Tags
  <2> QED  BY <2>1, <2>5, <2>7, <2>8, <2>9 DEF DictionaryOK
<1>3. CASE f.form = "dict"
  <2>1. Load(f) = f  BY <1>3 DEF Load
  <2> QED  BY <1>3, <2>1 DEF DictionaryOK, WellFormed, Covers
<1> QED  BY <1>1, <1>2, <1>3 DEF Ledgers

(* add_change() adds an entry with a number of its own.                     *)
LEMMA AddedKeeps ==
  ASSUME NEW f, DictionaryOK(f), NEW t \in Nat
  PROVE  DictionaryOK(Added(f, t)) /\ Covers(f, Added(f, t)) /\ t \in Tags(Added(f, t))
<1> DEFINE e == [tag |-> t, legacy |-> FALSE, num |-> NextId(f), dated |-> TRUE, rolled |-> FALSE]
           n == Len(f.entries)
           es == Append(f.entries, e)
<1>1. f \in Ledgers /\ f.total = n /\ f.rolled \in Nat  BY DEF DictionaryOK, Ledgers, CountsRight
<1>2. /\ f.entries \in Seq(LedgerEntries) /\ n \in Nat /\ DOMAIN f.entries = 1..n
      /\ \A i \in 1..n : f.entries[i] \in LedgerEntries
  BY <1>1, EntriesOf
<1>3. NextId(f) \in Nat /\ \A i \in 1..n : f.entries[i].num < NextId(f)
  BY <1>1, <1>2, NextIdIsNew
<1>4. e \in LedgerEntries  BY <1>3 DEF LedgerEntries
<1>5. /\ es \in Seq(LedgerEntries) /\ Len(es) = n + 1 /\ DOMAIN es = 1..(n + 1)
      /\ es[n + 1] = e /\ \A i \in 1..n : es[i] = f.entries[i]
  BY <1>2, <1>4
<1>6. Added(f, t) = [form |-> "dict", entries |-> es, total |-> Len(es), rolled |-> f.rolled]
  BY DEF Added, Saved, File, Entry
<1>7. e.tag = t /\ e.num = NextId(f) /\ e.rolled = FALSE  OBVIOUS
<1> HIDE DEF e, es, n
<1>8. Added(f, t) \in Ledgers  BY <1>1, <1>2, <1>5, <1>6 DEF Ledgers
<1>9. RolledIn(Added(f, t)) = RolledIn(f)
  BY <1>2, <1>5, <1>6, <1>7 DEF RolledIn
<1>10. CountsRight(Added(f, t))
  <2>1. f.rolled >= Cardinality(RolledIn(f))  BY DEF DictionaryOK, CountsRight, RolledIn
  <2>2. f.rolled >= Cardinality(RolledIn(Added(f, t)))  BY <2>1, <1>9
  <2>3. Added(f, t).total = Len(Added(f, t).entries) /\ Added(f, t).rolled = f.rolled
    BY <1>6
  <2> QED  BY <2>2, <2>3 DEF CountsRight, RolledIn
<1>11. UniqueNumbers(Added(f, t))
  <2> SUFFICES ASSUME NEW i \in 1..(n + 1), NEW j \in 1..(n + 1), es[i].num = es[j].num
               PROVE  i = j
    BY <1>5, <1>6 DEF UniqueNumbers
  <2>1. \A k \in 1..n : f.entries[k].num \in Nat /\ f.entries[k].num # NextId(f)
    <3> TAKE k \in 1..n
    <3>1. f.entries[k].num \in Nat  BY <1>2 DEF LedgerEntries
    <3>2. f.entries[k].num < NextId(f)  BY <1>3
    <3> QED  BY <3>1, <3>2, <1>3
  <2>2. i = n + 1 \/ i \in 1..n  BY <1>2
  <2>3. j = n + 1 \/ j \in 1..n  BY <1>2
  <2>4. \A k, l \in 1..n : f.entries[k].num = f.entries[l].num => k = l
    BY <1>2 DEF DictionaryOK, UniqueNumbers
  <2> QED  BY <2>1, <2>2, <2>3, <2>4, <1>5, <1>7
<1>12. t \in Tags(Added(f, t))
  <2>1. n + 1 \in DOMAIN es /\ es[n + 1].tag = t  BY <1>2, <1>5, <1>7
  <2> QED  BY <1>6, <2>1 DEF Tags
<1>13. Covers(f, Added(f, t))
  <2>1. \A i \in 1..n : i \in DOMAIN es /\ es[i] = f.entries[i]  BY <1>2, <1>5
  <2>2. Tags(f) \subseteq Tags(Added(f, t))  BY <1>2, <1>6, <2>1 DEF Tags
  <2>3. \A i \in RolledIn(f) : i \in RolledIn(Added(f, t))
                               /\ Added(f, t).entries[i].tag = f.entries[i].tag
    BY <1>2, <1>6, <1>9, <2>1 DEF RolledIn
  <2> QED  BY <2>2, <2>3 DEF Covers
<1> QED  BY <1>6, <1>8, <1>10, <1>11, <1>12, <1>13 DEF DictionaryOK

(* mark_rolled_back() marks an entry and counts it.                         *)
LEMMA MarkedKeeps ==
  ASSUME NEW f, DictionaryOK(f), NEW i \in DOMAIN f.entries
  PROVE  /\ DictionaryOK(Marked(f, i)) /\ Covers(f, Marked(f, i))
         /\ \E j \in RolledIn(Marked(f, i)) : Marked(f, i).entries[j].tag = f.entries[i].tag
<1> DEFINE es == [f.entries EXCEPT ![i].rolled = TRUE]
           n == Len(f.entries)
<1>1. f \in Ledgers /\ f.total = n /\ f.rolled \in Nat  BY DEF DictionaryOK, Ledgers, CountsRight
<1>2. /\ f.entries \in Seq(LedgerEntries) /\ n \in Nat /\ DOMAIN f.entries = 1..n
      /\ \A k \in 1..n : f.entries[k] \in LedgerEntries
  BY <1>1, EntriesOf
<1>3. \A k \in 1..n :
        /\ es[k].tag = f.entries[k].tag /\ es[k].num = f.entries[k].num
        /\ k # i => es[k].rolled = f.entries[k].rolled
        /\ es[k] \in LedgerEntries
  <2> TAKE k \in 1..n
  <2>1. f.entries[k] \in LedgerEntries  BY <1>2
  <2>2. CASE k = i  BY <1>2, <2>1, <2>2 DEF LedgerEntries
  <2>3. CASE k # i  BY <1>2, <2>1, <2>3
  <2> QED  BY <2>2, <2>3
<1>4. DOMAIN es = 1..n /\ i \in 1..n /\ es[i].rolled = TRUE
  <2>1. f.entries[i] \in LedgerEntries  BY <1>2
  <2> QED  BY <2>1, <1>2 DEF LedgerEntries
<1>5. es \in Seq(LedgerEntries) /\ Len(es) = n
  <2>1. es \in [1..n -> LedgerEntries]  BY <1>3, <1>4
  <2> QED  BY <2>1, <1>2
<1>6. Marked(f, i) = [form |-> "dict", entries |-> es, total |-> Len(es), rolled |-> f.rolled + 1]
  BY DEF Marked, Saved, File
<1> DEFINE g == Marked(f, i)
<1> HIDE DEF es, n, g
<1>6a. g.form = "dict" /\ g.entries = es /\ g.total = Len(es) /\ g.rolled = f.rolled + 1
  BY <1>6 DEF g
<1>7. Marked(f, i) \in Ledgers
  <2>1. f.rolled + 1 \in Nat  BY <1>1
  <2> QED  BY <1>2, <1>5, <1>6, <2>1 DEF Ledgers
<1>8. RolledIn(g) = RolledIn(f) \cup {i}
  BY <1>2, <1>3, <1>4, <1>6a DEF RolledIn
<1>9. CountsRight(g)
  <2>1. IsFiniteSet(RolledIn(f)) /\ Cardinality(RolledIn(f)) \in Nat  BY <1>1, EntriesOf
  <2>2. Cardinality(RolledIn(g)) = Cardinality(RolledIn(f))
        \/ Cardinality(RolledIn(g)) = Cardinality(RolledIn(f)) + 1
    BY <1>8, <2>1, FS_AddElement
  <2>3. f.rolled >= Cardinality(RolledIn(f))  BY DEF DictionaryOK, CountsRight, RolledIn
  <2>4. f.rolled + 1 >= Cardinality(RolledIn(g))
    <3>1. CASE Cardinality(RolledIn(g)) = Cardinality(RolledIn(f))
      BY <1>1, <2>1, <2>3, <3>1
    <3>2. CASE Cardinality(RolledIn(g)) = Cardinality(RolledIn(f)) + 1
      BY <1>1, <2>1, <2>3, <3>2
    <3> QED  BY <2>2, <3>1, <3>2
  <2>5. /\ g.total = Len(g.entries) /\ g.rolled = f.rolled + 1
    BY <1>6a
  <2> QED  BY <2>4, <2>5 DEF CountsRight, RolledIn
<1>10. UniqueNumbers(g)
  BY <1>2, <1>3, <1>4, <1>6a DEF UniqueNumbers, DictionaryOK
<1>11. i \in RolledIn(g) /\ g.entries[i].tag = f.entries[i].tag
  BY <1>2, <1>3, <1>6a, <1>8
<1>12. Covers(f, g)
  <2>1. Tags(f) \subseteq Tags(g)  BY <1>2, <1>3, <1>4, <1>6a DEF Tags
  <2>2. \A k \in RolledIn(f) : k \in RolledIn(g)
                               /\ g.entries[k].tag = f.entries[k].tag
    BY <1>2, <1>3, <1>6a, <1>8 DEF RolledIn
  <2> QED  BY <2>1, <2>2 DEF Covers
<1> QED  BY <1>6a, <1>7, <1>9, <1>10, <1>11, <1>12 DEF DictionaryOK, g

(* The log_change() calls write a list with their entry, and lose only what *)
(* a dictionary holds.                                                      *)
LEMMA ListedKeeps ==
  ASSUME NEW f \in Ledgers, WellFormed(f), NEW op \in Ops, NEW t \in Nat
  PROVE  /\ Listed(f, op, t) \in Ledgers /\ Listed(f, op, t).form = "list"
         /\ WellFormed(Listed(f, op, t)) /\ t \in Tags(Listed(f, op, t))
         /\ f.form # "dict" => Covers(f, Listed(f, op, t))
<1> DEFINE e == [tag |-> t, legacy |-> FALSE, num |-> 0, dated |-> TRUE, rolled |-> FALSE]
           es == CASE f.form = "list" -> f.entries
                   [] f.form = "dict" /\ op = "template" -> <<Nested>>
                   [] OTHER -> <<>>
<1>1. e \in LedgerEntries /\ e.rolled = FALSE /\ e.tag = t  BY DEF LedgerEntries
<1>2. Nested \in LedgerEntries /\ Nested.rolled = FALSE  BY DEF Nested, Entry, LedgerEntries
<1>3. /\ es \in Seq(LedgerEntries)
      /\ \A i \in DOMAIN es : es[i].rolled = FALSE
      /\ f.form # "dict" => es = f.entries
  <2>1. CASE f.form = "list"
    <3>1. es = f.entries  BY <2>1
    <3>2. \A i \in DOMAIN f.entries : ~f.entries[i].rolled /\ f.entries[i].rolled \in BOOLEAN
      BY <2>1, EntriesOf DEF WellFormed, LedgerEntries
    <3> HIDE DEF es
    <3> QED  BY <3>1, <3>2, EntriesOf
  <2>2. CASE f.form = "dict"
    <3>1. es = <<Nested>> \/ es = <<>>  BY <2>2
    <3> HIDE DEF es
    <3>2. CASE es = <<Nested>>
      <4>1. es \in Seq(LedgerEntries) /\ DOMAIN es = 1..1 /\ es[1] = Nested  BY <3>2, <1>2
      <4> QED  BY <2>2, <4>1, <1>2
    <3>3. CASE es = <<>>  BY <2>2, <3>3
    <3> QED  BY <3>1, <3>2, <3>3
  <2>3. CASE f.form \in {"none", "empty"}
    <3>1. es = <<>>  BY <2>3
    <3>2. f.entries = <<>>  BY <2>3 DEF WellFormed, NoFile, Truncated, File
    <3> HIDE DEF es
    <3> QED  BY <3>1, <3>2
  <2> QED  BY <2>1, <2>2, <2>3 DEF Ledgers
<1>4. Listed(f, op, t) = [form |-> "list", entries |-> Append(es, e), total |-> 0, rolled |-> 0]
  BY DEF Listed, File, Entry
<1> DEFINE g == Listed(f, op, t)
           n == Len(es)
<1> HIDE DEF e, es, g
<1>5. g.form = "list" /\ g.entries = Append(es, e) /\ g.total = 0 /\ g.rolled = 0  BY <1>4 DEF g
<1>6. /\ n \in Nat /\ DOMAIN es = 1..n
      /\ Append(es, e) \in Seq(LedgerEntries) /\ DOMAIN g.entries = 1..(n + 1)
      /\ g.entries[n + 1] = e /\ \A i \in 1..n : g.entries[i] = es[i]
  BY <1>1, <1>3, <1>5
<1> HIDE DEF n
<1>7. g \in Ledgers  BY <1>4, <1>6 DEF Ledgers, g
<1>8. \A i \in 1..(n + 1) : g.entries[i].rolled = FALSE
  <2> TAKE i \in 1..(n + 1)
  <2>1. i = n + 1 \/ i \in 1..n  BY <1>6
  <2> QED  BY <2>1, <1>1, <1>3, <1>6
<1>9. WellFormed(g)  BY <1>5, <1>6, <1>8 DEF WellFormed
<1>10. t \in Tags(g)
  <2>1. n + 1 \in DOMAIN g.entries /\ g.entries[n + 1].tag = t  BY <1>1, <1>6
  <2> QED  BY <2>1 DEF Tags
<1>11. ASSUME f.form # "dict"
       PROVE  Covers(f, g)
  <2>1. es = f.entries  BY <1>3, <1>11
  <2>2. RolledIn(f) = {}  BY <2>1, <1>3 DEF RolledIn
  <2>3. \A i \in DOMAIN f.entries : i \in DOMAIN g.entries /\ g.entries[i] = f.entries[i]
    BY <2>1, <1>6
  <2>4. Tags(f) \subseteq Tags(g)  BY <2>3 DEF Tags
  <2> QED  BY <2>2, <2>4 DEF Covers
<1> QED  BY <1>5, <1>7, <1>9, <1>10, <1>11 DEF g

LedgerCall == [pc : {"idle", "read", "writing"}, op : Ops \cup {None}, tag : Nat,
               mem : Ledgers, seen : Ledgers]

(* The file holds what the calls that ended have told.                      *)
Kept(f) ==
  /\ reported \subseteq Tags(f)
  /\ \A t \in marked : \E i \in RolledIn(f) : f.entries[i].tag = t

(* A call holds in memory a file that can be read, with its own entry or    *)
(* mark.                                                                    *)
CallSound(p) ==
  call[p].pc # "idle" =>
    /\ call[p].op \in Ops
    /\ call[p].mem.form \in {"list", "dict"} /\ WellFormed(call[p].mem)
    /\ IF call[p].op = "mark"
       THEN \E i \in RolledIn(call[p].mem) : call[p].mem.entries[i].tag = call[p].tag
       ELSE call[p].tag \in Tags(call[p].mem)
IsWriting(p) == call[p].pc = "writing"

(* Two calls write one file, or the writer finds it written: the loss comes *)
(* with the last of them.                                                   *)
Spoiled ==
  IF ledger = Truncated THEN \E p, q \in Callers : p # q /\ IsWriting(p) /\ IsWriting(q)
                        ELSE \E p \in Callers : IsWriting(p)

(* Nobody writes a file that holds all, or one call will write all.         *)
Clean ==
  \/ Kept(ledger) /\ \A p \in Callers : ~IsWriting(p)
  \/ ledger = Truncated /\ \E p \in Callers : /\ IsWriting(p) /\ Kept(call[p].mem)
                                              /\ \A q \in Callers : IsWriting(q) => q = p

NoLossYet ==
  causes = {} =>
    /\ \A p \in Callers : call[p].pc = "read" => Covers(call[p].seen, call[p].mem)
    /\ Spoiled \/ Clean

LedgerTypes == ledger \in Ledgers /\ calls \in Nat /\ call \in [Callers -> LedgerCall]

LedgerInv ==
  /\ LedgerTypes /\ WellFormed(ledger)
  /\ \A p \in Callers : CallSound(p)
  /\ NoLossYet

(* A file that covers one which holds all holds all.                        *)
LEMMA KeptByCover ==
  ASSUME NEW f, NEW g, Kept(f), Covers(f, g)
  PROVE  Kept(g)
BY DEF Kept, Covers

(* The files that stand for no file and for a truncated one.                *)
LEMMA PlainFiles ==
  /\ NoFile \in Ledgers /\ Truncated \in Ledgers /\ WellFormed(NoFile) /\ WellFormed(Truncated)
  /\ NoFile.form = "none" /\ Truncated.form = "empty"
  /\ NoCall \in LedgerCall /\ NoCall.pc = "idle"
<1>1. NoFile \in Ledgers /\ Truncated \in Ledgers
      /\ NoFile.form = "none" /\ Truncated.form = "empty"
  BY DEF NoFile, Truncated, File, Ledgers
<1>2. WellFormed(NoFile) /\ WellFormed(Truncated)  BY <1>1 DEF WellFormed
<1>3. NoCall \in LedgerCall /\ NoCall.pc = "idle"  BY <1>1 DEF NoCall, LedgerCall
<1> QED  BY <1>1, <1>2, <1>3

(* What a dictionary that load() or a call has made may be written as.      *)
LEMMA DictionaryWellFormed ==
  ASSUME NEW f, DictionaryOK(f)
  PROVE  f \in Ledgers /\ f.form = "dict" /\ WellFormed(f)
BY DEF DictionaryOK, WellFormed

(* One call changes: the others stay as they are.                           *)
LEMMA CallSet ==
  ASSUME LedgerTypes, \A p \in Callers : CallSound(p),
         NEW p \in Callers, NEW c \in LedgerCall, call' = [call EXCEPT ![p] = c]
  PROVE  /\ call' \in [Callers -> LedgerCall] /\ call'[p] = c
         /\ \A q \in Callers : q # p => call'[q] = call[q] /\ CallSound(q)'
<1>1. call' \in [Callers -> LedgerCall] /\ call'[p] = c
      /\ \A q \in Callers : q # p => call'[q] = call[q]
  BY DEF LedgerTypes
<1>2. \A q \in Callers : q # p => CallSound(q)'  BY <1>1 DEF CallSound
<1> QED  BY <1>1, <1>2

(* A call that begins has read what is there: nothing is lost by that, and  *)
(* what it will write covers it unless a cause was noted.                   *)
LEMMA BeginStep ==
  ASSUME LedgerInv, NEW p \in Callers, NEW c \in LedgerCall,
         call[p].pc = "idle", call' = [call EXCEPT ![p] = c],
         c.pc = "read", c.op \in Ops, c.seen = ledger,
         c.mem.form \in {"list", "dict"}, WellFormed(c.mem),
         c.op = "mark" => \E i \in RolledIn(c.mem) : c.mem.entries[i].tag = c.tag,
         c.op # "mark" => c.tag \in Tags(c.mem),
         causes' = {} => causes = {} /\ Covers(c.seen, c.mem),
         ledger' = ledger \/ (ledger = NoFile /\ ledger' = Load(NoFile)),
         calls' \in Nat, reported' = reported, marked' = marked
  PROVE  LedgerInv'
<1>1. /\ call' \in [Callers -> LedgerCall] /\ call'[p] = c
      /\ \A q \in Callers : q # p => call'[q] = call[q] /\ CallSound(q)'
  BY CallSet DEF LedgerInv
<1>2. \A q \in Callers : CallSound(q)'
  <2>1. CallSound(p)'  BY <1>1 DEF CallSound
  <2> QED  BY <1>1, <2>1
<1>3. PICK l : l = ledger'  OBVIOUS
<1>4. DictionaryOK(Load(NoFile)) /\ Covers(NoFile, Load(NoFile))  BY PlainFiles, LoadKeeps
<1>5. l \in Ledgers /\ WellFormed(l) /\ (ledger = Truncated <=> l = Truncated)
  <2>1. CASE l = ledger  BY <2>1 DEF LedgerInv, LedgerTypes
  <2>2. CASE ledger = NoFile /\ l = Load(NoFile)
    <3>1. l \in Ledgers /\ l.form = "dict" /\ WellFormed(l)
      BY <2>2, <1>4, DictionaryWellFormed
    <3> QED  BY <2>2, <3>1, PlainFiles
  <2> QED  BY <2>1, <2>2, <1>3
<1>6. Kept(ledger) => Kept(l)
  BY <1>3, <1>4, KeptByCover
<1>7. \A f : Kept(f)' <=> Kept(f)  BY DEF Kept
<1>8. \A q \in Callers : call'[q].pc = "writing" <=> call[q].pc = "writing"  BY <1>1 DEF IsWriting
<1>9. ASSUME causes' = {}
      PROVE  /\ \A q \in Callers : call'[q].pc = "read" => Covers(call'[q].seen, call'[q].mem)
             /\ Spoiled' \/ Clean'
  <2>1. causes = {} /\ Covers(c.seen, c.mem)  BY <1>9
  <2>2. \A q \in Callers : call'[q].pc = "read" => Covers(call'[q].seen, call'[q].mem)
    BY <1>1, <2>1 DEF LedgerInv, NoLossYet
  <2>3. CASE Spoiled  BY <2>2, <2>3, <1>3, <1>5, <1>8 DEF Spoiled, IsWriting
  <2>4. CASE Clean
    <3>1. CASE Kept(ledger) /\ \A q \in Callers : ~IsWriting(q)
      <4>1. Kept(l)'  BY <3>1, <1>6, <1>7
      <4>2. Kept(ledger)'  BY <4>1, <1>3 DEF Kept
      <4> QED  BY <2>2, <3>1, <4>2, <1>8 DEF Clean, IsWriting
    <3>2. CASE ledger = Truncated /\ \E q \in Callers : /\ IsWriting(q) /\ Kept(call[q].mem)
                                                        /\ \A r \in Callers : IsWriting(r) => r = q
      <4>1. PICK q \in Callers : /\ IsWriting(q) /\ Kept(call[q].mem)
                                 /\ \A r \in Callers : IsWriting(r) => r = q
        BY <3>2
      <4>2. q # p /\ call'[q] = call[q]  BY <4>1, <1>1 DEF IsWriting
      <4>3. Kept(call[q].mem)'  BY <4>1, <4>2 DEF Kept
      <4>4. ledger' = Truncated  BY <3>2, <1>3, <1>5
      <4> QED  BY <2>2, <4>1, <4>2, <4>3, <4>4, <1>8 DEF Clean, IsWriting
    <3> QED  BY <2>4, <3>1, <3>2 DEF Clean
  <2>5. Spoiled \/ Clean  BY <2>1 DEF LedgerInv, NoLossYet
  <2> QED  BY <2>2, <2>3, <2>4, <2>5
<1>10. NoLossYet'  BY <1>9 DEF NoLossYet
<1>11. LedgerTypes'  BY <1>1, <1>3, <1>5 DEF LedgerTypes
<1>12. WellFormed(ledger)'  BY <1>3, <1>5 DEF WellFormed, UniqueNumbers, CountsRight
<1> QED  BY <1>2, <1>10, <1>11, <1>12 DEF LedgerInv

(* The three ways to begin, with what each of them keeps in memory.         *)
LEMMA ReadStep ==
  ASSUME LedgerInv, NEW p \in Callers, ReadAdd(p) \/ ReadMark(p) \/ ReadList(p)
  PROVE  LedgerInv'
<1>1. ledger \in Ledgers /\ WellFormed(ledger) /\ calls \in Nat /\ calls + 1 \in Nat
  BY DEF LedgerInv, LedgerTypes
<1>2. CASE ReadAdd(p)
  <2> DEFINE m == Added(Load(ledger), calls + 1)
             c == [pc |-> "read", op |-> "add", tag |-> calls + 1, mem |-> m, seen |-> ledger]
  <2>1. DictionaryOK(Load(ledger)) /\ Covers(ledger, Load(ledger))
    BY <1>1, <1>2, LoadKeeps DEF ReadAdd
  <2>2. DictionaryOK(m) /\ Covers(Load(ledger), m) /\ calls + 1 \in Tags(m)
    BY <1>1, <2>1, AddedKeeps
  <2>3. Covers(ledger, m)  BY <2>1, <2>2 DEF Covers
  <2>4. m \in Ledgers /\ m.form = "dict" /\ WellFormed(m)  BY <2>2, DictionaryWellFormed
  <2>5. /\ call[p].pc = "idle" /\ calls' = calls + 1 /\ call' = [call EXCEPT ![p] = c]
        /\ ledger' = (IF ledger.form = "none" THEN Load(ledger) ELSE ledger)
        /\ reported' = reported /\ marked' = marked /\ causes' = causes
    BY <1>2 DEF ReadAdd, Read
  <2>6. ledger' = ledger \/ (ledger = NoFile /\ ledger' = Load(NoFile))
    BY <1>1, <2>5 DEF WellFormed
  <2> HIDE DEF m
  <2>7. c \in LedgerCall  BY <1>1, <2>4 DEF LedgerCall, Ops
  <2>8. c.pc = "read" /\ c.op = "add" /\ c.tag = calls + 1 /\ c.mem = m /\ c.seen = ledger
    OBVIOUS
  <2> HIDE DEF c
  <2> QED  BY <1>1, <2>2, <2>3, <2>4, <2>5, <2>6, <2>7, <2>8, BeginStep DEF Ops
<1>3. CASE ReadMark(p)
  <2> DEFINE f == Load(ledger)
  <2>1. DictionaryOK(f) /\ Covers(ledger, f)  BY <1>1, <1>3, LoadKeeps DEF ReadMark
  <2>2. PICK i \in DOMAIN f.entries : Read(p, "mark", f.entries[i].tag, Marked(f, i))
    BY <1>3 DEF ReadMark
  <2> DEFINE m == Marked(f, i)
             c == [pc |-> "read", op |-> "mark", tag |-> f.entries[i].tag, mem |-> m, seen |-> ledger]
  <2>3. /\ DictionaryOK(m) /\ Covers(f, m)
        /\ \E j \in RolledIn(m) : m.entries[j].tag = f.entries[i].tag
    BY <2>1, MarkedKeeps
  <2>4. Covers(ledger, m)  BY <2>1, <2>3 DEF Covers
  <2>5. m \in Ledgers /\ m.form = "dict" /\ WellFormed(m)  BY <2>3, DictionaryWellFormed
  <2>6. /\ call[p].pc = "idle" /\ calls' = calls + 1 /\ call' = [call EXCEPT ![p] = c]
        /\ ledger' = ledger /\ reported' = reported /\ marked' = marked /\ causes' = causes
    BY <1>3, <2>2 DEF ReadMark, Read
  <2>7. f.entries[i].tag \in Nat
    <3>1. f \in Ledgers  BY <2>1 DEF DictionaryOK
    <3> HIDE DEF f
    <3>2. f.entries[i] \in LedgerEntries  BY <3>1, EntriesOf
    <3> QED  BY <3>2 DEF LedgerEntries
  <2> HIDE DEF m, f
  <2>8. c \in LedgerCall  BY <1>1, <2>5, <2>7 DEF LedgerCall, Ops
  <2>9. /\ c.pc = "read" /\ c.op = "mark" /\ c.tag = f.entries[i].tag /\ c.mem = m
        /\ c.seen = ledger
    OBVIOUS
  <2> HIDE DEF c
  <2> QED  BY <1>1, <2>3, <2>4, <2>5, <2>6, <2>8, <2>9, BeginStep DEF Ops
<1>4. CASE ReadList(p)
  <2>1. PICK op \in {"override", "directive", "template"} :
          /\ Read(p, op, calls + 1, Listed(ledger, op, calls + 1))
          /\ Note(IF op = "template" THEN "nested" ELSE "wiped", ledger.form = "dict")
    BY <1>4 DEF ReadList
  <2> DEFINE m == Listed(ledger, op, calls + 1)
             c == [pc |-> "read", op |-> op, tag |-> calls + 1, mem |-> m, seen |-> ledger]
  <2>2. op \in Ops /\ op # "mark"  BY DEF Ops
  <2>3. /\ m \in Ledgers /\ m.form = "list" /\ WellFormed(m) /\ calls + 1 \in Tags(m)
        /\ ledger.form # "dict" => Covers(ledger, m)
    BY <1>1, <2>2, ListedKeeps
  <2>4. /\ call[p].pc = "idle" /\ calls' = calls + 1 /\ call' = [call EXCEPT ![p] = c]
        /\ ledger' = ledger /\ reported' = reported /\ marked' = marked
    BY <1>4, <2>1 DEF ReadList, Read
  <2>5. causes' = {} => causes = {} /\ ledger.form # "dict"
    <3> PICK x : x = IF op = "template" THEN "nested" ELSE "wiped"  OBVIOUS
    <3>1. causes' = causes \cup (IF ledger.form = "dict" THEN {x} ELSE {})  BY <2>1 DEF Note
    <3> QED  BY <3>1
  <2> HIDE DEF m
  <2>6. c \in LedgerCall  BY <1>1, <2>2, <2>3 DEF LedgerCall
  <2>7. c.pc = "read" /\ c.op = op /\ c.tag = calls + 1 /\ c.mem = m /\ c.seen = ledger
    OBVIOUS
  <2> HIDE DEF c
  <2> QED  BY <1>1, <2>2, <2>3, <2>4, <2>5, <2>6, <2>7, BeginStep
<1> QED  BY <1>2, <1>3, <1>4

(* A call that gives up with nothing written takes nothing with it.         *)
LEMMA GiveUpStep ==
  ASSUME LedgerInv, NEW p \in Callers, call' = [call EXCEPT ![p] = NoCall],
         ledger' = ledger, reported' = reported, marked' = marked, calls' \in Nat,
         causes' = {} => causes = {} /\ ~IsWriting(p)
  PROVE  LedgerInv'
<1>1. /\ call' \in [Callers -> LedgerCall] /\ call'[p] = NoCall
      /\ \A q \in Callers : q # p => call'[q] = call[q] /\ CallSound(q)'
  BY CallSet, PlainFiles DEF LedgerInv
<1>2. \A q \in Callers : CallSound(q)'  BY <1>1, PlainFiles DEF CallSound
<1>3. ASSUME causes' = {}
      PROVE  /\ \A q \in Callers : call'[q].pc = "read" => Covers(call'[q].seen, call'[q].mem)
             /\ Spoiled' \/ Clean'
  <2>1. causes = {} /\ ~IsWriting(p)  BY <1>3
  <2>2. \A q \in Callers : call'[q].pc = "writing" <=> call[q].pc = "writing"  BY <1>1, <2>1, PlainFiles DEF IsWriting
  <2>3. \A q \in Callers : call'[q].pc = "read" => Covers(call'[q].seen, call'[q].mem)
    BY <1>1, <2>1, PlainFiles DEF LedgerInv, NoLossYet
  <2>4. CASE Spoiled  BY <2>3, <2>4, <2>2 DEF Spoiled, IsWriting
  <2>5. CASE Clean
    <3>1. Kept(ledger) => Kept(ledger)'  BY DEF Kept
    <3>2. \A q \in Callers : IsWriting(q) /\ Kept(call[q].mem) => Kept(call[q].mem)'
      <4> SUFFICES ASSUME NEW q \in Callers, IsWriting(q), Kept(call[q].mem)
                   PROVE  Kept(call[q].mem)'
        OBVIOUS
      <4>1. call'[q] = call[q]  BY <1>1, <2>1
      <4> QED  BY <4>1 DEF Kept
    <3> QED  BY <2>3, <2>2, <2>5, <3>1, <3>2 DEF Clean, IsWriting
  <2> QED  BY <2>1, <2>3, <2>4, <2>5 DEF LedgerInv, NoLossYet
<1>4. NoLossYet'  BY <1>3 DEF NoLossYet
<1>5. LedgerTypes'  BY <1>1 DEF LedgerTypes, LedgerInv
<1> QED  BY <1>2, <1>4, <1>5 DEF LedgerInv, WellFormed, UniqueNumbers, CountsRight

(* An empty dictionary holds all only if nothing was told.                  *)
LEMMA KeptByEmpty ==
  ASSUME Kept(Load(NoFile)), NEW g
  PROVE  Kept(g)
<1>1. Load(NoFile).entries = <<>>  BY PlainFiles DEF Load, File, NoFile
<1>2. Tags(Load(NoFile)) = {} /\ RolledIn(Load(NoFile)) = {}  BY <1>1 DEF Tags, RolledIn
<1> QED  BY <1>2 DEF Kept

(* A file that is truncated by one call will be written whole by it; two    *)
(* such calls spoil it.                                                     *)
LEMMA TruncateStep ==
  ASSUME LedgerInv, NEW p \in Callers, Truncate(p)
  PROVE  LedgerInv'
<1> DEFINE c == [call[p] EXCEPT !.pc = "writing"]
<1>1. /\ call[p].pc = "read" /\ call' = [call EXCEPT ![p] = c] /\ ledger' = Truncated
      /\ calls' = calls /\ reported' = reported /\ marked' = marked
      /\ causes' = causes \cup (IF /\ ledger # call[p].seen
                                   /\ ~(call[p].seen.form = "none" /\ ledger = Load(NoFile))
                                THEN {"stale"} ELSE {})
  BY DEF Truncate, Note
<1>2. c \in LedgerCall /\ c.pc = "writing" /\ c.op = call[p].op /\ c.tag = call[p].tag
      /\ c.mem = call[p].mem
  BY DEF LedgerInv, LedgerTypes, LedgerCall
<1> HIDE DEF c
<1>3. /\ call' \in [Callers -> LedgerCall] /\ call'[p] = c
      /\ \A q \in Callers : q # p => call'[q] = call[q] /\ CallSound(q)'
  BY <1>1, <1>2, CallSet DEF LedgerInv
<1>4. \A q \in Callers : CallSound(q)'
  <2>1. CallSound(p)  BY DEF LedgerInv
  <2>2. CallSound(p)'  BY <2>1, <1>1, <1>2, <1>3 DEF CallSound
  <2> QED  BY <1>3, <2>2
<1>5. ASSUME causes' = {}
      PROVE  /\ \A q \in Callers : call'[q].pc = "read" => Covers(call'[q].seen, call'[q].mem)
             /\ Spoiled' \/ Clean'
  <2>1. causes = {} /\ (ledger = call[p].seen \/ ledger = Load(NoFile))  BY <1>1, <1>5
  <2>2. \A q \in Callers : call'[q].pc = "read" => Covers(call'[q].seen, call'[q].mem)
    BY <1>2, <1>3, <2>1 DEF LedgerInv, NoLossYet
  <2>3. CASE \E q \in Callers : call[q].pc = "writing"
    BY <2>2, <2>3, <1>1, <1>2, <1>3 DEF Spoiled, IsWriting
  <2>4. CASE \A q \in Callers : call[q].pc # "writing"
    <3>1. Kept(ledger)
      BY <2>1, <2>4 DEF LedgerInv, NoLossYet, Spoiled, Clean, IsWriting
    <3>2. Covers(call[p].seen, call[p].mem)  BY <1>1, <2>1 DEF LedgerInv, NoLossYet
    <3>3. Kept(call[p].mem)  BY <2>1, <3>1, <3>2, KeptByCover, KeptByEmpty
    <3>4. Kept(call[p].mem)'  BY <3>3, <1>1, <1>2, <1>3 DEF Kept
    <3>5. call'[p].pc = "writing" /\ \A q \in Callers : call'[q].pc = "writing" => q = p
      BY <2>4, <1>2, <1>3
    <3> QED  BY <2>2, <3>4, <3>5, <1>1 DEF Clean, IsWriting
  <2> QED  BY <2>3, <2>4
<1>6. NoLossYet'  BY <1>5 DEF NoLossYet
<1>7. LedgerTypes'  BY <1>1, <1>3, PlainFiles DEF LedgerTypes, LedgerInv
<1>8. WellFormed(ledger)'  BY <1>1, PlainFiles DEF WellFormed, UniqueNumbers, CountsRight
<1> QED  BY <1>4, <1>6, <1>7, <1>8 DEF LedgerInv

(* The only writer of a truncated file writes all that was told, with what  *)
(* it tells itself.                                                         *)
LEMMA WriteStep ==
  ASSUME LedgerInv, NEW p \in Callers, Write(p)
  PROVE  LedgerInv'
<1>1. /\ call[p].pc = "writing" /\ call' = [call EXCEPT ![p] = NoCall]
      /\ ledger' = call[p].mem /\ calls' = calls
      /\ IF call[p].op = "mark"
         THEN marked' = marked \cup {call[p].tag} /\ reported' = reported
         ELSE reported' = reported \cup {call[p].tag} /\ marked' = marked
      /\ causes' = causes \cup (IF ledger # Truncated THEN {"stale"} ELSE {})
  BY DEF Write, Note
<1>2. PICK m : m = call[p].mem  OBVIOUS
<1>3. /\ m \in Ledgers /\ m.form \in {"list", "dict"} /\ WellFormed(m) /\ m # Truncated
      /\ IF call[p].op = "mark"
         THEN \E i \in RolledIn(m) : m.entries[i].tag = call[p].tag
         ELSE call[p].tag \in Tags(m)
  <2>1. CallSound(p) /\ call[p] \in LedgerCall  BY DEF LedgerInv, LedgerTypes
  <2> QED  BY <1>1, <1>2, <2>1, PlainFiles DEF CallSound, LedgerCall
<1>4. /\ call' \in [Callers -> LedgerCall] /\ call'[p] = NoCall
      /\ \A q \in Callers : q # p => call'[q] = call[q] /\ CallSound(q)'
  BY <1>1, PlainFiles, CallSet DEF LedgerInv
<1>5. \A q \in Callers : CallSound(q)'  BY <1>4, PlainFiles DEF CallSound
<1>6. ASSUME causes' = {}
      PROVE  /\ \A q \in Callers : call'[q].pc = "read" => Covers(call'[q].seen, call'[q].mem)
             /\ Spoiled' \/ Clean'
  <2>1. causes = {} /\ ledger = Truncated  BY <1>1, <1>6
  <2>2. \A q \in Callers : call'[q].pc = "read" => Covers(call'[q].seen, call'[q].mem)
    BY <1>4, <2>1, PlainFiles DEF LedgerInv, NoLossYet
  <2>3. CASE \E q \in Callers : q # p /\ call[q].pc = "writing"
    BY <2>2, <2>3, <1>1, <1>2, <1>3, <1>4 DEF Spoiled, IsWriting
  <2>4. CASE \A q \in Callers : call[q].pc = "writing" => q = p
    <3>1. Clean  BY <1>1, <2>1, <2>4 DEF LedgerInv, NoLossYet, Spoiled, IsWriting
    <3>2. Kept(m)  BY <1>1, <1>2, <2>4, <3>1 DEF Clean, IsWriting
    <3>3. Kept(m)'  BY <1>1, <1>3, <3>2 DEF Kept
    <3>4. Kept(ledger)'  BY <3>3, <1>1, <1>2 DEF Kept
    <3>5. \A q \in Callers : call'[q].pc # "writing"  BY <2>4, <1>4, PlainFiles
    <3> QED  BY <2>2, <3>4, <3>5 DEF Clean, IsWriting
  <2> QED  BY <2>3, <2>4
<1>7. NoLossYet'  BY <1>6 DEF NoLossYet
<1>8. LedgerTypes'  BY <1>1, <1>2, <1>3, <1>4 DEF LedgerTypes, LedgerInv
<1>9. WellFormed(ledger)'  BY <1>1, <1>2, <1>3 DEF WellFormed, UniqueNumbers, CountsRight
<1> QED  BY <1>5, <1>7, <1>8, <1>9 DEF LedgerInv

(* However many processes write the ledger, and whatever an installation    *)
(* had in it: an entry or a mark that was told is missing only after one of *)
(* the named causes, the numbers of a dictionary are unique, and its counts *)
(* cover what it holds.                                                     *)
THEOREM LedgerAlwaysSound == LedgerSpec => []LedgerSound
<1>1. LedgerInit => LedgerInv
  <2> SUFFICES ASSUME LedgerInit PROVE LedgerInv  OBVIOUS
  <2>1. /\ ledger \in Ledgers /\ WellFormed(ledger) /\ calls = 0 /\ reported = Tags(ledger)
        /\ marked = {} /\ causes = {} /\ call = [p \in Callers |-> NoCall]
    BY LedgersAssumption DEF LedgerInit
  <2>2. LedgerTypes  BY <2>1, PlainFiles DEF LedgerTypes
  <2>3. \A p \in Callers : CallSound(p) /\ ~IsWriting(p) /\ call[p].pc # "read"
    BY <2>1, PlainFiles DEF CallSound, IsWriting
  <2>4. Kept(ledger)  BY <2>1 DEF Kept
  <2> QED  BY <2>1, <2>2, <2>3, <2>4 DEF LedgerInv, NoLossYet, Clean
<1>2. LedgerInv /\ [LedgerNext]_ledgerVars => LedgerInv'
  <2> SUFFICES ASSUME LedgerInv, [LedgerNext]_ledgerVars PROVE LedgerInv'  OBVIOUS
  <2>1. ASSUME NEW p \in Callers, AddFails(p)
        PROVE  LedgerInv'
    <3>1. call[p].pc # "writing" /\ calls' \in Nat
      BY <2>1 DEF AddFails, LedgerInv, LedgerTypes
    <3> QED  BY <2>1, <3>1, GiveUpStep DEF AddFails, IsWriting
  <2>2. ASSUME NEW p \in Callers, Die(p)
        PROVE  LedgerInv'
    <3>1. calls' \in Nat  BY <2>2 DEF Die, LedgerInv, LedgerTypes
    <3>2. causes' = {} => causes = {} /\ ~IsWriting(p)  BY <2>2 DEF Die, Note, IsWriting
    <3> QED  BY <2>2, <3>1, <3>2, GiveUpStep DEF Die
  <2>3. CASE UNCHANGED ledgerVars
    <3>1. LedgerTypes' /\ WellFormed(ledger)'
      BY <2>3 DEF ledgerVars, LedgerInv, LedgerTypes, WellFormed, UniqueNumbers, CountsRight
    <3>2. \A p \in Callers : CallSound(p)'  BY <2>3 DEF ledgerVars, LedgerInv, CallSound
    <3>3. NoLossYet'
      BY <2>3 DEF ledgerVars, LedgerInv, NoLossYet, Spoiled, Clean, Kept, IsWriting
    <3> QED  BY <3>1, <3>2, <3>3 DEF LedgerInv
  <2> QED  BY <2>1, <2>2, <2>3, ReadStep, TruncateStep, WriteStep DEF LedgerNext
<1>3. LedgerInv => LedgerSound
  <2> SUFFICES ASSUME LedgerInv PROVE LedgerSound  OBVIOUS
  <2>1. IdsUnique /\ CountsCover  BY DEF LedgerInv, WellFormed, IdsUnique, CountsCover
  <2>2. LossHasCause
    <3> SUFFICES ASSUME causes = {}, \A p \in Callers : call[p].pc # "writing"
                 PROVE  /\ reported \subseteq Tags(ledger)
                        /\ \A t \in marked : \E i \in DOMAIN ledger.entries :
                             ledger.entries[i].tag = t /\ ledger.entries[i].rolled
      BY DEF LossHasCause
    <3>1. Kept(ledger)  BY DEF LedgerInv, NoLossYet, Spoiled, Clean, IsWriting
    <3> QED  BY <3>1 DEF Kept, RolledIn
  <2> QED  BY <2>1, <2>2 DEF LedgerSound
<1> QED  BY <1>1, <1>2, <1>3, PTL DEF LedgerSpec

-----------------------------------------------------------------------------
(* The archive of done messages.                                            *)

(* RemoveFirst takes one occurrence away and keeps the order of the rest.   *)
LEMMA RemoveFirstIs ==
  ASSUME NEW s \in Seq(Jobs), NEW j \in Lines(s)
  PROVE  \E k \in 1..Len(s) :
           /\ s[k] = j /\ RemoveFirst(s, j) \in Seq(Jobs)
           /\ Len(RemoveFirst(s, j)) = Len(s) - 1
           /\ \A i \in 1..(Len(s) - 1) : RemoveFirst(s, j)[i] = IF i < k THEN s[i] ELSE s[i + 1]
<1> DEFINE I == {i \in 1..Len(s) : s[i] = j}
           k == Min(I)
           front == SubSeq(s, 1, k - 1)
           rest == SubSeq(s, k + 1, Len(s))
<1>1. I # {} /\ I \in SUBSET Nat /\ Len(s) \in Nat  BY DEF Lines
<1>2. k \in I
  <2>1. \E x \in I : \A y \in I : x <= y
    <3> HIDE DEF I
    <3> QED  BY <1>1, LeastNatural
  <2> QED  BY <2>1 DEF Min
<1>3. RemoveFirst(s, j) = front \o rest
  <2>1. \E i \in 1..Len(s) : s[i] = j  BY <1>1
  <2>2. RemoveFirst(s, j) = RemoveAt(s, k)  BY <1>1, <2>1 DEF RemoveFirst, SelectInSeq
  <2> QED  BY <2>2 DEF RemoveAt
<1>4. k \in 1..Len(s) /\ s[k] = j  BY <1>2
<1> HIDE DEF I, k
<1>5. \A i \in 1..Len(s) : s[i] \in Jobs  BY <1>1
<1>6. /\ front \in Seq(Jobs) /\ Len(front) = k - 1
      /\ \A i \in 1..(k - 1) : front[i] = s[i]
  <2>1. k - 1 \in Int /\ 1 \in Int /\ \A i \in 1..(k - 1) : s[i] \in Jobs  BY <1>1, <1>4, <1>5
  <2>2. /\ SubSeq(s, 1, k - 1) \in Seq(Jobs)
        /\ Len(SubSeq(s, 1, k - 1)) = IF 1 <= k - 1 THEN k - 1 - 1 + 1 ELSE 0
        /\ \A i \in 1..(k - 1 - 1 + 1) : SubSeq(s, 1, k - 1)[i] = s[1 + i - 1]
    BY <2>1, SubSeqProperties
  <2> QED  BY <2>2, <1>1, <1>4
<1>7. /\ rest \in Seq(Jobs) /\ Len(rest) = Len(s) - k
      /\ \A i \in 1..(Len(s) - k) : rest[i] = s[k + i]
  BY <1>1, <1>4, <1>5, SubSeqProperties
<1> HIDE DEF front, rest
<1>8. /\ front \o rest \in Seq(Jobs) /\ Len(front \o rest) = Len(front) + Len(rest)
      /\ \A i \in 1..(Len(front) + Len(rest)) :
           (front \o rest)[i] = IF i <= Len(front) THEN front[i] ELSE rest[i - Len(front)]
  BY <1>6, <1>7, ConcatProperties
<1>8a. Len(front) + Len(rest) = Len(s) - 1  BY <1>1, <1>4, <1>6, <1>7
<1>9. \A i \in 1..(Len(s) - 1) : RemoveFirst(s, j)[i] = IF i < k THEN s[i] ELSE s[i + 1]
  <2> TAKE i \in 1..(Len(s) - 1)
  <2>1. (front \o rest)[i] = IF i <= k - 1 THEN front[i] ELSE rest[i - (k - 1)]
    <3>1. i \in 1..(Len(front) + Len(rest))  BY <1>8a
    <3>2. Len(front) = k - 1  BY <1>6
    <3>3. (front \o rest)[i] = IF i <= Len(front) THEN front[i] ELSE rest[i - Len(front)]
      BY <3>1, <1>8
    <3> QED  BY <3>2, <3>3
  <2>2. CASE i < k
    <3>1. i <= k - 1 /\ i \in 1..(k - 1)  BY <2>2, <1>1, <1>4
    <3> QED  BY <2>1, <2>2, <3>1, <1>3, <1>6
  <2>3. CASE ~(i < k)
    <3>1. ~(i <= k - 1) /\ i - (k - 1) \in 1..(Len(s) - k) /\ k + (i - (k - 1)) = i + 1
      BY <2>3, <1>1, <1>4
    <3> QED  BY <2>1, <2>3, <3>1, <1>3, <1>7
  <2> QED  BY <2>2, <2>3
<1>10. RemoveFirst(s, j) \in Seq(Jobs) /\ Len(RemoveFirst(s, j)) = Len(s) - 1
  BY <1>3, <1>8, <1>8a
<1> QED  BY <1>4, <1>9, <1>10

(* What requeue() does to the lines of an archive.                          *)
LEMMA RemoveFirstLines ==
  ASSUME NEW s \in Seq(Jobs), NEW j \in Lines(s)
  PROVE  /\ RemoveFirst(s, j) \in Seq(Jobs) /\ j \in Jobs
         /\ Lines(RemoveFirst(s, j)) \subseteq Lines(s)
         /\ Lines(s) \subseteq Lines(RemoveFirst(s, j)) \cup {j}
         /\ IsInjective(s) => IsInjective(RemoveFirst(s, j)) /\ j \notin Lines(RemoveFirst(s, j))
<1> DEFINE r == RemoveFirst(s, j)
           n == Len(s)
<1>1. PICK k \in 1..n :
        /\ s[k] = j /\ r \in Seq(Jobs) /\ Len(r) = n - 1
        /\ \A i \in 1..(n - 1) : r[i] = IF i < k THEN s[i] ELSE s[i + 1]
  BY RemoveFirstIs
<1>2. n \in Nat /\ DOMAIN s = 1..n  OBVIOUS
<1> HIDE DEF r, n
<1>3. DOMAIN r = 1..(n - 1)  BY <1>1, <1>2
<1>4. \A i \in 1..(n - 1) : \/ i < k /\ r[i] = s[i] /\ i \in 1..n
                            \/ k < i + 1 /\ r[i] = s[i + 1] /\ i + 1 \in 1..n
  <2> TAKE i \in 1..(n - 1)
  <2>1. CASE i < k  BY <2>1, <1>1, <1>2
  <2>2. CASE ~(i < k)  BY <2>2, <1>1, <1>2
  <2> QED  BY <2>1, <2>2
<1>5. Lines(r) \subseteq Lines(s)  BY <1>2, <1>3, <1>4 DEF Lines
<1>6. Lines(s) \subseteq Lines(r) \cup {j}
  <2> SUFFICES ASSUME NEW i \in 1..n, i # k PROVE s[i] \in Lines(r)
    BY <1>1, <1>2 DEF Lines
  <2>1. CASE i < k
    <3>1. i \in 1..(n - 1) /\ r[i] = s[i]  BY <2>1, <1>1, <1>2
    <3> QED  BY <3>1, <1>3 DEF Lines
  <2>2. CASE k < i
    <3>1. i - 1 \in 1..(n - 1) /\ ~(i - 1 < k) /\ (i - 1) + 1 = i  BY <2>2, <1>2
    <3>2. r[i - 1] = s[i]  BY <3>1, <1>1
    <3> QED  BY <3>1, <3>2, <1>3 DEF Lines
  <2> QED  BY <2>1, <2>2, <1>2
<1>7. ASSUME IsInjective(s)
      PROVE  IsInjective(r) /\ j \notin Lines(r)
  <2>1. \A x, y \in 1..n : s[x] = s[y] => x = y  BY <1>2, <1>7 DEF IsInjective
  <2>2. j \notin Lines(r)
    <3> SUFFICES ASSUME NEW i \in 1..(n - 1), r[i] = j PROVE FALSE  BY <1>3 DEF Lines
    <3>1. CASE i < k /\ r[i] = s[i] /\ i \in 1..n  BY <3>1, <2>1, <1>1
    <3>2. CASE k < i + 1 /\ r[i] = s[i + 1] /\ i + 1 \in 1..n
      <4>1. i + 1 = k  BY <3>2, <2>1, <1>1
      <4> QED  BY <4>1, <3>2
    <3> QED  BY <3>1, <3>2, <1>4
  <2>3. IsInjective(r)
    <3> SUFFICES ASSUME NEW x \in 1..(n - 1), NEW y \in 1..(n - 1), r[x] = r[y]
                 PROVE  x = y
      BY <1>3 DEF IsInjective
    <3>1. PICK u \in 1..n : r[x] = s[u] /\ ((x < k /\ u = x) \/ (k < x + 1 /\ u = x + 1))
      BY <1>4
    <3>2. PICK v \in 1..n : r[y] = s[v] /\ ((y < k /\ v = y) \/ (k < y + 1 /\ v = y + 1))
      BY <1>4
    <3>3. u = v  BY <3>1, <3>2, <2>1
    <3> QED  BY <3>1, <3>2, <3>3, <1>1, <1>2
  <2> QED  BY <2>2, <2>3
<1>8. j \in Jobs  BY DEF Lines
<1> QED  BY <1>1, <1>5, <1>6, <1>7, <1>8 DEF r

(* What ack() and compact_completed() do to the lines of an archive.        *)
LEMMA ArchiveLines ==
  ASSUME NEW s \in Seq(Jobs)
  PROVE  /\ Lines(s) \subseteq Jobs
         /\ \A j \in Jobs : /\ Append(s, j) \in Seq(Jobs) /\ Lines(Append(s, j)) = Lines(s) \cup {j}
                            /\ IsInjective(s) /\ j \notin Lines(s) => IsInjective(Append(s, j))
         /\ \A w \in Seq(Jobs) : Over(w, s) \in Seq(Jobs) /\ (s = <<>> => Over(w, s) = w)
<1>1. Lines(s) \subseteq Jobs  BY DEF Lines
<1>2. ASSUME NEW j \in Jobs
      PROVE  /\ Append(s, j) \in Seq(Jobs) /\ Lines(Append(s, j)) = Lines(s) \cup {j}
             /\ IsInjective(s) /\ j \notin Lines(s) => IsInjective(Append(s, j))
  <2> DEFINE r == Append(s, j)
             n == Len(s)
  <2>1. /\ r \in Seq(Jobs) /\ n \in Nat /\ DOMAIN s = 1..n /\ DOMAIN r = 1..(n + 1)
        /\ r[n + 1] = j /\ \A i \in 1..n : r[i] = s[i]
    OBVIOUS
  <2> HIDE DEF r, n
  <2>2. \A i \in 1..(n + 1) : i = n + 1 \/ i \in 1..n  BY <2>1
  <2>3. n + 1 \in 1..(n + 1) /\ \A i \in 1..n : i \in 1..(n + 1)  BY <2>1
  <2>4. Lines(r) = Lines(s) \cup {j}  BY <2>1, <2>2, <2>3 DEF Lines
  <2>5. IsInjective(s) /\ j \notin Lines(s) => IsInjective(r)
    BY <2>1, <2>2 DEF IsInjective, Lines
  <2> QED  BY <2>1, <2>4, <2>5 DEF r
<1>3. ASSUME NEW w \in Seq(Jobs)
      PROVE  Over(w, s) \in Seq(Jobs) /\ (s = <<>> => Over(w, s) = w)
  <2>1. \A i \in (Len(w) + 1)..Len(s) : s[i] \in Jobs  OBVIOUS
  <2>2. SubSeq(s, Len(w) + 1, Len(s)) \in Seq(Jobs)
    BY <2>1, SubSeqProperties
  <2>3. ASSUME s = <<>>
        PROVE  Over(w, s) = w
    <3>1. Len(s) = 0 /\ Len(w) \in Nat  BY <2>3
    <3>2. Len(SubSeq(s, Len(w) + 1, Len(s))) = 0  BY <2>1, <3>1, SubSeqProperties
    <3>3. SubSeq(s, Len(w) + 1, Len(s)) = <<>>  BY <2>2, <3>2, EmptySeq
    <3> QED  BY <3>3, ConcatEmptySeq DEF Over
  <2> QED  BY <2>2, <2>3, ConcatProperties DEF Over
<1> QED  BY <1>1, <1>2, <1>3

(* The last lines of a longer archive.                                      *)
LEMMA LastLines ==
  ASSUME NEW s \in Seq(Jobs), Len(s) > MaxLines
  PROVE  LET t == SubSeq(s, Len(s) - KeepRecent + 1, Len(s))
         IN  /\ t \in Seq(Jobs) /\ Lines(t) \subseteq Lines(s)
             /\ IsInjective(s) => IsInjective(t)
<1> DEFINE n == Len(s)
           m == n - KeepRecent + 1
           t == SubSeq(s, m, n)
<1>1. n \in Nat /\ DOMAIN s = 1..n /\ n > MaxLines  OBVIOUS
<1>2. m \in 1..n /\ n - m + 1 = KeepRecent /\ KeepRecent \in Nat
  BY <1>1, ArchiveAssumption
<1> HIDE DEF n, m
<1>3. \A i \in m..n : s[i] \in Jobs  BY <1>1, <1>2
<1>4. /\ t \in Seq(Jobs) /\ Len(t) = IF m <= n THEN n - m + 1 ELSE 0
      /\ \A i \in 1..(n - m + 1) : t[i] = s[m + i - 1]
  BY <1>1, <1>2, <1>3, SubSeqProperties
<1> HIDE DEF t
<1>5. DOMAIN t = 1..KeepRecent /\ \A i \in 1..KeepRecent : t[i] = s[m + i - 1]
  BY <1>1, <1>2, <1>4
<1>6. \A i \in 1..KeepRecent : m + i - 1 \in 1..n
  BY <1>1, <1>2
<1>7. Lines(t) \subseteq Lines(s)  BY <1>1, <1>5, <1>6 DEF Lines
<1>8. ASSUME IsInjective(s)
      PROVE  IsInjective(t)
  <2> SUFFICES ASSUME NEW x \in 1..KeepRecent, NEW y \in 1..KeepRecent, t[x] = t[y]
               PROVE  x = y
    BY <1>5 DEF IsInjective
  <2>1. m + x - 1 = m + y - 1  BY <1>1, <1>5, <1>6, <1>8 DEF IsInjective
  <2> QED  BY <2>1, <1>2
<1> QED  BY <1>4, <1>7, <1>8 DEF t, m, n

SavedOn(d) == Lines(dated[d]) \cup stray[d]
Settled(s) == live \cap Lines(s) = {} /\ IsInjective(s)

(* A compaction writes back what the archive holds, as long as nobody acks  *)
(* or requeues; what it takes out is on a day.                              *)
ArchiveKept ==
  mishap = {} =>
    /\ Jobs \subseteq live \cup Lines(archive) \cup UNION {SavedOn(d) : d \in DayNumbers}
    /\ compaction.pc \in {"copy", "open"} => compaction.lines = archive
    /\ compaction.pc = "keep" => archive = <<>> /\ Settled(compaction.lines)
    /\ compaction.pc \in {"open", "keep"} => Lines(compaction.lines) \subseteq SavedOn(compaction.to)
    /\ Settled(archive)

ArchiveInv ==
  /\ ArchiveTypeOK
  /\ compaction.pc # "no" => compaction.to \in DayNumbers /\ Len(compaction.lines) > MaxLines
  /\ ArchiveKept /\ PendingOrDoneOnce

(* The types of what the archive is made of, one by one.                    *)
LEMMA ArchiveTypes ==
  ASSUME ArchiveTypeOK
  PROVE  /\ live \subseteq Jobs /\ archive \in Seq(Jobs) /\ compaction.lines \in Seq(Jobs)
         /\ compaction.pc \in {"no", "copy", "open", "keep"}
         /\ \A d \in DayNumbers : dated[d] \in Seq(Jobs) /\ stray[d] \subseteq Jobs
         /\ compaction.to \in 0..Days
BY DEF ArchiveTypeOK

(* A message that is acked or requeued goes from the one to the other, if   *)
(* no compaction runs.                                                      *)
LEMMA MoveStep ==
  ASSUME ArchiveInv, NEW j, AckJob(j) \/ RequeueLive(j)
  PROVE  ArchiveInv'
<1> USE ArchiveTypes DEF ArchiveInv
<1>1. /\ dated' = dated /\ stray' = stray /\ day' = day /\ compaction' = compaction /\ kept' = kept
      /\ mishap' = mishap \cup (IF compaction.pc # "no" THEN {"overlap"} ELSE {})
  BY DEF AckJob, RequeueLive, During
<1>2. /\ live' \subseteq Jobs /\ archive' \in Seq(Jobs)
      /\ Jobs \cap (live \cup Lines(archive)) \subseteq live' \cup Lines(archive')
      /\ Settled(archive) => Settled(archive)'
  <2>1. CASE AckJob(j)
    <3>1. j \in live /\ archive' = Append(archive, j) /\ live' = live \ {j}
      BY <2>1 DEF AckJob
    <3>2. /\ j \in Jobs /\ archive' \in Seq(Jobs) /\ Lines(archive') = Lines(archive) \cup {j}
          /\ IsInjective(archive) /\ j \notin Lines(archive) => IsInjective(archive')
      BY <3>1, ArchiveLines
    <3> QED  BY <3>1, <3>2 DEF Settled
  <2>2. CASE RequeueLive(j)
    <3>1. j \in Lines(archive) /\ archive' = RemoveFirst(archive, j) /\ live' = live \cup {j}
      BY <2>2 DEF RequeueLive
    <3>2. /\ j \in Jobs /\ archive' \in Seq(Jobs)
          /\ Lines(archive') \subseteq Lines(archive)
          /\ Lines(archive) \subseteq Lines(archive') \cup {j}
          /\ IsInjective(archive) => IsInjective(archive') /\ j \notin Lines(archive')
      BY <3>1, RemoveFirstLines
    <3> QED  BY <3>1, <3>2 DEF Settled
  <2> QED  BY <2>1, <2>2
<1>3. ArchiveTypeOK'  BY <1>1, <1>2 DEF ArchiveTypeOK
<1>4. ASSUME mishap' = {}
      PROVE  compaction.pc = "no" /\ mishap = {}
  BY <1>1, <1>4
<1>5. \A d \in DayNumbers : SavedOn(d)' = SavedOn(d)  BY <1>1 DEF SavedOn
<1>6. mishap' = {} =>
        Jobs \subseteq live' \cup Lines(archive') \cup UNION {SavedOn(d)' : d \in DayNumbers}
  BY <1>2, <1>4, <1>5 DEF ArchiveKept
<1>7. ArchiveKept'  BY <1>1, <1>2, <1>4, <1>6 DEF ArchiveKept
<1>8. PendingOrDoneOnce'
  <2> SUFFICES ASSUME mishap' = {}
               PROVE  /\ IsInjective(archive') /\ \A d \in DayNumbers : IsInjective(dated'[d])
                      /\ \A p, q \in ArchivePlaces : p # q => Standing(p)' \cap Standing(q)' \subseteq kept
    BY <1>1 DEF PendingOrDoneOnce
  <2>1. mishap = {} /\ compaction.pc = "no"  BY <1>1
  <2>2. /\ \A d \in DayNumbers : IsInjective(dated'[d])
        /\ \A p, q \in ArchivePlaces : p # q => Standing(p) \cap Standing(q) \subseteq kept
    BY <1>1, <2>1 DEF PendingOrDoneOnce
  <2>3. Settled(archive) /\ Settled(archive)'  BY <1>2, <2>1 DEF ArchiveKept
  <2>4. \A p \in ArchivePlaces \ {<<"pending", 0>>, <<"done", 0>>} : Standing(p)' = Standing(p)
    BY <1>1 DEF ArchivePlaces, Standing
  <2>5. /\ Standing(<<"pending", 0>>) = live /\ Standing(<<"pending", 0>>)' = live'
        /\ Standing(<<"done", 0>>) = Lines(archive) /\ Standing(<<"done", 0>>)' = Lines(archive')
        /\ <<"pending", 0>> \in ArchivePlaces /\ <<"done", 0>> \in ArchivePlaces
    BY DEF Standing, ArchivePlaces
  <2>6. live' \subseteq live \cup Lines(archive) /\ Lines(archive') \subseteq live \cup Lines(archive)
    <3>1. CASE AckJob(j)
      <4>1. j \in live /\ archive' = Append(archive, j) /\ live' = live \ {j}
        BY <3>1 DEF AckJob
      <4>2. j \in Jobs /\ Lines(archive') = Lines(archive) \cup {j}  BY <4>1, ArchiveLines
      <4> QED  BY <4>1, <4>2
    <3>2. CASE RequeueLive(j)
      <4>1. j \in Lines(archive) /\ archive' = RemoveFirst(archive, j) /\ live' = live \cup {j}
        BY <3>2 DEF RequeueLive
      <4>2. Lines(archive') \subseteq Lines(archive)  BY <4>1, RemoveFirstLines
      <4> QED  BY <4>1, <4>2
    <3> QED  BY <3>1, <3>2
  <2>7. live' \cap Lines(archive') = {} /\ IsInjective(archive')  BY <2>3 DEF Settled
  <2>8. ASSUME NEW p \in ArchivePlaces, NEW q \in ArchivePlaces, p # q
        PROVE  Standing(p)' \cap Standing(q)' \subseteq kept
    <3>1. CASE p \in {<<"pending", 0>>, <<"done", 0>>} /\ q \in {<<"pending", 0>>, <<"done", 0>>}
      BY <3>1, <2>5, <2>7, <2>8
    <3>2. ASSUME NEW x \in {<<"pending", 0>>, <<"done", 0>>},
                 NEW y \in ArchivePlaces \ {<<"pending", 0>>, <<"done", 0>>}
          PROVE  Standing(x)' \cap Standing(y)' \subseteq kept
      <4>1. Standing(x)' \subseteq Standing(<<"pending", 0>>) \cup Standing(<<"done", 0>>)
        BY <3>2, <2>5, <2>6
      <4>2. Standing(y)' = Standing(y)  BY <2>4
      <4>3. /\ Standing(<<"pending", 0>>) \cap Standing(y) \subseteq kept
            /\ Standing(<<"done", 0>>) \cap Standing(y) \subseteq kept
        BY <2>2, <2>5
      <4> QED  BY <4>1, <4>2, <4>3
    <3>3. CASE p \notin {<<"pending", 0>>, <<"done", 0>>} /\ q \notin {<<"pending", 0>>, <<"done", 0>>}
      <4>1. Standing(p)' = Standing(p) /\ Standing(q)' = Standing(q)  BY <3>3, <2>4
      <4> QED  BY <4>1, <2>2, <2>8
    <3> QED  BY <3>1, <3>2, <3>3
  <2> QED  BY <2>2, <2>7, <2>8
<1> QED  BY <1>1, <1>3, <1>7, <1>8

(* A stray message stays on its day.                                        *)
LEMMA RequeueStrayStep ==
  ASSUME ArchiveInv, NEW d \in DayNumbers, NEW j \in Lines(dated[d]), RequeueStray(j, d)
  PROVE  ArchiveInv'
<1> USE ArchiveTypes DEF ArchiveInv
<1>1. /\ dated' = [dated EXCEPT ![d] = RemoveFirst(dated[d], j)]
      /\ stray' = [stray EXCEPT ![d] = stray[d] \cup {j}]
      /\ UNCHANGED <<live, archive, day, compaction, kept, mishap>>
  BY DEF RequeueStray
<1>2. /\ RemoveFirst(dated[d], j) \in Seq(Jobs) /\ j \in Jobs
      /\ Lines(dated[d]) \subseteq Lines(RemoveFirst(dated[d], j)) \cup {j}
  BY RemoveFirstLines
<1>3. ArchiveTypeOK'  BY <1>1, <1>2 DEF ArchiveTypeOK
<1>4. \A e \in DayNumbers : SavedOn(e) \subseteq SavedOn(e)'
  BY <1>1, <1>2 DEF SavedOn, ArchiveTypeOK
<1>5. mishap' = {} =>
        Jobs \subseteq live' \cup Lines(archive') \cup UNION {SavedOn(e)' : e \in DayNumbers}
  BY <1>1, <1>4 DEF ArchiveKept
<1>6. mishap' = {} /\ compaction.pc \in {"open", "keep"} =>
        Lines(compaction.lines) \subseteq SavedOn(compaction.to)'
  <2> SUFFICES ASSUME mishap' = {}, compaction.pc \in {"open", "keep"}
               PROVE  Lines(compaction.lines) \subseteq SavedOn(compaction.to)'
    OBVIOUS
  <2>1. PICK e \in DayNumbers : e = compaction.to  OBVIOUS
  <2>2. Lines(compaction.lines) \subseteq SavedOn(e)  BY <2>1, <1>1 DEF ArchiveKept
  <2>3. Lines(compaction.lines) \subseteq SavedOn(e)'  BY <2>2, <1>4
  <2> QED  BY <2>1, <2>3, <1>1 DEF SavedOn
<1>7. ArchiveKept'
  BY <1>1, <1>5, <1>6 DEF ArchiveKept, Settled, SavedOn
<1>8. PendingOrDoneOnce'
  <2> SUFFICES ASSUME mishap' = {}
               PROVE  /\ IsInjective(archive') /\ \A e \in DayNumbers : IsInjective(dated'[e])
                      /\ \A p, q \in ArchivePlaces :
                           /\ p # q
                           /\ compaction.pc \in {"open", "keep"} => p[1] # "done" /\ q[1] # "done"
                           => Standing(p)' \cap Standing(q)' \subseteq kept
    BY <1>1 DEF PendingOrDoneOnce
  <2>1. /\ mishap = {} /\ IsInjective(archive) /\ \A e \in DayNumbers : IsInjective(dated[e])
        /\ \A p, q \in ArchivePlaces :
             /\ p # q
             /\ compaction.pc \in {"open", "keep"} => p[1] # "done" /\ q[1] # "done"
             => Standing(p) \cap Standing(q) \subseteq kept
    BY <1>1 DEF PendingOrDoneOnce
  <2>2. /\ IsInjective(RemoveFirst(dated[d], j)) /\ j \notin Lines(RemoveFirst(dated[d], j))
        /\ Lines(RemoveFirst(dated[d], j)) \subseteq Lines(dated[d])
    BY <2>1, RemoveFirstLines
  <2>3. /\ <<"stray", d>> \in ArchivePlaces /\ <<"dated", d>> \in ArchivePlaces
        /\ Standing(<<"stray", d>>) = stray[d] /\ Standing(<<"stray", d>>)' = stray[d] \cup {j}
        /\ Standing(<<"dated", d>>) = Lines(dated[d])
        /\ Standing(<<"dated", d>>)' = Lines(RemoveFirst(dated[d], j))
    BY <1>1 DEF ArchivePlaces, Standing, ArchiveTypeOK
  <2>4. \A p \in ArchivePlaces \ {<<"stray", d>>, <<"dated", d>>} : Standing(p)' = Standing(p)
    BY <1>1 DEF ArchivePlaces, Standing, ArchiveTypeOK
  <2>5. \A e \in DayNumbers : IsInjective(dated'[e])  BY <1>1, <2>1, <2>2 DEF ArchiveTypeOK
  <2>6. ASSUME NEW p \in ArchivePlaces, NEW q \in ArchivePlaces, p # q,
               compaction.pc \in {"open", "keep"} => p[1] # "done" /\ q[1] # "done"
        PROVE  Standing(p)' \cap Standing(q)' \subseteq kept
    <3>1. CASE p \in {<<"stray", d>>, <<"dated", d>>} /\ q \in {<<"stray", d>>, <<"dated", d>>}
      <4>1. Standing(<<"stray", d>>) \cap Standing(<<"dated", d>>) \subseteq kept
        BY <2>1, <2>3
      <4>2. Standing(<<"stray", d>>)' \cap Standing(<<"dated", d>>)' \subseteq kept
        BY <2>2, <2>3, <4>1
      <4> QED  BY <3>1, <2>6, <4>2
    <3>2. ASSUME NEW x \in {<<"stray", d>>, <<"dated", d>>},
                 NEW y \in ArchivePlaces \ {<<"stray", d>>, <<"dated", d>>},
                 compaction.pc \in {"open", "keep"} => y[1] # "done"
          PROVE  Standing(x)' \cap Standing(y)' \subseteq kept
      <4>1. Standing(x)' \subseteq Standing(<<"stray", d>>) \cup Standing(<<"dated", d>>)
        BY <2>2, <2>3
      <4>2. Standing(y)' = Standing(y)  BY <2>4
      <4>3. /\ Standing(<<"stray", d>>) \cap Standing(y) \subseteq kept
            /\ Standing(<<"dated", d>>) \cap Standing(y) \subseteq kept
        BY <2>1, <2>3, <3>2
      <4> QED  BY <4>1, <4>2, <4>3
    <3>3. CASE p \notin {<<"stray", d>>, <<"dated", d>>} /\ q \notin {<<"stray", d>>, <<"dated", d>>}
      <4>1. Standing(p)' = Standing(p) /\ Standing(q)' = Standing(q)  BY <3>3, <2>4
      <4> QED  BY <4>1, <2>1, <2>6
    <3> QED  BY <2>6, <3>1, <3>2, <3>3
  <2> QED  BY <1>1, <2>1, <2>5, <2>6
<1> QED  BY <1>1, <1>3, <1>7, <1>8

(* The steps of a compaction keep every line somewhere.                     *)
LEMMA CompactionStep ==
  ASSUME ArchiveInv, ReadArchive \/ WriteDated \/ OpenArchive \/ KeepLast
  PROVE  ArchiveInv'
<1> USE ArchiveTypes DEF ArchiveInv
<1>1. CASE ReadArchive
  <2>1. /\ compaction.pc = "no" /\ Len(archive) > MaxLines
        /\ compaction' = [pc |-> "copy", lines |-> archive, to |-> day]
        /\ UNCHANGED <<live, archive, dated, stray, day, kept, mishap>>
    BY <1>1 DEF ReadArchive
  <2>c. day \in 1..Days /\ Days \in Nat  BY ArchiveAssumption DEF ArchiveTypeOK, DayNumbers
  <2>a. day \in DayNumbers /\ day \in 0..Days
    <3>1. day \in 0..Days  BY <2>c
    <3> QED  BY <2>c, <3>1 DEF DayNumbers
  <2>b. compaction' \in [pc : {"no", "copy", "open", "keep"}, lines : Seq(Jobs), to : 0..Days]
    BY <2>1, <2>a
  <2>2. ArchiveTypeOK' /\ day \in DayNumbers  BY <2>1, <2>a, <2>b DEF ArchiveTypeOK
  <2>3. ArchiveKept'  BY <2>1 DEF ArchiveKept, Settled, SavedOn
  <2>4. \A p \in ArchivePlaces : Standing(p)' = Standing(p)  BY <2>1 DEF Standing
  <2>5. compaction'.pc = "copy"  BY <2>1
  <2>6. PendingOrDoneOnce'  BY <2>1, <2>4, <2>5 DEF PendingOrDoneOnce
  <2> QED  BY <2>1, <2>2, <2>3, <2>6
<1>2. CASE WriteDated
  <2> PICK d, c : d = compaction.to /\ c = [compaction EXCEPT !.pc = "open"]  OBVIOUS
  <2>1. /\ compaction.pc = "copy" /\ compaction' = c
        /\ mishap' = mishap \cup (IF dated[d] # <<>> THEN {"again"} ELSE {})
        /\ dated' = [dated EXCEPT ![d] = compaction.lines]
        /\ UNCHANGED <<live, archive, stray, day, kept>>
    BY <1>2 DEF WriteDated
  <2>2. c.pc = "open" /\ c.lines = compaction.lines /\ c.to = d
        /\ c \in [pc : {"no", "copy", "open", "keep"}, lines : Seq(Jobs), to : 0..Days]
    BY DEF ArchiveTypeOK
  <2>3. d \in DayNumbers  BY <2>1
  <2>4. ArchiveTypeOK'  BY <2>1, <2>2, <2>3 DEF ArchiveTypeOK
  <2>5. ASSUME mishap' = {}
        PROVE  /\ Jobs \subseteq live' \cup Lines(archive') \cup UNION {SavedOn(e)' : e \in DayNumbers}
               /\ Lines(c.lines) \subseteq SavedOn(c.to)'
    <3>1. mishap = {} /\ dated[d] = <<>>  BY <2>1, <2>5
    <3>2. \A e \in DayNumbers : SavedOn(e) \subseteq SavedOn(e)'
      <4> TAKE e \in DayNumbers
      <4>1. CASE e = d
        <5>1. Lines(dated[e]) = {}  BY <3>1, <4>1 DEF Lines
        <5> QED  BY <2>1, <5>1 DEF SavedOn
      <4>2. CASE e # d  BY <2>1, <4>2 DEF SavedOn, ArchiveTypeOK
      <4> QED  BY <4>1, <4>2
    <3>3. Jobs \subseteq live' \cup Lines(archive') \cup UNION {SavedOn(e)' : e \in DayNumbers}
      BY <2>1, <3>1, <3>2 DEF ArchiveKept
    <3>4. dated'[d] = c.lines  BY <2>1, <2>2, <2>3 DEF ArchiveTypeOK
    <3>7. Lines(c.lines) \subseteq SavedOn(c.to)'  BY <2>2, <3>4 DEF SavedOn
    <3> QED  BY <3>3, <3>7
  <2>6. mishap' = {} => Settled(archive)'  BY <2>1 DEF ArchiveKept, Settled
  <2>7. compaction' = c /\ c.lines = compaction.lines /\ archive' = archive  BY <2>1, <2>2
  <2>8. mishap' = {} => compaction.lines = archive  BY <2>1 DEF ArchiveKept
  <2>9. ArchiveKept'  BY <2>2, <2>5, <2>6, <2>7, <2>8 DEF ArchiveKept, SavedOn
  <2>10. PendingOrDoneOnce'
    <3> SUFFICES ASSUME mishap' = {}
                 PROVE  /\ IsInjective(archive') /\ \A e \in DayNumbers : IsInjective(dated'[e])
                        /\ \A p, q \in ArchivePlaces : p # q /\ p[1] # "done" /\ q[1] # "done" =>
                             Standing(p)' \cap Standing(q)' \subseteq kept
      BY <2>1, <2>2 DEF PendingOrDoneOnce
    <3>1. /\ mishap = {} /\ dated[d] = <<>> /\ compaction.lines = archive
          /\ IsInjective(archive) /\ \A e \in DayNumbers : IsInjective(dated[e])
          /\ \A p, q \in ArchivePlaces : p # q => Standing(p) \cap Standing(q) \subseteq kept
      BY <2>1 DEF ArchiveKept, PendingOrDoneOnce
    <3>2. \A e \in DayNumbers : IsInjective(dated'[e])  BY <2>1, <3>1 DEF ArchiveTypeOK
    <3>3. /\ <<"dated", d>> \in ArchivePlaces /\ <<"done", 0>> \in ArchivePlaces
          /\ Standing(<<"dated", d>>)' = Standing(<<"done", 0>>)
      BY <2>1, <2>3, <3>1 DEF ArchivePlaces, Standing, ArchiveTypeOK
    <3>4. \A p \in ArchivePlaces \ {<<"dated", d>>} : Standing(p)' = Standing(p)
      BY <2>1, <2>3 DEF ArchivePlaces, Standing, ArchiveTypeOK
    <3>5. ASSUME NEW p \in ArchivePlaces, NEW q \in ArchivePlaces, p # q, p[1] # "done", q[1] # "done"
          PROVE  Standing(p)' \cap Standing(q)' \subseteq kept
      <4>1. ASSUME NEW y \in ArchivePlaces \ {<<"dated", d>>}, y[1] # "done"
            PROVE  Standing(<<"dated", d>>)' \cap Standing(y)' \subseteq kept
        <5>1. y # <<"done", 0>>  BY <4>1
        <5>2. Standing(<<"done", 0>>) \cap Standing(y) \subseteq kept  BY <3>1, <3>3, <5>1
        <5> QED  BY <3>3, <3>4, <5>2
      <4>2. CASE p # <<"dated", d>> /\ q # <<"dated", d>>
        <5>1. Standing(p)' = Standing(p) /\ Standing(q)' = Standing(q)  BY <3>4, <4>2
        <5> QED  BY <5>1, <3>1, <3>5
      <4>3. CASE p = <<"dated", d>>  BY <4>1, <4>3, <3>5
      <4>4. CASE q = <<"dated", d>>  BY <4>1, <4>4, <3>5
      <4> QED  BY <4>2, <4>3, <4>4
    <3> QED  BY <2>1, <3>1, <3>2, <3>5
  <2> QED  BY <2>1, <2>2, <2>3, <2>4, <2>9, <2>10
<1>3. CASE OpenArchive
  <2> PICK c : c = [compaction EXCEPT !.pc = "keep"]  OBVIOUS
  <2>1. /\ compaction.pc = "open" /\ compaction' = c /\ archive' = <<>>
        /\ UNCHANGED <<live, dated, stray, day, kept, mishap>>
    BY <1>3 DEF OpenArchive
  <2>2. c.pc = "keep" /\ c.lines = compaction.lines /\ c.to = compaction.to
        /\ c \in [pc : {"no", "copy", "open", "keep"}, lines : Seq(Jobs), to : 0..Days]
    BY DEF ArchiveTypeOK
  <2>a. archive' \in Seq(Jobs)  BY <2>1
  <2>3. ArchiveTypeOK'  BY <2>1, <2>2, <2>a DEF ArchiveTypeOK
  <2>4. ASSUME mishap = {}
        PROVE  /\ Jobs \subseteq live' \cup Lines(archive') \cup UNION {SavedOn(e)' : e \in DayNumbers}
               /\ Settled(compaction.lines) /\ Lines(compaction.lines) \subseteq SavedOn(compaction.to)
    <3>1. /\ compaction.lines = archive /\ Settled(archive)
          /\ Lines(compaction.lines) \subseteq SavedOn(compaction.to)
          /\ compaction.to \in DayNumbers
      BY <2>1, <2>4 DEF ArchiveKept
    <3>2. \A e \in DayNumbers : SavedOn(e)' = SavedOn(e)  BY <2>1 DEF SavedOn
    <3>3. Lines(archive) \subseteq UNION {SavedOn(e) : e \in DayNumbers}  BY <3>1
    <3>4. Jobs \subseteq live \cup Lines(archive) \cup UNION {SavedOn(e) : e \in DayNumbers}
      BY <2>4 DEF ArchiveKept
    <3>5. Jobs \subseteq live \cup UNION {SavedOn(e)' : e \in DayNumbers}
      BY <3>2, <3>3, <3>4
    <3> QED  BY <2>1, <3>1, <3>5
  <2>5. Lines(<<>>) = {} /\ IsInjective(<<>>)  BY DEF Lines, IsInjective
  <2>6. ArchiveKept'  BY <2>1, <2>2, <2>4, <2>5 DEF ArchiveKept, Settled, SavedOn
  <2>7. PendingOrDoneOnce'
    <3>1. \A p \in ArchivePlaces : p[1] # "done" => Standing(p)' = Standing(p)
      BY <2>1 DEF ArchivePlaces, Standing
    <3> QED  BY <2>1, <2>2, <2>5, <3>1 DEF PendingOrDoneOnce
  <2> QED  BY <2>1, <2>2, <2>3, <2>6, <2>7
<1>4. CASE KeepLast
  <2> DEFINE t == SubSeq(compaction.lines, Len(compaction.lines) - KeepRecent + 1,
                         Len(compaction.lines))
  <2>1. /\ compaction.pc = "keep" /\ compaction' = NoCompaction
        /\ archive' = Over(t, archive)
        /\ kept' = kept \cup Lines(t)
        /\ UNCHANGED <<live, dated, stray, day, mishap>>
    BY <1>4 DEF KeepLast
  <2>2. /\ t \in Seq(Jobs) /\ Lines(t) \subseteq Lines(compaction.lines)
        /\ IsInjective(compaction.lines) => IsInjective(t)
    BY <2>1, LastLines
  <2> HIDE DEF t
  <2>3. archive' \in Seq(Jobs) /\ (archive = <<>> => archive' = t)  BY <2>1, <2>2, ArchiveLines
  <2>4. NoCompaction.pc = "no" /\ NoCompaction \in
          [pc : {"no", "copy", "open", "keep"}, lines : Seq(Jobs), to : 0..Days]
    BY ArchiveAssumption DEF NoCompaction
  <2>a. Lines(t) \subseteq Jobs  BY <2>2, ArchiveLines
  <2>5. ArchiveTypeOK'  BY <2>1, <2>3, <2>4, <2>a DEF ArchiveTypeOK
  <2>6. ASSUME mishap = {}
        PROVE  /\ Jobs \subseteq live' \cup Lines(archive') \cup UNION {SavedOn(e)' : e \in DayNumbers}
               /\ Settled(archive)'
    <3>1. archive = <<>> /\ Settled(compaction.lines)  BY <2>1, <2>6 DEF ArchiveKept
    <3>2. Lines(archive) = {}  BY <3>1 DEF Lines
    <3>3. \A e \in DayNumbers : SavedOn(e)' = SavedOn(e)  BY <2>1 DEF SavedOn
    <3>4. Jobs \subseteq live \cup UNION {SavedOn(e) : e \in DayNumbers}
      BY <2>6, <3>2 DEF ArchiveKept
    <3>5. Jobs \subseteq live' \cup Lines(archive') \cup UNION {SavedOn(e)' : e \in DayNumbers}
      BY <2>1, <3>3, <3>4
    <3>6. archive' = t  BY <2>3, <3>1
    <3> QED  BY <2>1, <2>2, <3>1, <3>5, <3>6 DEF Settled
  <2>7. ArchiveKept'  BY <2>1, <2>4, <2>6 DEF ArchiveKept
  <2>8. PendingOrDoneOnce'
    <3> SUFFICES ASSUME mishap' = {}
                 PROVE  /\ IsInjective(archive') /\ \A e \in DayNumbers : IsInjective(dated'[e])
                        /\ \A p, q \in ArchivePlaces : p # q => Standing(p)' \cap Standing(q)' \subseteq kept'
      BY DEF PendingOrDoneOnce
    <3>1. /\ mishap = {} /\ archive = <<>> /\ IsInjective(compaction.lines)
          /\ \A e \in DayNumbers : IsInjective(dated[e])
          /\ \A p, q \in ArchivePlaces : p # q /\ p[1] # "done" /\ q[1] # "done" =>
               Standing(p) \cap Standing(q) \subseteq kept
      BY <2>1 DEF ArchiveKept, Settled, PendingOrDoneOnce
    <3>2. archive' = t /\ IsInjective(t)  BY <2>2, <2>3, <3>1
    <3>3. \A p \in ArchivePlaces : p[1] # "done" => Standing(p)' = Standing(p)
      BY <2>1 DEF ArchivePlaces, Standing
    <3>4. \A p \in ArchivePlaces : p[1] = "done" => Standing(p)' = Lines(t) /\ p = <<"done", 0>>
      BY <3>2 DEF ArchivePlaces, Standing
    <3>5. ASSUME NEW p \in ArchivePlaces, NEW q \in ArchivePlaces, p # q
          PROVE  Standing(p)' \cap Standing(q)' \subseteq kept'
      <4>1. CASE p[1] = "done" \/ q[1] = "done"  BY <4>1, <2>1, <3>4
      <4>2. CASE p[1] # "done" /\ q[1] # "done"  BY <4>2, <2>1, <3>1, <3>3, <3>5
      <4> QED  BY <4>1, <4>2
    <3> QED  BY <2>1, <3>1, <3>2, <3>5
  <2> QED  BY <2>1, <2>4, <2>5, <2>7, <2>8
<1> QED  BY <1>1, <1>2, <1>3, <1>4

(* Whatever is acked, requeued and compacted, on however many days: a       *)
(* message is pending or in an archive, unless somebody acked or requeued   *)
(* during a compaction or a day was compacted twice; and it stands there    *)
(* once, unless a compaction kept its line in two archives.                 *)
THEOREM ArchiveAlwaysSound == ArchiveSpec => []ArchiveSound
<1>1. ArchiveInit => ArchiveInv
  <2> SUFFICES ASSUME ArchiveInit PROVE ArchiveInv  OBVIOUS
  <2>1. ArchiveTypeOK /\ compaction.pc = "no"
    BY ArchiveAssumption DEF ArchiveInit, ArchiveTypeOK, NoCompaction, DayNumbers
  <2>2. Lines(<<>>) = {} /\ IsInjective(<<>>)  BY DEF Lines, IsInjective
  <2>3. ArchiveKept  BY <2>1, <2>2 DEF ArchiveInit, ArchiveKept, Settled
  <2>4. \A p \in ArchivePlaces \ {<<"pending", 0>>} : Standing(p) = {}
    BY <2>2 DEF ArchiveInit, ArchivePlaces, Standing
  <2>5. mishap = {} /\ archive = <<>> /\ \A d \in DayNumbers : dated[d] = <<>>
    BY DEF ArchiveInit
  <2>6. PendingOrDoneOnce
    <3>1. ASSUME NEW p \in ArchivePlaces, NEW q \in ArchivePlaces, p # q
          PROVE  Standing(p) \cap Standing(q) = {}
      <4>1. Standing(p) = {} \/ Standing(q) = {}  BY <2>4, <3>1
      <4> QED  BY <4>1
    <3> QED  BY <2>2, <2>5, <3>1 DEF PendingOrDoneOnce
  <2> QED  BY <2>1, <2>3, <2>6 DEF ArchiveInv
<1>2. ArchiveInv /\ [ArchiveNext]_archiveVars => ArchiveInv'
  <2> SUFFICES ASSUME ArchiveInv, [ArchiveNext]_archiveVars PROVE ArchiveInv'  OBVIOUS
  <2>1. CASE NextDay \/ UNCHANGED archiveVars
    <3>a. day \in 1..Days /\ Days \in Nat  BY ArchiveAssumption DEF ArchiveInv, ArchiveTypeOK, DayNumbers
    <3>b. day' \in 1..Days
      <4>1. CASE NextDay  BY <3>a, <4>1 DEF NextDay
      <4>2. CASE UNCHANGED archiveVars  BY <3>a, <4>2 DEF archiveVars
      <4> QED  BY <2>1, <4>1, <4>2
    <3>1. /\ UNCHANGED <<live, archive, dated, stray, compaction, kept, mishap>>
          /\ day' \in DayNumbers
      BY <2>1, <3>b DEF NextDay, archiveVars, DayNumbers
    <3>2. ArchiveTypeOK'  BY <3>1 DEF ArchiveInv, ArchiveTypeOK
    <3>3. ArchiveKept'  BY <3>1 DEF ArchiveInv, ArchiveKept, Settled, SavedOn
    <3>4. \A p \in ArchivePlaces : Standing(p)' = Standing(p)  BY <3>1 DEF Standing
    <3>5. PendingOrDoneOnce'  BY <3>1, <3>4 DEF ArchiveInv, PendingOrDoneOnce
    <3> QED  BY <3>1, <3>2, <3>3, <3>5 DEF ArchiveInv
  <2> QED  BY <2>1, MoveStep, RequeueStrayStep, CompactionStep DEF ArchiveNext
<1>3. ArchiveInv => ArchiveSound
  <2> SUFFICES ASSUME ArchiveInv PROVE ArchiveSound  OBVIOUS
  <2>1. ASSUME mishap = {}
        PROVE  Jobs = live \cup Lines(archive)
                        \cup UNION {Lines(dated[d]) \cup stray[d] : d \in DayNumbers}
    <3>1. Jobs \subseteq live \cup Lines(archive) \cup UNION {SavedOn(d) : d \in DayNumbers}
      BY <2>1 DEF ArchiveInv, ArchiveKept
    <3>2. live \subseteq Jobs /\ archive \in Seq(Jobs)  BY ArchiveTypes DEF ArchiveInv
    <3>3. Lines(archive) \subseteq Jobs  BY <3>2, ArchiveLines
    <3>4. \A d \in DayNumbers : SavedOn(d) \subseteq Jobs
      <4> TAKE d \in DayNumbers
      <4>1. dated[d] \in Seq(Jobs) /\ stray[d] \subseteq Jobs  BY ArchiveTypes DEF ArchiveInv
      <4> QED  BY <4>1, ArchiveLines DEF SavedOn
    <3>5. UNION {SavedOn(d) : d \in DayNumbers} \subseteq Jobs  BY <3>4
    <3>6. Jobs = live \cup Lines(archive) \cup UNION {SavedOn(d) : d \in DayNumbers}
      BY <3>1, <3>2, <3>3, <3>5
    <3> QED  BY <3>6 DEF SavedOn
  <2> QED  BY <2>1 DEF ArchiveSound, ArchivesKeep, ArchiveInv
<1> QED  BY <1>1, <1>2, <1>3, PTL DEF ArchiveSpec

-----------------------------------------------------------------------------
(* The generic rule checker.                                                *)

GenericSpec == GenericInit /\ [][GenericNext]_genericVars

TypeTallies == [Types -> Nat]
RuleFiles == [form : {"absent", "empty", "keyed", "list", "torn"}, guards : BOOLEAN, gen : TypeTallies]
Places == {"idle", "count", "tally", "copy", "read", "truncate", "write", "tidy", "check"}

GenericTypes ==
  /\ userRules \in RuleFiles /\ backup \in RuleFiles /\ copier \in RuleFiles
  /\ tally # NoTally => tally \in TypeTallies
  /\ checker \in [Checkers -> [at : Places, plan : Plans \cup {"plain"},
                               tally : TypeTallies, rules : RuleFiles]]
  /\ planned \in TypeTallies /\ generated \in TypeTallies
  /\ \A p \in Checkers : checker[p].at \in {"tally", "copy", "read", "truncate", "write", "tidy"} =>
       checker[p].plan \in Types

(* Those whose planned action is neither spent on a generation nor lost.    *)
Counting(t) ==
  {p \in Checkers :
     checker[p].plan = t /\ (\/ checker[p].at = "count"
                             \/ checker[p].at \in {"tally", "copy"} /\ checker[p].tally[t] >= 3)}
Spent(t) == planned[t] - generated[t] - Cardinality(Counting(t))
Backed(v, t) == v <= Spent(t) \/ Spent(t) >= 2

CountsKept ==
  /\ \A t \in Types : Spent(t) >= 0 /\ (generated[t] > 0 => Spent(t) >= 2)
  /\ tally # NoTally => \A t \in Types : Backed(tally[t], t)
  /\ \A p \in Checkers : \A t \in Types : Backed(checker[p].tally[t], t)
  /\ \A p \in Checkers : checker[p].at = "copy" => checker[p].tally[checker[p].plan] >= 3

Rewrites(p) == checker[p].at \in {"read", "truncate", "write"}

RewritesKept ==
  /\ \A p \in Checkers : Rewrites(p) => generated[checker[p].plan] > 0 /\ userRules.form # "absent"
  /\ \A p, q \in Checkers : p # q /\ Rewrites(p) /\ Rewrites(q) => SeveralGenerations
  /\ \A p \in Checkers : checker[p].at \in {"truncate", "write"} =>
       checker[p].rules.form = "list"
  /\ guarded => userRules.form # "absent"

(* R01 is in the file, in the copy, or in hand.                             *)
RulesInHand(p) ==
  /\ checker[p].at \in {"read", "truncate"} => userRules.guards
  /\ Rewrites(p) => backup.guards
  /\ checker[p].at \in {"truncate", "write"} => checker[p].rules.guards

NeitherCut == incidents \cap {"cut", "overlap"} = {}
Untouched == incidents \cap {"copied", "overlap"} = {}

GuardHeld ==
  guarded /\ ~SeveralGenerations /\ NeitherCut =>
    /\ userRules.guards \/ backup.guards \/ copier.guards
    /\ \A p \in Checkers : RulesInHand(p)

(* What dev_generic_init writes, and who writes beside it.                  *)
CopierAlone ==
  /\ copier # NoRules /\ "overlap" \notin incidents =>
       (\A p \in Checkers : ~Rewrites(p)) /\ (guarded => copier.guards)
  /\ copier.guards => "copied" \in incidents
  /\ copier # NoRules => copier.form # "absent"

BeforeGeneration ==
  ~AnyGeneration =>
    /\ guarded /\ NeitherCut => userRules.guards \/ copier.guards
    /\ Untouched => ~unconfirmed /\ (guarded => userRules.guards)

GuardKept == GuardHeld /\ CopierAlone /\ BeforeGeneration

GenericInv == GenericTypes /\ CountsKept /\ RewritesKept /\ GuardKept

CheckerStates == [at : Places, plan : Plans \cup {"plain"}, tally : TypeTallies, rules : RuleFiles]

(* A step of one process that changes its place, plan, counts or rules.     *)
LEMMA CheckerSet ==
  ASSUME GenericTypes, NEW p \in Checkers, NEW c \in CheckerStates,
         checker' = [checker EXCEPT ![p] = c]
  PROVE  /\ checker' \in [Checkers -> CheckerStates] /\ checker'[p] = c
         /\ \A q \in Checkers \ {p} : checker'[q] = checker[q]
BY DEF GenericTypes, CheckerStates

(* Going to a place changes nothing else of a process.                      *)
LEMMA ToStep ==
  ASSUME GenericTypes, NEW p \in Checkers, NEW place \in Places, To(p, place)
  PROVE  /\ checker' \in [Checkers -> CheckerStates]
         /\ checker'[p] = [at |-> place, plan |-> checker[p].plan, tally |-> checker[p].tally,
                           rules |-> checker[p].rules]
         /\ \A q \in Checkers \ {p} : checker'[q] = checker[q]
<1> DEFINE c == [at |-> place, plan |-> checker[p].plan, tally |-> checker[p].tally,
                 rules |-> checker[p].rules]
<1>1. checker \in [Checkers -> CheckerStates]  BY DEF GenericTypes, CheckerStates
<1>2. checker[p] \in CheckerStates  BY <1>1
<1>3. c \in CheckerStates  BY <1>2 DEF CheckerStates
<1>4. [checker[p] EXCEPT !.at = place] = c  BY <1>2 DEF CheckerStates
<1>5. checker' = [checker EXCEPT ![p] = c]  BY <1>1, <1>4 DEF To
<1> HIDE DEF c
<1>6. /\ checker' \in [Checkers -> CheckerStates] /\ checker'[p] = c
      /\ \A q \in Checkers \ {p} : checker'[q] = checker[q]
  BY <1>3, <1>5, CheckerSet
<1> QED  BY <1>6 DEF c

(* What one process counts or not changes a set by that process.            *)
LEMMA CardMoves ==
  ASSUME NEW S, NEW T, NEW p, IsFiniteSet(S), T \ {p} = S \ {p}
  PROVE  /\ IsFiniteSet(T) /\ Cardinality(S) \in Nat /\ Cardinality(T) \in Nat
         /\ (p \in S <=> p \in T) => Cardinality(T) = Cardinality(S)
         /\ p \in S /\ p \notin T => Cardinality(T) = Cardinality(S) - 1
         /\ p \notin S /\ p \in T => Cardinality(T) = Cardinality(S) + 1
<1>1. CASE p \in S <=> p \in T
  <2>1. T = S  BY <1>1
  <2> QED  BY <2>1, <1>1, FS_CardinalityType
<1>2. CASE p \in S /\ p \notin T
  <2>1. T = S \ {p}  BY <1>2
  <2>2. IsFiniteSet(T) /\ Cardinality(T) = Cardinality(S) - 1
    BY <2>1, <1>2, FS_RemoveElement
  <2> QED  BY <2>2, <1>2, FS_CardinalityType
<1>3. CASE p \notin S /\ p \in T
  <2>1. T = S \cup {p}  BY <1>3
  <2>2. IsFiniteSet(T) /\ Cardinality(T) = Cardinality(S) + 1
    BY <2>1, <1>3, FS_AddElement
  <2> QED  BY <2>2, <1>3, FS_CardinalityType
<1> QED  BY <1>1, <1>2, <1>3

(* The balance of a type after a step of one process.                       *)
LEMMA SpentStep ==
  ASSUME GenericTypes, GenericTypes', NEW p \in Checkers,
         \A q \in Checkers \ {p} : checker'[q] = checker[q], NEW t \in Types
  PROVE  /\ Spent(t) \in Int /\ Spent(t)' \in Int
         /\ LET d == (planned'[t] - planned[t]) - (generated'[t] - generated[t])
            IN  /\ (p \in Counting(t) <=> p \in Counting(t)') => Spent(t)' = Spent(t) + d
                /\ p \in Counting(t) /\ p \notin Counting(t)' => Spent(t)' = Spent(t) + d + 1
                /\ p \notin Counting(t) /\ p \in Counting(t)' => Spent(t)' = Spent(t) + d - 1
<1>1. IsFiniteSet(Counting(t))
  BY GenericAssumption, FS_Subset DEF Counting
<1>2. Counting(t)' \ {p} = Counting(t) \ {p}
  <2>1. ASSUME NEW q, q # p PROVE q \in Counting(t)' <=> q \in Counting(t)
    <3>1. CASE q \in Checkers
      <4>1. checker'[q] = checker[q]  BY <2>1, <3>1
      <4> QED  BY <4>1 DEF Counting
    <3> QED  BY <3>1 DEF Counting
  <2> QED  BY <2>1
<1>3. PICK m \in Nat, n \in Nat : m = Cardinality(Counting(t)) /\ n = Cardinality(Counting(t)')
  BY <1>1, <1>2, CardMoves
<1>4. /\ (p \in Counting(t) <=> p \in Counting(t)') => n = m
      /\ p \in Counting(t) /\ p \notin Counting(t)' => n = m - 1
      /\ p \notin Counting(t) /\ p \in Counting(t)' => n = m + 1
  BY <1>1, <1>2, <1>3, CardMoves
<1>5. planned[t] \in Nat /\ generated[t] \in Nat /\ planned'[t] \in Nat /\ generated'[t] \in Nat
  BY DEF GenericTypes, TypeTallies
<1>6. Spent(t) = planned[t] - generated[t] - m /\ Spent(t)' = planned'[t] - generated'[t] - n
  BY <1>3 DEF Spent
<1> DEFINE b == p \in Counting(t)
           c == p \in Counting(t)'
<1>7. /\ (b <=> c) => n = m
      /\ b /\ ~c => n = m - 1
      /\ ~b /\ c => n = m + 1
  BY <1>4
<1>8. PICK i \in Nat, j \in Nat, k \in Nat, l \in Nat :
        i = planned[t] /\ j = generated[t] /\ k = planned'[t] /\ l = generated'[t]
  BY <1>5
<1> HIDE DEF b, c
<1>9. /\ Spent(t) = i - j - m /\ Spent(t)' = k - l - n
  BY <1>6, <1>8
<1>10. /\ (b <=> c) => Spent(t)' = Spent(t) + ((k - i) - (l - j))
       /\ b /\ ~c => Spent(t)' = Spent(t) + ((k - i) - (l - j)) + 1
       /\ ~b /\ c => Spent(t)' = Spent(t) + ((k - i) - (l - j)) - 1
  BY <1>7, <1>9
<1>11. Spent(t) \in Int /\ Spent(t)' \in Int  BY <1>9
<1> QED  BY <1>8, <1>10, <1>11 DEF b, c

(* The counts stay backed where no balance falls.                           *)
LEMMA CountsStep ==
  ASSUME GenericTypes, GenericTypes', CountsKept, NEW p \in Checkers,
         \A q \in Checkers \ {p} : checker'[q] = checker[q],
         \A t \in Types : Spent(t)' >= Spent(t),
         \A t \in Types : generated'[t] = generated[t] \/ Spent(t)' >= 2,
         tally' = tally \/ \A t \in Types : Backed(tally[t], t)',
         \A t \in Types : Backed(checker[p].tally[t], t)',
         checker'[p].at = "copy" => checker'[p].tally[checker'[p].plan] >= 3
  PROVE  CountsKept'
<1>1. \A t \in Types : Spent(t) \in Int /\ Spent(t)' \in Int  BY SpentStep
<1>2. ASSUME NEW t \in Types, NEW v \in Nat, Backed(v, t)
      PROVE  v <= Spent(t)' \/ Spent(t)' >= 2
  <2>1. Spent(t)' >= Spent(t)  OBVIOUS
  <2>2. v <= Spent(t) \/ Spent(t) >= 2  BY <1>2 DEF Backed
  <2>3. PICK i \in Int, j \in Int : i = Spent(t) /\ j = Spent(t)'  BY <1>1
  <2> QED  BY <2>1, <2>2, <2>3
<1>3. \A t \in Types : Spent(t)' >= 0 /\ (generated'[t] > 0 => Spent(t)' >= 2)
  <2> TAKE t \in Types
  <2>1. PICK i \in Int, j \in Int : i = Spent(t) /\ j = Spent(t)'  BY <1>1
  <2>2. j >= i /\ i >= 0 /\ (generated[t] > 0 => i >= 2)
    BY <2>1 DEF CountsKept
  <2>3. generated'[t] = generated[t] \/ j >= 2  BY <2>1
  <2> QED  BY <2>1, <2>2, <2>3
<1>4. tally' # NoTally => \A t \in Types : Backed(tally[t], t)'
  <2> SUFFICES ASSUME tally' # NoTally, NEW t \in Types, tally' = tally
               PROVE  Backed(tally[t], t)'
    OBVIOUS
  <2>1. tally[t] \in Nat /\ Backed(tally[t], t)  BY DEF GenericTypes, TypeTallies, CountsKept
  <2>2. PICK v \in Nat : v = tally[t]  BY <2>1
  <2>3. v <= Spent(t)' \/ Spent(t)' >= 2  BY <2>1, <2>2, <1>2
  <2> QED  BY <2>2, <2>3 DEF Backed
<1>5. \A q \in Checkers : \A t \in Types : Backed(checker[q].tally[t], t)'
  <2> TAKE q \in Checkers
  <2> TAKE t \in Types
  <2>1. CASE q = p  BY <2>1
  <2>2. CASE q # p
    <3>1. checker'[q] = checker[q]  BY <2>2
    <3>2. checker[q].tally[t] \in Nat /\ Backed(checker[q].tally[t], t)
      BY DEF GenericTypes, TypeTallies, CountsKept
    <3>3. PICK v \in Nat : v = checker[q].tally[t]  BY <3>2
    <3>4. v <= Spent(t)' \/ Spent(t)' >= 2  BY <3>2, <3>3, <1>2
    <3> QED  BY <3>1, <3>3, <3>4 DEF Backed
  <2> QED  BY <2>1, <2>2
<1>6. \A q \in Checkers : checker'[q].at = "copy" => checker'[q].tally[checker'[q].plan] >= 3
  <2> TAKE q \in Checkers
  <2>1. CASE q # p
    <3>1. checker'[q] = checker[q]  BY <2>1
    <3> QED  BY <3>1 DEF CountsKept
  <2> QED  BY <2>1
<1> QED  BY <1>3, <1>4, <1>5, <1>6 DEF CountsKept

(* The writing of dev_generic_init is not touched by other steps.           *)
LEMMA AloneStays ==
  ASSUME CopierAlone, copier' = copier, guarded' = guarded, incidents' = incidents,
         \A q \in Checkers : Rewrites(q)' => Rewrites(q)
  PROVE  CopierAlone'
<1>1. NoRules' = NoRules  BY DEF NoRules, Rules, NoneGenerated
<1> QED  BY <1>1 DEF CopierAlone

(* Where no rules, copy or observation change, p is at most no longer in    *)
(* the middle of a generation.                                              *)
LEMMA PlainStep ==
  ASSUME RewritesKept, GuardKept, NEW p \in Checkers,
         \A q \in Checkers \ {p} : checker'[q] = checker[q],
         UNCHANGED <<userRules, backup, guarded, generated, copier, incidents>>,
         AnyGeneration \/ ~Untouched \/ (unconfirmed' => unconfirmed), ~Rewrites(p)'
  PROVE  RewritesKept' /\ GuardKept'
<1>1. /\ checker'[p].at \notin {"read", "truncate", "write"}
      /\ \A q \in Checkers \ {p} : checker'[q] = checker[q]
      /\ userRules' = userRules /\ backup' = backup /\ guarded' = guarded
      /\ generated' = generated /\ copier' = copier /\ incidents' = incidents
      /\ AnyGeneration \/ ~Untouched \/ (unconfirmed' => unconfirmed)
  BY DEF Rewrites
<1>2. (SeveralGenerations' <=> SeveralGenerations) /\ (AnyGeneration' <=> AnyGeneration)
  BY <1>1 DEF SeveralGenerations, AnyGeneration
<1>3. \A q \in Checkers : Rewrites(q)' => q # p /\ Rewrites(q)
  BY <1>1 DEF Rewrites
<1>4. RewritesKept'
  <2>1. \A q \in Checkers : Rewrites(q)' => generated'[checker'[q].plan] > 0 /\ userRules'.form # "absent"
    <3> TAKE q \in Checkers
    <3> HAVE Rewrites(q)'
    <3>1. checker'[q] = checker[q] /\ Rewrites(q)  BY <1>1, <1>3
    <3> QED  BY <3>1, <1>1 DEF RewritesKept
  <2>2. \A q, r \in Checkers : q # r /\ Rewrites(q)' /\ Rewrites(r)' => SeveralGenerations'
    BY <1>2, <1>3 DEF RewritesKept
  <2>3. \A q \in Checkers : checker'[q].at \in {"truncate", "write"} =>
          checker'[q].rules.form = "list"
    <3> TAKE q \in Checkers
    <3> HAVE checker'[q].at \in {"truncate", "write"}
    <3>1. checker'[q] = checker[q]  BY <1>1
    <3> QED  BY <3>1, <1>1 DEF RewritesKept
  <2>4. guarded' => userRules'.form # "absent"  BY <1>1 DEF RewritesKept
  <2> QED  BY <2>1, <2>2, <2>3, <2>4 DEF RewritesKept
<1>5. ASSUME guarded', ~SeveralGenerations', NeitherCut', NEW q \in Checkers PROVE RulesInHand(q)'
  <2>1. CASE q = p  BY <2>1, <1>1 DEF RulesInHand, Rewrites
  <2>2. CASE q # p
    <3>1. checker'[q] = checker[q]  BY <2>2, <1>1
    <3>2. RulesInHand(q)  BY <1>1, <1>2, <1>5 DEF GuardKept, GuardHeld, NeitherCut
    <3> QED  BY <3>1, <3>2, <1>1 DEF RulesInHand, Rewrites
  <2> QED  BY <2>1, <2>2
<1>6. GuardHeld'  BY <1>1, <1>2, <1>5 DEF GuardKept, GuardHeld, NeitherCut
<1>7. CopierAlone'  BY <1>1, <1>3, AloneStays DEF GuardKept
<1>8. BeforeGeneration'
  BY <1>1, <1>2 DEF GuardKept, BeforeGeneration, NeitherCut, Untouched
<1>9. GuardKept'  BY <1>6, <1>7, <1>8 DEF GuardKept
<1> QED  BY <1>4, <1>9

(* A planned action adds what it begins to count.                           *)
LEMMA PlanActionStep ==
  ASSUME GenericInv, NEW p \in Checkers, NEW a \in Plans, PlanAction(p, a)
  PROVE  GenericInv'
<1>0. GenericTypes /\ CountsKept /\ RewritesKept /\ GuardKept  BY DEF GenericInv
<1>1. /\ checker[p].at = "idle"
      /\ planned' = IF a \in Types THEN [planned EXCEPT ![a] = @ + 1] ELSE planned
      /\ UNCHANGED <<userRules, backup, tally, guarded, generated, unconfirmed, copier, incidents>>
  BY DEF PlanAction, initVars
<1>2. PICK c : c = [at |-> "count", plan |-> a, tally |-> checker[p].tally,
                    rules |-> checker[p].rules]
  OBVIOUS
<1>3. checker[p] \in CheckerStates  BY <1>0 DEF GenericTypes, CheckerStates
<1>4. c \in CheckerStates  BY <1>2, <1>3 DEF CheckerStates, Places
<1>5. checker' = checker \/ checker' = [checker EXCEPT ![p] = c]
  <2>1. [checker[p] EXCEPT !.at = "count", !.plan = a] = c
    <3>1. PICK m : m = [checker[p] EXCEPT !.at = "count"]  OBVIOUS
    <3>2. m = [at |-> "count", plan |-> checker[p].plan, tally |-> checker[p].tally,
               rules |-> checker[p].rules]
      BY <1>3, <3>1 DEF CheckerStates
    <3>3. [m EXCEPT !.plan = a] = c  BY <1>2, <3>2
    <3> QED  BY <3>1, <3>3
  <2>2. CASE RefusedAtOnce(a)  BY <2>2 DEF PlanAction
  <2>3. CASE ~RefusedAtOnce(a)
    <3>1. checker' = [checker EXCEPT ![p].at = "count", ![p].plan = a]  BY <2>3 DEF PlanAction
    <3>2. checker \in [Checkers -> CheckerStates]  BY <1>0 DEF GenericTypes, CheckerStates
    <3> QED  BY <2>1, <3>1, <3>2
  <2> QED  BY <2>2, <2>3
<1>6. /\ checker' \in [Checkers -> CheckerStates] /\ checker'[p] \in {c, checker[p]}
      /\ \A q \in Checkers \ {p} : checker'[q] = checker[q]
  <2>1. CASE checker' = checker  BY <2>1, <1>0 DEF GenericTypes, CheckerStates
  <2>2. CASE checker' = [checker EXCEPT ![p] = c]
    <3>1. /\ checker' \in [Checkers -> CheckerStates] /\ checker'[p] = c
          /\ \A q \in Checkers \ {p} : checker'[q] = checker[q]
      BY <1>0, <1>4, <2>2, CheckerSet
    <3> QED  BY <3>1
  <2> QED  BY <1>5, <2>1, <2>2
<1>7. planned' \in TypeTallies
      /\ \A t \in Types : planned'[t] = planned[t] + (IF t = a THEN 1 ELSE 0)
  BY <1>0, <1>1 DEF GenericTypes, TypeTallies
<1>8. GenericTypes'
  <2>1. checker'[p].at \in {"idle", "count"}  BY <1>6, <1>1, <1>2
  <2>2. \A q \in Checkers : checker'[q].at \in {"tally", "copy", "read", "truncate", "write", "tidy"} =>
          checker'[q].plan \in Types
    BY <2>1, <1>6, <1>0 DEF GenericTypes
  <2> QED  BY <2>2, <1>6, <1>1, <1>7, <1>0 DEF GenericTypes, CheckerStates
<1>9. \A t \in Types : Spent(t)' >= Spent(t)
  <2> TAKE t \in Types
  <2>1. planned[t] \in Nat /\ generated[t] \in Nat  BY <1>0 DEF GenericTypes, TypeTallies
  <2>2. p \notin Counting(t)  BY <1>1 DEF Counting
  <2>3. p \in Counting(t)' => t = a  BY <1>1, <1>2, <1>6 DEF Counting
  <2>4. (generated' [t] - generated[t]) = 0  BY <1>1, <2>1
  <2>5. PICK d : d = (planned'[t] - planned[t]) - (generated'[t] - generated[t])  OBVIOUS
  <2>6. d = IF t = a THEN 1 ELSE 0  BY <2>1, <2>4, <2>5, <1>7
  <2>7. /\ Spent(t) \in Int /\ Spent(t)' \in Int
        /\ (p \in Counting(t) <=> p \in Counting(t)') => Spent(t)' = Spent(t) + d
        /\ p \notin Counting(t) /\ p \in Counting(t)' => Spent(t)' = Spent(t) + d - 1
    BY <1>0, <1>6, <1>8, <2>5, SpentStep
  <2>8. PICK i \in Int, j \in Int : i = Spent(t) /\ j = Spent(t)'  BY <2>7
  <2>9. CASE p \in Counting(t)'
    <3>1. j = i + d - 1 /\ d = 1  BY <2>2, <2>3, <2>6, <2>7, <2>8, <2>9
    <3> QED  BY <3>1, <2>8
  <2>10. CASE p \notin Counting(t)'
    <3>1. j = i + d /\ d \in {0, 1}  BY <2>2, <2>6, <2>7, <2>8, <2>10
    <3> QED  BY <3>1, <2>8
  <2> QED  BY <2>9, <2>10
<1>10. CountsKept'
  <2>1. \A t \in Types : generated'[t] = generated[t]  BY <1>1
  <2>2. tally' = tally  BY <1>1
  <2>3. \A t \in Types : Backed(checker[p].tally[t], t)'
    <3> TAKE t \in Types
    <3>1. checker'[p].tally = checker[p].tally  BY <1>2, <1>6
    <3>2. checker[p].tally[t] \in Nat  BY <1>3 DEF CheckerStates, TypeTallies
    <3>3. PICK v \in Nat : v = checker[p].tally[t]  BY <3>2
    <3>4. v <= Spent(t) \/ Spent(t) >= 2  BY <1>0, <3>3 DEF CountsKept, Backed
    <3>5. Spent(t) \in Int /\ Spent(t)' \in Int  BY <1>0, <1>6, <1>8, SpentStep
    <3>6. v <= Spent(t)' \/ Spent(t)' >= 2
      <4>1. PICK i \in Int, j \in Int : i = Spent(t) /\ j = Spent(t)'  BY <3>5
      <4>2. j >= i  BY <4>1, <1>9
      <4> QED  BY <4>1, <4>2, <3>4
    <3> QED  BY <3>1, <3>3, <3>6 DEF Backed
  <2>4. checker'[p].at # "copy"  BY <1>1, <1>2, <1>6
  <2> QED  BY <1>0, <1>6, <1>8, <1>9, <2>1, <2>2, <2>3, <2>4, CountsStep
<1>11. RewritesKept' /\ GuardKept'
  <2>1. ~Rewrites(p)'  BY <1>1, <1>2, <1>6 DEF Rewrites
  <2> QED  BY <2>1, <1>0, <1>1, <1>6, PlainStep
<1> QED  BY <1>8, <1>10, <1>11 DEF GenericInv

(* What is backed stays so while the balance grows.                         *)
LEMMA BackedStays ==
  ASSUME NEW t \in Types, NEW v \in Nat, Backed(v, t), Spent(t) \in Int, Spent(t)' \in Int,
         Spent(t)' >= Spent(t)
  PROVE  Backed(v, t)'
<1>1. PICK i \in Int, j \in Int : i = Spent(t) /\ j = Spent(t)'  OBVIOUS
<1>2. v <= i \/ i >= 2  BY <1>1 DEF Backed
<1>3. v <= j \/ j >= 2  BY <1>1, <1>2
<1> QED  BY <1>1, <1>3 DEF Backed

(* A step without a new planned action or generation, which may only stop   *)
(* counting p's action, and brings in no new counts.                        *)
LEMMA CountsLeave ==
  ASSUME GenericTypes, GenericTypes', CountsKept, NEW p \in Checkers,
         \A q \in Checkers \ {p} : checker'[q] = checker[q],
         planned' = planned, generated' = generated,
         \A t \in Types : p \in Counting(t)' => p \in Counting(t),
         tally' = tally \/ \A t \in Types : tally'[t] \in {0, checker[p].tally[t]},
         \A t \in Types : checker'[p].tally[t] \in {0, checker[p].tally[t]},
         checker'[p].at = "copy" => checker'[p].tally[checker'[p].plan] >= 3
  PROVE  CountsKept'
<1>1. \A t \in Types : Spent(t) \in Int /\ Spent(t)' \in Int /\ Spent(t)' >= Spent(t)
  <2> TAKE t \in Types
  <2>1. planned[t] \in Nat /\ generated[t] \in Nat  BY DEF GenericTypes, TypeTallies
  <2>2. PICK d : d = (planned'[t] - planned[t]) - (generated'[t] - generated[t])  OBVIOUS
  <2>3. d = 0  BY <2>1, <2>2
  <2>4. /\ Spent(t) \in Int /\ Spent(t)' \in Int
        /\ (p \in Counting(t) <=> p \in Counting(t)') => Spent(t)' = Spent(t) + d
        /\ p \in Counting(t) /\ p \notin Counting(t)' => Spent(t)' = Spent(t) + d + 1
    BY <2>2, SpentStep
  <2>5. PICK i \in Int, j \in Int : i = Spent(t) /\ j = Spent(t)'  BY <2>4
  <2>6. CASE p \in Counting(t) /\ p \notin Counting(t)'
    <3>1. j = i + d + 1  BY <2>4, <2>5, <2>6
    <3> QED  BY <3>1, <2>3, <2>5
  <2>7. CASE p \in Counting(t) <=> p \in Counting(t)'
    <3>1. j = i + d  BY <2>4, <2>5, <2>7
    <3> QED  BY <3>1, <2>3, <2>5
  <2> QED  BY <2>6, <2>7
<1>2. ASSUME NEW t \in Types, NEW v, v \in {0, checker[p].tally[t]}
      PROVE  Backed(v, t)'
  <2>1. Spent(t) \in Int /\ Spent(t)' \in Int /\ Spent(t)' >= Spent(t)  BY <1>1
  <2>2. checker[p].tally[t] \in Nat /\ Backed(checker[p].tally[t], t) /\ Spent(t) >= 0
    BY DEF GenericTypes, TypeTallies, CountsKept
  <2>3. v \in Nat  BY <1>2, <2>2
  <2>4. Backed(v, t)
    <3>1. CASE v = 0  BY <3>1, <2>2 DEF Backed
    <3>2. CASE v = checker[p].tally[t]  BY <3>2, <2>2
    <3> QED  BY <1>2, <3>1, <3>2
  <2> QED  BY <2>1, <2>3, <2>4, BackedStays
<1>3. tally' = tally \/ \A t \in Types : Backed(tally[t], t)'
  <2> SUFFICES ASSUME tally' # tally, NEW t \in Types PROVE Backed(tally[t], t)'
    OBVIOUS
  <2>1. PICK v : v = tally'[t]  OBVIOUS
  <2>2. Backed(v, t)'  BY <2>1, <1>2
  <2> QED  BY <2>1, <2>2 DEF Backed
<1>4. \A t \in Types : Backed(checker[p].tally[t], t)'
  <2> TAKE t \in Types
  <2>1. PICK v : v = checker'[p].tally[t]  OBVIOUS
  <2>2. Backed(v, t)'  BY <2>1, <1>2
  <2> QED  BY <2>1, <2>2 DEF Backed
<1>5. \A t \in Types : Spent(t)' >= Spent(t) /\ generated'[t] = generated[t]  BY <1>1
<1> QED  BY <1>3, <1>4, <1>5, CountsStep

(* A step of one process to another place that touches none of the rules.   *)
LEMMA PlainToStep ==
  ASSUME GenericInv, NEW p \in Checkers, NEW place \in Places, To(p, place),
         place \in {"tally", "copy", "read", "truncate", "write", "tidy"} => checker[p].plan \in Types,
         place \notin {"count", "tally", "read", "truncate", "write"},
         place = "copy" => /\ checker[p].at = "tally"
                           /\ checker[p].tally[checker[p].plan] >= 3,
         tally' = tally \/ \A t \in Types : tally'[t] \in {0, checker[p].tally[t]},
         tally' # NoTally => tally' \in TypeTallies,
         UNCHANGED <<userRules, backup, guarded, planned, generated, unconfirmed, copier, incidents>>
  PROVE  GenericInv'
<1>0. GenericTypes /\ CountsKept /\ RewritesKept /\ GuardKept  BY DEF GenericInv
<1>1. PICK c : c = [at |-> place, plan |-> checker[p].plan, tally |-> checker[p].tally,
                    rules |-> checker[p].rules]
  OBVIOUS
<1>2. /\ checker' \in [Checkers -> CheckerStates] /\ checker'[p] = c
      /\ \A q \in Checkers \ {p} : checker'[q] = checker[q]
  BY <1>0, <1>1, ToStep
<1>3. GenericTypes'
  <2>1. \A q \in Checkers : checker'[q].at \in {"tally", "copy", "read", "truncate", "write", "tidy"} =>
          checker'[q].plan \in Types
    <3> TAKE q \in Checkers
    <3>1. CASE q = p  BY <3>1, <1>1, <1>2
    <3>2. CASE q # p
      <4>1. checker'[q] = checker[q]  BY <3>2, <1>2
      <4> QED  BY <4>1, <1>0 DEF GenericTypes
    <3> QED  BY <3>1, <3>2
  <2> QED  BY <2>1, <1>2, <1>0 DEF GenericTypes, CheckerStates
<1>4. CountsKept'
  <2>1. \A t \in Types : p \in Counting(t)' => p \in Counting(t)
    <3> TAKE t \in Types
    <3> HAVE p \in Counting(t)'
    <3>1. place = "copy" /\ checker[p].plan = t  BY <1>1, <1>2 DEF Counting
    <3> QED  BY <3>1 DEF Counting
  <2>2. \A t \in Types : checker'[p].tally[t] \in {0, checker[p].tally[t]}  BY <1>1, <1>2
  <2>3. checker'[p].at = "copy" => checker'[p].tally[checker'[p].plan] >= 3  BY <1>1, <1>2
  <2> QED  BY <1>0, <1>2, <1>3, <2>1, <2>2, <2>3, CountsLeave
<1>5. RewritesKept' /\ GuardKept'
  <2>1. ~Rewrites(p)'  BY <1>1, <1>2 DEF Rewrites
  <2> QED  BY <2>1, <1>0, <1>2, PlainStep
<1> QED  BY <1>3, <1>4, <1>5 DEF GenericInv

(* check_strikes() counts on from the file, or from nothing.                *)
LEMMA CountStep ==
  ASSUME GenericInv, NEW p \in Checkers, Count(p)
  PROVE  GenericInv'
<1>0. GenericTypes /\ CountsKept /\ RewritesKept /\ GuardKept  BY DEF GenericInv
<1>1. /\ checker[p].at = "count"
      /\ UNCHANGED <<userRules, backup, guarded, planned, generated, unconfirmed, copier, incidents>>
  BY DEF Count, initVars
<1>2. CASE tally' = [t \in Types |-> 0] /\ To(p, "check")
  <2>1. tally' \in TypeTallies /\ \A t \in Types : tally'[t] = 0  BY <1>2 DEF TypeTallies
  <2>2. "check" \in Places  BY DEF Places
  <2> QED  BY <2>1, <2>2, <1>1, <1>2, PlainToStep
<1>3. CASE To(p, "check") /\ tally' = tally
  <2>1. "check" \in Places  BY DEF Places
  <2>2. tally' # NoTally => tally' \in TypeTallies  BY <1>3, <1>0 DEF GenericTypes
  <2> QED  BY <2>1, <2>2, <1>1, <1>3, PlainToStep
<1>4. ASSUME tally # NoTally, checker[p].plan \in Types, tally' = tally,
             NEW s \in {tally, [t \in Types |-> 0]},
             checker' = [checker EXCEPT ![p].at = "tally",
                                        ![p].tally = Counted(s, checker[p].plan)]
      PROVE  GenericInv'
  <2>1. PICK a \in Types : a = checker[p].plan  BY <1>4
  <2>2. s \in TypeTallies  BY <1>4, <1>0 DEF GenericTypes, TypeTallies
  <2>3. PICK n : n = Counted(s, a)  OBVIOUS
  <2>4. n \in TypeTallies /\ \A t \in Types : n[t] = IF t = a THEN s[t] + 1 ELSE s[t]
    BY <2>2, <2>3 DEF Counted, TypeTallies
  <2>5. PICK c : c = [at |-> "tally", plan |-> a, tally |-> n, rules |-> checker[p].rules]
    OBVIOUS
  <2>6. checker \in [Checkers -> CheckerStates] /\ checker[p] \in CheckerStates
    BY <1>0 DEF GenericTypes, CheckerStates
  <2>7. c \in CheckerStates  BY <2>1, <2>4, <2>5, <2>6 DEF CheckerStates, Places
  <2>8. checker' = [checker EXCEPT ![p] = c]
    <3>1. PICK m : m = [checker[p] EXCEPT !.at = "tally"]  OBVIOUS
    <3>2. m = [at |-> "tally", plan |-> checker[p].plan, tally |-> checker[p].tally,
               rules |-> checker[p].rules]
      BY <2>6, <3>1 DEF CheckerStates
    <3>3. [m EXCEPT !.tally = n] = c  BY <2>1, <2>5, <3>2
    <3> QED  BY <1>4, <2>1, <2>3, <2>6, <3>1, <3>3
  <2>9. /\ checker' \in [Checkers -> CheckerStates] /\ checker'[p] = c
        /\ \A q \in Checkers \ {p} : checker'[q] = checker[q]
    BY <1>0, <2>7, <2>8, CheckerSet
  <2>10. GenericTypes'
    <3>1. \A q \in Checkers : checker'[q].at \in {"tally", "copy", "read", "truncate", "write", "tidy"} =>
            checker'[q].plan \in Types
      <4> TAKE q \in Checkers
      <4>1. CASE q = p  BY <4>1, <2>5, <2>9
      <4>2. CASE q # p
        <5>1. checker'[q] = checker[q]  BY <4>2, <2>9
        <5> QED  BY <5>1, <1>0 DEF GenericTypes
      <4> QED  BY <4>1, <4>2
    <3> QED  BY <3>1, <2>9, <1>1, <1>4, <1>0 DEF GenericTypes, CheckerStates
  <2>11. \A t \in Types : s[t] \in Nat /\ Backed(s[t], t)
    <3> TAKE t \in Types
    <3>1. CASE s = tally  BY <3>1, <1>0, <1>4, <2>2 DEF CountsKept, TypeTallies
    <3>2. CASE s = [u \in Types |-> 0]  BY <3>2, <1>0 DEF CountsKept, Backed
    <3> QED  BY <1>4, <3>1, <3>2
  <2>12. \A t \in Types : Spent(t)' >= Spent(t) /\ Backed(n[t], t)'
    <3> TAKE t \in Types
    <3>1. planned[t] \in Nat /\ generated[t] \in Nat  BY <1>0 DEF GenericTypes, TypeTallies
    <3>2. PICK d : d = (planned'[t] - planned[t]) - (generated'[t] - generated[t])  OBVIOUS
    <3>3. d = 0  BY <1>1, <3>1, <3>2
    <3>4. p \in Counting(t) <=> t = a  BY <1>1, <2>1 DEF Counting
    <3>5. p \in Counting(t)' <=> t = a /\ n[t] >= 3  BY <2>5, <2>9 DEF Counting
    <3>6. /\ Spent(t) \in Int /\ Spent(t)' \in Int
          /\ (p \in Counting(t) <=> p \in Counting(t)') => Spent(t)' = Spent(t) + d
          /\ p \in Counting(t) /\ p \notin Counting(t)' => Spent(t)' = Spent(t) + d + 1
      BY <1>0, <2>9, <2>10, <3>2, SpentStep
    <3>7. PICK i \in Int, j \in Int : i = Spent(t) /\ j = Spent(t)'  BY <3>6
    <3>8. PICK v \in Nat, k \in Nat : v = s[t] /\ k = n[t]  BY <2>4, <2>11 DEF TypeTallies
    <3>9. v <= i \/ i >= 2  BY <2>11, <3>7, <3>8 DEF Backed
    <3>10. CASE t = a /\ k >= 3
      <4>1. k = v + 1  BY <3>8, <3>10, <2>4
      <4>2. j = i  BY <3>3, <3>4, <3>5, <3>6, <3>7, <3>8, <3>10
      <4>3. j >= i /\ j >= 2  BY <4>1, <4>2, <3>9, <3>10
      <4> QED  BY <4>3, <3>7 DEF Backed
    <3>11. CASE t = a /\ ~(k >= 3)
      <4>1. k = v + 1  BY <3>8, <3>11, <2>4
      <4>2. j = i + 1  BY <3>3, <3>4, <3>5, <3>6, <3>7, <3>8, <3>11
      <4>3. j >= i /\ (k <= j \/ j >= 2)  BY <4>1, <4>2, <3>9
      <4>4. n[t] <= Spent(t)' \/ Spent(t)' >= 2  BY <4>3, <3>7, <3>8
      <4>5. Backed(n[t], t)'
        <5>1. Backed(k, t)'  BY <4>4, <3>8 DEF Backed
        <5> QED  BY <5>1, <3>8
      <4> QED  BY <4>3, <4>5, <3>7
    <3>12. CASE t # a
      <4>1. k = v  BY <3>8, <3>12, <2>4
      <4>2. j = i  BY <3>3, <3>4, <3>5, <3>6, <3>7, <3>12
      <4>3. Backed(k, t)'  BY <4>1, <4>2, <3>7, <3>9 DEF Backed
      <4> QED  BY <4>2, <4>3, <3>7, <3>8
    <3> QED  BY <3>10, <3>11, <3>12
  <2>13. CountsKept'
    <3>1. \A t \in Types : Backed(checker[p].tally[t], t)'
      <4> TAKE t \in Types
      <4>1. checker'[p].tally[t] = n[t]  BY <2>5, <2>9
      <4> QED  BY <4>1, <2>12 DEF Backed
    <3>2. \A t \in Types : Spent(t)' >= Spent(t) /\ generated'[t] = generated[t]  BY <1>1, <2>12
    <3>3. checker'[p].at # "copy" /\ tally' = tally  BY <1>4, <2>5, <2>9
    <3> QED  BY <1>0, <2>9, <2>10, <3>1, <3>2, <3>3, CountsStep
  <2>14. RewritesKept' /\ GuardKept'
    <3>1. ~Rewrites(p)'  BY <2>5, <2>9 DEF Rewrites
    <3> QED  BY <3>1, <1>0, <1>1, <2>9, PlainStep
  <2> QED  BY <2>10, <2>13, <2>14 DEF GenericInv
<1>5. \/ tally' = [t \in Types |-> 0] /\ To(p, "check")
      \/ To(p, "check") /\ tally' = tally
      \/ /\ tally # NoTally /\ checker[p].plan \in Types /\ tally' = tally
         /\ \E s \in {tally, [t \in Types |-> 0]} :
              checker' = [checker EXCEPT ![p].at = "tally",
                                         ![p].tally = Counted(s, checker[p].plan)]
  BY DEF Count
<1> QED  BY <1>2, <1>3, <1>4, <1>5

(* The third of a type goes on to a generation, others do not.              *)
LEMMA SaveTallyStep ==
  ASSUME GenericInv, NEW p \in Checkers, SaveTally(p)
  PROVE  GenericInv'
<1>1. /\ checker[p].at = "tally" /\ tally' = checker[p].tally
      /\ UNCHANGED <<userRules, backup, guarded, planned, generated, unconfirmed, copier, incidents>>
  BY DEF SaveTally, initVars
<1>2. checker[p].plan \in Types /\ checker[p].tally \in TypeTallies
  BY <1>1 DEF GenericInv, GenericTypes
<1>3. PICK place : place = IF checker[p].tally[checker[p].plan] >= 3 THEN "copy" ELSE "check"
  OBVIOUS
<1>4. place \in {"copy", "check"} /\ place \in Places  BY <1>3 DEF Places
<1>5. To(p, place)  BY <1>3 DEF SaveTally
<1>6. place = "copy" => checker[p].tally[checker[p].plan] >= 3  BY <1>3
<1> QED  BY <1>1, <1>2, <1>4, <1>5, <1>6, PlainToStep

(* After a generation its type is counted from zero.                        *)
LEMMA TidyStep ==
  ASSUME GenericInv, NEW p \in Checkers, Tidy(p)
  PROVE  GenericInv'
<1>1. /\ checker[p].at = "tidy" /\ tally' = [checker[p].tally EXCEPT ![checker[p].plan] = 0]
      /\ To(p, "check")
      /\ UNCHANGED <<userRules, backup, guarded, planned, generated, unconfirmed, copier, incidents>>
  BY DEF Tidy, initVars
<1>2. checker[p].tally \in TypeTallies  BY DEF GenericInv, GenericTypes
<1>3. tally' \in TypeTallies /\ \A t \in Types : tally'[t] \in {0, checker[p].tally[t]}
  BY <1>1, <1>2 DEF TypeTallies
<1>4. "check" \in Places  BY DEF Places
<1> QED  BY <1>1, <1>3, <1>4, PlainToStep

(* A generation spends the planned action that started it.                  *)
LEMMA GenerationCounts ==
  ASSUME GenericTypes, GenericTypes', CountsKept, NEW p \in Checkers, checker[p].at = "copy",
         NEW a \in Types, a = checker[p].plan, \A q \in Checkers \ {p} : checker'[q] = checker[q],
         checker'[p].at \in {"idle", "read"}, tally' = tally, planned' = planned,
         generated' = [generated EXCEPT ![a] = @ + 1],
         \A t \in Types : checker'[p].tally[t] \in {0, checker[p].tally[t]}
  PROVE  /\ CountsKept' /\ AnyGeneration' /\ (AnyGeneration => SeveralGenerations')
         /\ generated'[a] > 0 /\ \A t \in Types : generated[t] > 0 => generated'[t] > 0
<1>5. /\ generated' \in TypeTallies
      /\ \A t \in Types : generated'[t] = IF t = a THEN generated[t] + 1 ELSE generated[t]
  BY DEF GenericTypes, TypeTallies
<1>6. PICK v \in Nat : v = checker[p].tally[a] /\ v >= 3
  BY DEF GenericTypes, TypeTallies, CountsKept
<1>7. \A t \in Types : /\ Spent(t) \in Int /\ Spent(t)' = Spent(t)
                       /\ (generated'[t] = generated[t] \/ Spent(t)' >= 2)
  <2> TAKE t \in Types
  <2>1. PICK k \in Nat, l \in Nat : k = planned[t] /\ l = generated[t]
    BY DEF GenericTypes, TypeTallies
  <2>2. PICK d : d = (planned'[t] - planned[t]) - (generated'[t] - generated[t])  OBVIOUS
  <2>3. d = IF t = a THEN -1 ELSE 0
    <3>1. planned'[t] = k  BY <2>1
    <3>2. PICK n \in Nat : n = generated'[t] /\ n = IF t = a THEN l + 1 ELSE l
      BY <1>5, <2>1 DEF TypeTallies
    <3>3. d = (k - k) - (n - l)  BY <3>1, <3>2, <2>1, <2>2
    <3> QED  BY <3>2, <3>3
  <2>4. p \in Counting(t) <=> t = a  BY <1>6 DEF Counting
  <2>5. p \notin Counting(t)'  BY DEF Counting
  <2>6. /\ Spent(t) \in Int /\ Spent(t)' \in Int
        /\ (p \in Counting(t) <=> p \in Counting(t)') => Spent(t)' = Spent(t) + d
        /\ p \in Counting(t) /\ p \notin Counting(t)' => Spent(t)' = Spent(t) + d + 1
    BY <2>2, SpentStep
  <2>7. PICK i \in Int, j \in Int : i = Spent(t) /\ j = Spent(t)'  BY <2>6
  <2>8. j = i
    <3>1. CASE t = a
      <4>1. j = i + d + 1 /\ d = -1  BY <2>3, <2>4, <2>5, <2>6, <2>7, <3>1
      <4> QED  BY <4>1
    <3>2. CASE t # a
      <4>1. j = i + d /\ d = 0  BY <2>3, <2>4, <2>5, <2>6, <2>7, <3>2
      <4> QED  BY <4>1
    <3> QED  BY <3>1, <3>2
  <2>9. generated'[t] = generated[t] \/ j >= 2
    <3>1. CASE t = a
      <4>1. Backed(v, t)  BY <1>6, <3>1 DEF CountsKept
      <4>2. v <= i \/ i >= 2  BY <4>1, <2>7 DEF Backed
      <4> QED  BY <4>2, <2>8, <1>6
    <3>2. CASE t # a  BY <3>2, <1>5
    <3> QED  BY <3>1, <3>2
  <2> QED  BY <2>7, <2>8, <2>9
<1>8. CountsKept'
  <2>1. \A t \in Types : Backed(checker[p].tally[t], t)'
    <3> TAKE t \in Types
    <3>1. PICK w \in Nat : w = checker'[p].tally[t] /\ w \in {0, checker[p].tally[t]}
      BY DEF GenericTypes, TypeTallies
    <3>2. Backed(checker[p].tally[t], t) /\ Spent(t) >= 0  BY DEF CountsKept
    <3>3. Backed(w, t)
      <4>1. CASE w = 0  BY <4>1, <3>2 DEF Backed
      <4>2. CASE w = checker[p].tally[t]  BY <4>2, <3>2
      <4> QED  BY <3>1, <4>1, <4>2
    <3>4. Backed(w, t)'  BY <3>3, <1>7 DEF Backed
    <3> QED  BY <3>1, <3>4 DEF Backed
  <2>2. \A t \in Types : Spent(t)' >= Spent(t)
    <3> TAKE t \in Types
    <3>1. PICK i \in Int : i = Spent(t) /\ i = Spent(t)'  BY <1>7
    <3> QED  BY <3>1
  <2>3. checker'[p].at # "copy" /\ tally' = tally  OBVIOUS
  <2> QED  BY <1>7, <2>1, <2>2, <2>3, CountsStep
<1>9. generated'[a] > 0 /\ \A t \in Types : generated[t] > 0 => generated'[t] > 0
  <2>1. \A t \in Types : generated[t] \in Nat  BY DEF GenericTypes, TypeTallies
  <2> QED  BY <1>5, <2>1
<1>10. AnyGeneration => SeveralGenerations'
  <2> HAVE AnyGeneration
  <2>1. PICK t \in Types : generated[t] > 0  BY DEF AnyGeneration
  <2>2. CASE t = a
    <3>1. PICK l \in Nat : l = generated[a]  BY DEF GenericTypes, TypeTallies
    <3>2. generated'[a] = l + 1 /\ l > 0  BY <3>1, <2>1, <2>2, <1>5
    <3>3. generated'[a] > 1  BY <3>2
    <3> QED  BY <3>3 DEF SeveralGenerations
  <2>3. CASE t # a  BY <2>1, <2>3, <1>9 DEF SeveralGenerations
  <2> QED  BY <2>2, <2>3
<1>11. AnyGeneration'  BY <1>9 DEF AnyGeneration
<1> QED  BY <1>8, <1>9, <1>10, <1>11

(* A copy taken without a generation before is of the user's rules.         *)
LEMMA CopyStep ==
  ASSUME GenericInv, NEW p \in Checkers, Copy(p)
  PROVE  GenericInv'
<1>0. GenericTypes /\ CountsKept /\ RewritesKept /\ GuardKept  BY DEF GenericInv
<1>1. /\ checker[p].at = "copy"
      /\ UNCHANGED <<userRules, tally, guarded, planned, unconfirmed, copier>>
  BY DEF Copy
<1>2. PICK a \in Types : a = checker[p].plan  BY <1>1, <1>0 DEF GenericTypes
<1>3. CASE userRules.form = "absent"
  <2>1. To(p, "tidy") /\ backup' = backup /\ generated' = generated /\ incidents' = incidents
    BY <1>3 DEF Copy
  <2>2. "tidy" \in Places  BY DEF Places
  <2>3. tally' # NoTally => tally' \in TypeTallies  BY <1>0, <1>1 DEF GenericTypes
  <2> QED  BY <1>1, <1>2, <2>1, <2>2, <2>3, PlainToStep
<1>4. CASE userRules.form # "absent"
  <2>1. /\ To(p, "read") /\ backup' = userRules
        /\ generated' = [generated EXCEPT ![a] = @ + 1]
        /\ incidents' = incidents \cup Overlapping(copier # NoRules)
    BY <1>2, <1>4 DEF Copy
  <2>2. PICK c : c = [at |-> "read", plan |-> a, tally |-> checker[p].tally,
                      rules |-> checker[p].rules]
    OBVIOUS
  <2>3. /\ checker' \in [Checkers -> CheckerStates] /\ checker'[p] = c
        /\ \A q \in Checkers \ {p} : checker'[q] = checker[q]
    <3>1. "read" \in Places  BY DEF Places
    <3> QED  BY <1>0, <1>2, <2>1, <2>2, <3>1, ToStep
  <2>4. /\ generated' \in TypeTallies
        /\ \A t \in Types : generated'[t] = IF t = a THEN generated[t] + 1 ELSE generated[t]
    BY <2>1, <1>0 DEF GenericTypes, TypeTallies
  <2>5. GenericTypes'
    <3>1. \A q \in Checkers : checker'[q].at \in {"tally", "copy", "read", "truncate", "write", "tidy"} =>
            checker'[q].plan \in Types
      <4> TAKE q \in Checkers
      <4>1. CASE q = p  BY <4>1, <2>2, <2>3
      <4>2. CASE q # p
        <5>1. checker'[q] = checker[q]  BY <4>2, <2>3
        <5> QED  BY <5>1, <1>0 DEF GenericTypes
      <4> QED  BY <4>1, <4>2
    <3> QED  BY <3>1, <2>1, <2>3, <2>4, <1>1, <1>0 DEF GenericTypes, CheckerStates
  <2>8. /\ CountsKept' /\ AnyGeneration' /\ (AnyGeneration => SeveralGenerations')
        /\ generated'[a] > 0 /\ \A u \in Types : generated[u] > 0 => generated'[u] > 0
    <3>1. checker'[p].at \in {"idle", "read"} /\ \A u \in Types : checker'[p].tally[u] = checker[p].tally[u]
      BY <2>2, <2>3
    <3>2. tally' = tally /\ planned' = planned  BY <1>1
    <3> QED  BY <1>0, <1>1, <1>2, <2>1, <2>3, <2>5, <3>1, <3>2, GenerationCounts
  <2>13. \A q \in Checkers : Rewrites(q) => AnyGeneration
    <3> TAKE q \in Checkers
    <3> HAVE Rewrites(q)
    <3>1. generated[checker[q].plan] > 0 /\ checker[q].plan \in Types
      BY <1>0 DEF RewritesKept, GenericTypes, Rewrites
    <3> QED  BY <3>1 DEF AnyGeneration
  <2>14. RewritesKept'
    <3>1. \A q \in Checkers : Rewrites(q)' => generated'[checker'[q].plan] > 0 /\ userRules'.form # "absent"
      <4> TAKE q \in Checkers
      <4> HAVE Rewrites(q)'
      <4>1. CASE q = p  BY <4>1, <1>1, <1>4, <2>2, <2>3, <2>8
      <4>2. CASE q # p
        <5>1. checker'[q] = checker[q]  BY <4>2, <2>3
        <5>2. Rewrites(q)  BY <5>1 DEF Rewrites
        <5>3. generated[checker[q].plan] > 0 /\ checker[q].plan \in Types
          BY <5>2, <1>0 DEF RewritesKept, GenericTypes, Rewrites
        <5> QED  BY <5>1, <5>3, <2>8, <1>1, <1>4
      <4> QED  BY <4>1, <4>2
    <3>2. \A q, r \in Checkers : q # r /\ Rewrites(q)' /\ Rewrites(r)' => SeveralGenerations'
      <4> SUFFICES ASSUME NEW q \in Checkers, NEW r \in Checkers, q # r, Rewrites(q)', Rewrites(r)'
                   PROVE  AnyGeneration
        BY <2>8
      <4>1. CASE q # p
        <5>1. checker'[q] = checker[q]  BY <4>1, <2>3
        <5>2. Rewrites(q)  BY <5>1 DEF Rewrites
        <5> QED  BY <5>2, <2>13
      <4>2. CASE q = p
        <5>1. checker'[r] = checker[r]  BY <4>2, <2>3
        <5>2. Rewrites(r)  BY <5>1 DEF Rewrites
        <5> QED  BY <5>2, <2>13
      <4> QED  BY <4>1, <4>2
    <3>3. \A q \in Checkers : checker'[q].at \in {"truncate", "write"} =>
            checker'[q].rules.form = "list"
      <4> TAKE q \in Checkers
      <4> HAVE checker'[q].at \in {"truncate", "write"}
      <4>1. q # p  BY <2>2, <2>3
      <4>2. checker'[q] = checker[q]  BY <4>1, <2>3
      <4> QED  BY <4>2, <1>0, <1>1 DEF RewritesKept
    <3>4. guarded' => userRules'.form # "absent"  BY <1>0, <1>1 DEF RewritesKept
    <3> QED  BY <3>1, <3>2, <3>3, <3>4 DEF RewritesKept
  <2>15. GuardHeld'
    <3>1. ASSUME guarded', ~SeveralGenerations', NeitherCut'
          PROVE  (userRules'.guards \/ backup'.guards) /\ \A q \in Checkers : RulesInHand(q)'
      <4>1. ~AnyGeneration  BY <3>1, <2>8
      <4>2. copier = NoRules /\ NeitherCut
        BY <3>1, <2>1 DEF NeitherCut, Overlapping
      <4>3. userRules.guards /\ userRules'.guards /\ backup'.guards
        <5>1. userRules.guards \/ copier.guards
          BY <4>1, <4>2, <3>1, <1>0, <1>1 DEF GuardKept, BeforeGeneration
        <5>2. ~copier.guards  BY <4>2 DEF NoRules, Rules
        <5> QED  BY <5>1, <5>2, <1>1, <2>1
      <4>4. \A q \in Checkers : RulesInHand(q)'
        <5> TAKE q \in Checkers
        <5>1. CASE q = p  BY <5>1, <4>3, <2>2, <2>3 DEF RulesInHand, Rewrites
        <5>2. CASE q # p
          <6>1. checker'[q] = checker[q]  BY <5>2, <2>3
          <6>2. ~Rewrites(q)  BY <4>1, <2>13
          <6> QED  BY <6>1, <6>2 DEF RulesInHand, Rewrites
        <5> QED  BY <5>1, <5>2
      <4> QED  BY <4>3, <4>4
    <3> QED  BY <3>1 DEF GuardHeld
  <2>16. CopierAlone'
    <3>1. NoRules' = NoRules  BY DEF NoRules, Rules, NoneGenerated
    <3>2. copier # NoRules => "overlap" \in incidents'  BY <2>1 DEF Overlapping
    <3>3. incidents \subseteq incidents'  BY <2>1
    <3> QED  BY <1>0, <1>1, <3>1, <3>2, <3>3 DEF GuardKept, CopierAlone
  <2>17. BeforeGeneration'  BY <2>8 DEF BeforeGeneration
  <2>18. GuardKept'  BY <2>15, <2>16, <2>17 DEF GuardKept
  <2> QED  BY <2>5, <2>8, <2>14, <2>18 DEF GenericInv
<1> QED  BY <1>3, <1>4

(* Types and counts in the rest of a generation.                            *)
LEMMA RewriteCounts ==
  ASSUME GenericTypes, CountsKept, NEW p \in Checkers, Rewrites(p), NEW c \in CheckerStates,
         checker' \in [Checkers -> CheckerStates], checker'[p] = c,
         \A q \in Checkers \ {p} : checker'[q] = checker[q],
         c.at \in {"idle", "truncate", "write", "tidy"}, c.plan = checker[p].plan,
         c.tally = checker[p].tally, userRules' \in RuleFiles,
         UNCHANGED <<backup, tally, planned, generated, copier>>
  PROVE  GenericTypes' /\ CountsKept'
<1>1. GenericTypes'
  <2>1. \A q \in Checkers : checker'[q].at \in {"tally", "copy", "read", "truncate", "write", "tidy"} =>
          checker'[q].plan \in Types
    <3> TAKE q \in Checkers
    <3>1. CASE q = p  BY <3>1 DEF GenericTypes, Rewrites
    <3>2. CASE q # p
      <4>1. checker'[q] = checker[q]  BY <3>2
      <4> QED  BY <4>1 DEF GenericTypes
    <3> QED  BY <3>1, <3>2
  <2> QED  BY <2>1 DEF GenericTypes, CheckerStates
<1>2. \A t \in Types : p \notin Counting(t)'  BY DEF Counting
<1>3. \A t \in Types : checker'[p].tally[t] \in {0, checker[p].tally[t]}  OBVIOUS
<1>4. checker'[p].at # "copy"  OBVIOUS
<1>5. tally' = tally /\ planned' = planned /\ generated' = generated  OBVIOUS
<1> QED  BY <1>1, <1>2, <1>3, <1>4, <1>5, CountsLeave

(* Read rules hold the user's, where the file does.                         *)
LEMMA ReadRulesStep ==
  ASSUME GenericInv, NEW p \in Checkers, ReadRules(p)
  PROVE  GenericInv'
<1>0. GenericTypes /\ CountsKept /\ RewritesKept /\ GuardKept  BY DEF GenericInv
<1>1. /\ checker[p].at = "read"
      /\ userRules' = userRules /\ backup' = backup /\ tally' = tally /\ guarded' = guarded
      /\ planned' = planned /\ generated' = generated /\ unconfirmed' = unconfirmed
      /\ copier' = copier /\ incidents' = incidents
  BY DEF ReadRules, initVars
<1>2. Rewrites(p)  BY <1>1 DEF Rewrites
<1>3. checker \in [Checkers -> CheckerStates] /\ checker[p] \in CheckerStates
  BY <1>0 DEF GenericTypes, CheckerStates
<1>4. PICK a \in Types : a = checker[p].plan  BY <1>1, <1>0 DEF GenericTypes
<1>5. userRules \in RuleFiles /\ userRules' \in RuleFiles  BY <1>0, <1>1 DEF GenericTypes
<1>6. CASE userRules.form \in {"keyed", "torn"}
  <2>1. To(p, "idle")  BY <1>6 DEF ReadRules
  <2>2. PICK c : c = [at |-> "idle", plan |-> checker[p].plan, tally |-> checker[p].tally,
                      rules |-> checker[p].rules]
    OBVIOUS
  <2>3. /\ checker' \in [Checkers -> CheckerStates] /\ checker'[p] = c
        /\ \A q \in Checkers \ {p} : checker'[q] = checker[q]
    <3>1. "idle" \in Places  BY DEF Places
    <3> QED  BY <1>0, <2>1, <2>2, <3>1, ToStep
  <2>4. c \in CheckerStates  BY <2>2, <1>3 DEF CheckerStates, Places
  <2>5. GenericTypes' /\ CountsKept'
    <3>1. c.at = "idle" /\ c.plan = checker[p].plan /\ c.tally = checker[p].tally  BY <2>2
    <3> QED  BY <1>0, <1>1, <1>2, <1>5, <2>3, <2>4, <3>1, RewriteCounts
  <2>6. RewritesKept' /\ GuardKept'
    <3>1. ~Rewrites(p)'  BY <2>2, <2>3 DEF Rewrites
    <3> QED  BY <3>1, <1>0, <1>1, <2>3, PlainStep
  <2> QED  BY <2>5, <2>6 DEF GenericInv
<1>7. CASE userRules.form \notin {"keyed", "torn"}
  <2>1. PICK g : g = [userRules.gen EXCEPT ![a] = Harder(@)]  OBVIOUS
  <2>2. g \in TypeTallies
    <3>1. userRules.gen \in TypeTallies  BY <1>5 DEF RuleFiles
    <3>2. \A h \in Nat : Harder(h) \in Nat  BY DEF Harder
    <3> QED  BY <2>1, <3>1, <3>2 DEF TypeTallies
  <2>3. PICK r : r = [form |-> "list", guards |-> userRules.guards, gen |-> g]  OBVIOUS
  <2>4. r \in RuleFiles  BY <2>2, <2>3, <1>5 DEF RuleFiles
  <2>5. PICK c : c = [at |-> "truncate", plan |-> a, tally |-> checker[p].tally, rules |-> r]
    OBVIOUS
  <2>6. c \in CheckerStates  BY <2>4, <2>5, <1>3, <1>4 DEF CheckerStates, Places
  <2>7. checker' = [checker EXCEPT ![p] = c]
    <3>1. checker' = [checker EXCEPT ![p].at = "truncate", ![p].rules = r]
      BY <1>4, <1>7, <2>1, <2>3 DEF ReadRules, Rules
    <3>2. PICK m : m = [checker[p] EXCEPT !.at = "truncate"]  OBVIOUS
    <3>3. m = [at |-> "truncate", plan |-> checker[p].plan, tally |-> checker[p].tally,
               rules |-> checker[p].rules]
      BY <1>3, <3>2 DEF CheckerStates
    <3>4. [m EXCEPT !.rules = r] = c  BY <1>4, <2>5, <3>3
    <3> QED  BY <1>3, <3>1, <3>2, <3>4
  <2>8. /\ checker' \in [Checkers -> CheckerStates] /\ checker'[p] = c
        /\ \A q \in Checkers \ {p} : checker'[q] = checker[q]
    BY <1>0, <2>6, <2>7, CheckerSet
  <2>9. GenericTypes' /\ CountsKept'
    <3>1. c.at = "truncate" /\ c.plan = checker[p].plan /\ c.tally = checker[p].tally
      BY <1>4, <2>5
    <3> QED  BY <1>0, <1>1, <1>2, <1>5, <2>6, <2>8, <3>1, RewriteCounts
  <2>10. \A q \in Checkers : /\ Rewrites(q)' <=> Rewrites(q)
                             /\ checker'[q].plan = checker[q].plan
    <3> TAKE q \in Checkers
    <3>1. CASE q = p  BY <3>1, <1>2, <1>4, <2>5, <2>8 DEF Rewrites
    <3>2. CASE q # p
      <4>1. checker'[q] = checker[q]  BY <3>2, <2>8
      <4> QED  BY <4>1 DEF Rewrites
    <3> QED  BY <3>1, <3>2
  <2>11. (SeveralGenerations' <=> SeveralGenerations) /\ (AnyGeneration' <=> AnyGeneration)
    BY <1>1 DEF SeveralGenerations, AnyGeneration
  <2>13. RewritesKept'
    <3>1. \A q \in Checkers : Rewrites(q)' => generated'[checker'[q].plan] > 0 /\ userRules'.form # "absent"
      BY <2>10, <1>1, <1>0 DEF RewritesKept
    <3>2. \A q, u \in Checkers : q # u /\ Rewrites(q)' /\ Rewrites(u)' => SeveralGenerations'
      BY <2>10, <2>11, <1>0 DEF RewritesKept
    <3>3. \A q \in Checkers : checker'[q].at \in {"truncate", "write"} =>
            checker'[q].rules.form = "list"
      <4> TAKE q \in Checkers
      <4>1. CASE q = p  BY <4>1, <1>1, <2>3, <2>5, <2>8
      <4>2. CASE q # p
        <5>1. checker'[q] = checker[q]  BY <4>2, <2>8
        <5> QED  BY <5>1, <1>0, <1>1 DEF RewritesKept
      <4> QED  BY <4>1, <4>2
    <3>4. guarded' => userRules'.form # "absent"  BY <1>0, <1>1 DEF RewritesKept
    <3> QED  BY <3>1, <3>2, <3>3, <3>4 DEF RewritesKept
  <2>14. ASSUME guarded', ~SeveralGenerations', NeitherCut', NEW q \in Checkers PROVE RulesInHand(q)'
    <3>1. RulesInHand(q) /\ RulesInHand(p)  BY <2>14, <2>11, <1>0, <1>1 DEF GuardKept, GuardHeld, NeitherCut
    <3>2. CASE q = p
      <4>1. userRules.guards /\ backup.guards  BY <3>1, <1>1, <1>2 DEF RulesInHand
      <4> QED  BY <3>2, <4>1, <1>1, <2>3, <2>5, <2>8 DEF RulesInHand, Rewrites
    <3>3. CASE q # p
      <4>1. checker'[q] = checker[q]  BY <3>3, <2>8
      <4> QED  BY <4>1, <3>1, <1>1 DEF RulesInHand, Rewrites
    <3> QED  BY <3>2, <3>3
  <2>15. GuardKept'
    <3>1. GuardHeld'  BY <2>11, <2>14, <1>0, <1>1 DEF GuardKept, GuardHeld, NeitherCut
    <3>2. CopierAlone'  BY <2>10, <1>0, <1>1, AloneStays DEF GuardKept
    <3>3. BeforeGeneration'
      BY <2>11, <1>0, <1>1 DEF GuardKept, BeforeGeneration, NeitherCut, Untouched
    <3> QED  BY <3>1, <3>2, <3>3 DEF GuardKept
  <2> QED  BY <2>9, <2>13, <2>15 DEF GenericInv
<1> QED  BY <1>6, <1>7

(* An emptied file leaves the user's rules in the copy and in hand.         *)
LEMMA TruncateRulesStep ==
  ASSUME GenericInv, NEW p \in Checkers, TruncateRules(p)
  PROVE  GenericInv'
<1>0. GenericTypes /\ CountsKept /\ RewritesKept /\ GuardKept  BY DEF GenericInv
<1>1. /\ checker[p].at = "truncate" /\ userRules' = EmptyRules /\ To(p, "write")
      /\ backup' = backup /\ tally' = tally /\ guarded' = guarded
      /\ planned' = planned /\ generated' = generated /\ unconfirmed' = unconfirmed
      /\ copier' = copier /\ incidents' = incidents
  BY DEF TruncateRules, initVars
<1>2. Rewrites(p)  BY <1>1 DEF Rewrites
<1>3. PICK c : c = [at |-> "write", plan |-> checker[p].plan, tally |-> checker[p].tally,
                    rules |-> checker[p].rules]
  OBVIOUS
<1>4. /\ checker' \in [Checkers -> CheckerStates] /\ checker'[p] = c
      /\ \A q \in Checkers \ {p} : checker'[q] = checker[q]
  <2>1. "write" \in Places  BY DEF Places
  <2> QED  BY <1>0, <1>1, <1>3, <2>1, ToStep
<1>5. userRules' \in RuleFiles /\ userRules'.form = "empty" /\ userRules'.guards = FALSE
  BY <1>1 DEF EmptyRules, Rules, NoneGenerated, RuleFiles, TypeTallies
<1>6. GenericTypes' /\ CountsKept'
  <2>1. c.at = "write" /\ c.plan = checker[p].plan /\ c.tally = checker[p].tally  BY <1>3
  <2>2. c \in CheckerStates  BY <1>4
  <2> QED  BY <1>0, <1>1, <1>2, <1>4, <1>5, <2>1, <2>2, RewriteCounts
<1>7. \A q \in Checkers : /\ Rewrites(q)' <=> Rewrites(q)
                          /\ checker'[q].plan = checker[q].plan
                          /\ checker'[q].rules = checker[q].rules
                          /\ q # p => checker'[q].at = checker[q].at
  <2> TAKE q \in Checkers
  <2>1. CASE q = p  BY <2>1, <1>2, <1>3, <1>4 DEF Rewrites
  <2>2. CASE q # p
    <3>1. checker'[q] = checker[q]  BY <2>2, <1>4
    <3> QED  BY <3>1 DEF Rewrites
  <2> QED  BY <2>1, <2>2
<1>8. (SeveralGenerations' <=> SeveralGenerations) /\ (AnyGeneration' <=> AnyGeneration)
  BY <1>1 DEF SeveralGenerations, AnyGeneration
<1>9. checker[p].rules.form = "list"  BY <1>0, <1>1 DEF RewritesKept
<1>10. RewritesKept'
  <2>1. \A q \in Checkers : Rewrites(q)' => generated'[checker'[q].plan] > 0 /\ userRules'.form # "absent"
    BY <1>7, <1>1, <1>5, <1>0 DEF RewritesKept
  <2>2. \A q, u \in Checkers : q # u /\ Rewrites(q)' /\ Rewrites(u)' => SeveralGenerations'
    BY <1>7, <1>8, <1>0 DEF RewritesKept
  <2>3. \A q \in Checkers : checker'[q].at \in {"truncate", "write"} =>
          checker'[q].rules.form = "list"
    <3> TAKE q \in Checkers
    <3>1. CASE q = p  BY <3>1, <1>1, <1>7, <1>9
    <3>2. CASE q # p  BY <3>2, <1>0, <1>1, <1>7 DEF RewritesKept
    <3> QED  BY <3>1, <3>2
  <2>4. guarded' => userRules'.form # "absent"  BY <1>5
  <2> QED  BY <2>1, <2>2, <2>3, <2>4 DEF RewritesKept
<1>11. AnyGeneration
  <2>1. generated[checker[p].plan] > 0 /\ checker[p].plan \in Types
    BY <1>0, <1>1, <1>2 DEF RewritesKept, GenericTypes
  <2> QED  BY <2>1 DEF AnyGeneration
<1>12. GuardHeld'
  <2>1. ASSUME guarded', ~SeveralGenerations', NeitherCut'
        PROVE  (userRules'.guards \/ backup'.guards) /\ \A q \in Checkers : RulesInHand(q)'
    <3>1. RulesInHand(p)  BY <2>1, <1>8, <1>0, <1>1 DEF GuardKept, GuardHeld, NeitherCut
    <3>2. backup'.guards /\ checker[p].rules.guards  BY <3>1, <1>1, <1>2 DEF RulesInHand
    <3>3. \A q \in Checkers : RulesInHand(q)'
      <4> TAKE q \in Checkers
      <4>1. CASE q = p  BY <4>1, <3>2, <1>3, <1>4 DEF RulesInHand
      <4>2. CASE q # p
        <5>1. ~Rewrites(q)  BY <4>2, <1>2, <2>1, <1>8, <1>0 DEF RewritesKept
        <5>2. ~Rewrites(q)'  BY <5>1, <1>7
        <5> QED  BY <5>2 DEF RulesInHand, Rewrites
      <4> QED  BY <4>1, <4>2
    <3> QED  BY <3>2, <3>3
  <2> QED  BY <2>1 DEF GuardHeld
<1>13. CopierAlone'  BY <1>0, <1>1, <1>7, AloneStays DEF GuardKept
<1>14. BeforeGeneration'  BY <1>8, <1>11 DEF BeforeGeneration
<1>15. GuardKept'  BY <1>12, <1>13, <1>14 DEF GuardKept
<1> QED  BY <1>6, <1>10, <1>15 DEF GenericInv

(* Written rules hold the user's again.                                     *)
LEMMA WriteRulesStep ==
  ASSUME GenericInv, NEW p \in Checkers, WriteRules(p)
  PROVE  GenericInv'
<1>0. GenericTypes /\ CountsKept /\ RewritesKept /\ GuardKept  BY DEF GenericInv
<1>1. /\ checker[p].at = "write" /\ userRules' = checker[p].rules /\ To(p, "tidy")
      /\ backup' = backup /\ tally' = tally /\ guarded' = guarded
      /\ planned' = planned /\ generated' = generated /\ unconfirmed' = unconfirmed
      /\ copier' = copier /\ incidents' = incidents
  BY DEF WriteRules, initVars
<1>2. Rewrites(p)  BY <1>1 DEF Rewrites
<1>3. PICK c : c = [at |-> "tidy", plan |-> checker[p].plan, tally |-> checker[p].tally,
                    rules |-> checker[p].rules]
  OBVIOUS
<1>4. /\ checker' \in [Checkers -> CheckerStates] /\ checker'[p] = c
      /\ \A q \in Checkers \ {p} : checker'[q] = checker[q]
  <2>1. "tidy" \in Places  BY DEF Places
  <2> QED  BY <1>0, <1>1, <1>3, <2>1, ToStep
<1>5. userRules'.form = "list"  BY <1>0, <1>1 DEF RewritesKept
<1>6. GenericTypes' /\ CountsKept'
  <2>1. c.at = "tidy" /\ c.plan = checker[p].plan /\ c.tally = checker[p].tally  BY <1>3
  <2>2. c \in CheckerStates  BY <1>4
  <2>3. userRules' \in RuleFiles  BY <1>0, <1>1 DEF GenericTypes
  <2> QED  BY <1>0, <1>1, <1>2, <1>4, <2>1, <2>2, <2>3, RewriteCounts
<1>7. \A q \in Checkers : Rewrites(q)' => q # p /\ Rewrites(q) /\ checker'[q] = checker[q]
  BY <1>3, <1>4 DEF Rewrites
<1>8. (SeveralGenerations' <=> SeveralGenerations) /\ (AnyGeneration' <=> AnyGeneration)
  BY <1>1 DEF SeveralGenerations, AnyGeneration
<1>9. RewritesKept'
  <2>1. \A q \in Checkers : Rewrites(q)' => generated'[checker'[q].plan] > 0 /\ userRules'.form # "absent"
    BY <1>7, <1>1, <1>5, <1>0 DEF RewritesKept
  <2>2. \A q, u \in Checkers : q # u /\ Rewrites(q)' /\ Rewrites(u)' => SeveralGenerations'
    BY <1>7, <1>8, <1>0 DEF RewritesKept
  <2>3. \A q \in Checkers : checker'[q].at \in {"truncate", "write"} =>
          checker'[q].rules.form = "list"
    <3> TAKE q \in Checkers
    <3> HAVE checker'[q].at \in {"truncate", "write"}
    <3>1. checker'[q] = checker[q]  BY <1>3, <1>4
    <3> QED  BY <3>1, <1>0, <1>1 DEF RewritesKept
  <2>4. guarded' => userRules'.form # "absent"  BY <1>5
  <2> QED  BY <2>1, <2>2, <2>3, <2>4 DEF RewritesKept
<1>10. AnyGeneration
  <2>1. generated[checker[p].plan] > 0 /\ checker[p].plan \in Types
    BY <1>0, <1>1, <1>2 DEF RewritesKept, GenericTypes
  <2> QED  BY <2>1 DEF AnyGeneration
<1>11. GuardHeld'
  <2>1. ASSUME guarded', ~SeveralGenerations', NeitherCut'
        PROVE  (userRules'.guards \/ backup'.guards) /\ \A q \in Checkers : RulesInHand(q)'
    <3>1. RulesInHand(p)  BY <2>1, <1>8, <1>0, <1>1 DEF GuardKept, GuardHeld, NeitherCut
    <3>2. userRules'.guards  BY <3>1, <1>1 DEF RulesInHand
    <3>3. \A q \in Checkers : ~Rewrites(q)'
      <4> TAKE q \in Checkers
      <4> SUFFICES ASSUME Rewrites(q)' PROVE FALSE  OBVIOUS
      <4> QED  BY <1>7, <1>2, <2>1, <1>8, <1>0 DEF RewritesKept
    <3> QED  BY <3>2, <3>3 DEF RulesInHand, Rewrites
  <2> QED  BY <2>1 DEF GuardHeld
<1>12. CopierAlone'  BY <1>0, <1>1, <1>7, AloneStays DEF GuardKept
<1>13. BeforeGeneration'  BY <1>8, <1>10 DEF BeforeGeneration
<1>14. GuardKept'  BY <1>11, <1>12, <1>13 DEF GuardKept
<1> QED  BY <1>6, <1>9, <1>14 DEF GenericInv

(* Whoever comes to rest gives up what it counted.                          *)
LEMMA RestStep ==
  ASSUME GenericInv, NEW p \in Checkers, checker' = [checker EXCEPT ![p] = Resting],
         UNCHANGED <<userRules, backup, tally, guarded, planned, generated, copier, incidents>>,
         AnyGeneration \/ ~Untouched \/ (unconfirmed' => unconfirmed)
  PROVE  GenericInv'
<1>0. GenericTypes /\ CountsKept /\ RewritesKept /\ GuardKept  BY DEF GenericInv
<1>1. Resting \in CheckerStates /\ Resting.at = "idle" /\ \A t \in Types : Resting.tally[t] = 0
  BY DEF Resting, CheckerStates, Places, NoRules, Rules, NoneGenerated, RuleFiles, TypeTallies
<1>2. PICK c \in CheckerStates : c = Resting  BY <1>1
<1>3. /\ checker' \in [Checkers -> CheckerStates] /\ checker'[p] = c
      /\ \A q \in Checkers \ {p} : checker'[q] = checker[q]
  BY <1>0, <1>2, CheckerSet
<1>4. c.at = "idle" /\ \A t \in Types : c.tally[t] = 0  BY <1>1, <1>2
<1>5. GenericTypes'
  <2>1. \A q \in Checkers : checker'[q].at \in {"tally", "copy", "read", "truncate", "write", "tidy"} =>
          checker'[q].plan \in Types
    <3> TAKE q \in Checkers
    <3>1. CASE q = p  BY <3>1, <1>3, <1>4
    <3>2. CASE q # p
      <4>1. checker'[q] = checker[q]  BY <3>2, <1>3
      <4> QED  BY <4>1, <1>0 DEF GenericTypes
    <3> QED  BY <3>1, <3>2
  <2> QED  BY <2>1, <1>3, <1>0 DEF GenericTypes, CheckerStates
<1>6. CountsKept'
  <2>1. \A t \in Types : p \notin Counting(t)'  BY <1>3, <1>4 DEF Counting
  <2>2. \A t \in Types : checker'[p].tally[t] \in {0, checker[p].tally[t]}  BY <1>3, <1>4
  <2>3. checker'[p].at # "copy"  BY <1>3, <1>4
  <2> QED  BY <1>0, <1>3, <1>5, <2>1, <2>2, <2>3, CountsLeave
<1>7. RewritesKept' /\ GuardKept'
  <2>1. ~Rewrites(p)'  BY <1>3, <1>4 DEF Rewrites
  <2> QED  BY <2>1, <1>0, <1>3, PlainStep
<1> QED  BY <1>5, <1>6, <1>7 DEF GenericInv

(* Without a generation the user's rules refuse what is not confirmed.      *)
LEMMA CheckStep ==
  ASSUME GenericInv, NEW p \in Checkers, Check(p)
  PROVE  GenericInv'
<1>1. /\ checker' = [checker EXCEPT ![p] = Resting]
      /\ UNCHANGED <<userRules, backup, tally, guarded, planned, generated, copier, incidents>>
      /\ unconfirmed' = (unconfirmed \/
           (guarded /\ ~confirmed /\ Approved(userRules, checker[p].plan, confirmed)))
  BY DEF Check, initVars
<1>2. ASSUME ~AnyGeneration, Untouched PROVE unconfirmed' => unconfirmed
  <2>1. ~unconfirmed /\ (guarded => userRules.guards)  BY <1>2 DEF GenericInv, GuardKept, BeforeGeneration
  <2>2. ~(guarded /\ ~confirmed /\ Approved(userRules, checker[p].plan, confirmed))
    BY <2>1 DEF Approved, RefusesR01
  <2> QED  BY <1>1, <2>2
<1> QED  BY <1>1, <1>2, RestStep

(* The files that the module writes whole are rule files.                   *)
LEMMA KnownFiles ==
  /\ NoRules \in RuleFiles /\ EmptyRules \in RuleFiles /\ DefaultRules \in RuleFiles
  /\ TemplateRules \in RuleFiles /\ MASRules \in RuleFiles
  /\ \A r \in RuleFiles : /\ Rules("list", TRUE, r.gen) \in RuleFiles /\ CutShort(r) \subseteq RuleFiles
                          /\ r.form # "absent" => \A c \in CutShort(r) : c.form # "absent"
BY DEF NoRules, EmptyRules, DefaultRules, TemplateRules, MASRules, CutShort, Rules, NoneGenerated,
       RuleFiles, TypeTallies

(* A death in the write of a generation leaves R01 in the copy, one in the  *)
(* copying of the rules leaves it in them.                                  *)
LEMMA DiesStep ==
  ASSUME GenericInv, NEW p \in Checkers, CheckerDies(p)
  PROVE  GenericInv'
<1>0. GenericTypes /\ CountsKept /\ RewritesKept /\ GuardKept  BY DEF GenericInv
<1>1. /\ checker' = [checker EXCEPT ![p] = Resting]
      /\ userRules' = userRules \/ (checker[p].at = "write" /\ userRules' \in CutShort(checker[p].rules))
      /\ \/ tally' = tally
         \/ checker[p].at \in {"tally", "tidy"} /\ tally' = [t \in Types |-> 0]
      /\ \/ backup' = backup /\ generated' = generated
         \/ /\ checker[p].at = "copy" /\ userRules.form # "absent" /\ backup' \in CutShort(userRules)
            /\ generated' = [generated EXCEPT ![checker[p].plan] = @ + 1]
      /\ copier' = copier /\ incidents' = incidents /\ guarded' = guarded /\ planned' = planned
      /\ unconfirmed' = unconfirmed
  BY DEF CheckerDies, initVars
<1>2. Resting \in CheckerStates /\ Resting.at = "idle" /\ \A t \in Types : Resting.tally[t] = 0
  BY DEF Resting, CheckerStates, Places, NoRules, Rules, NoneGenerated, RuleFiles, TypeTallies
<1>3. PICK c \in CheckerStates : c = Resting  BY <1>2
<1>4. /\ checker' \in [Checkers -> CheckerStates] /\ checker'[p] = c
      /\ \A q \in Checkers \ {p} : checker'[q] = checker[q]
  BY <1>0, <1>1, <1>3, CheckerSet
<1>5. c.at = "idle" /\ \A t \in Types : c.tally[t] = 0  BY <1>2, <1>3
<1>6. /\ checker[p] \in CheckerStates /\ checker[p].rules \in RuleFiles
      /\ checker[p].at \in {"tally", "copy", "read", "truncate", "write", "tidy"} => checker[p].plan \in Types
  BY <1>0 DEF GenericTypes, CheckerStates
<1>7. GenericTypes'
  <2>1. \A q \in Checkers : checker'[q].at \in {"tally", "copy", "read", "truncate", "write", "tidy"} =>
          checker'[q].plan \in Types
    <3> TAKE q \in Checkers
    <3>1. CASE q = p  BY <3>1, <1>4, <1>5
    <3>2. CASE q # p
      <4>1. checker'[q] = checker[q]  BY <3>2, <1>4
      <4> QED  BY <4>1, <1>0 DEF GenericTypes
    <3> QED  BY <3>1, <3>2
  <2>2. userRules' \in RuleFiles /\ backup' \in RuleFiles
    BY <1>0, <1>1, <1>6, KnownFiles DEF GenericTypes
  <2>3. tally' # NoTally => tally' \in TypeTallies  BY <1>0, <1>1 DEF GenericTypes, TypeTallies
  <2>4. generated' \in TypeTallies
    <3>1. CASE generated' = generated  BY <3>1, <1>0 DEF GenericTypes
    <3>2. CASE checker[p].at = "copy" /\ generated' = [generated EXCEPT ![checker[p].plan] = @ + 1]
      BY <3>2, <1>0, <1>6 DEF GenericTypes, TypeTallies
    <3> QED  BY <1>1, <3>1, <3>2
  <2> QED  BY <2>1, <2>2, <2>3, <2>4, <1>0, <1>1, <1>4 DEF GenericTypes, CheckerStates
<1>8. \A q \in Checkers : Rewrites(q)' => q # p /\ Rewrites(q) /\ checker'[q] = checker[q]
  BY <1>4, <1>5 DEF Rewrites
<1>9. \A t \in Types : checker'[p].tally[t] \in {0, checker[p].tally[t]}  BY <1>4, <1>5
<1>10. CopierAlone'  BY <1>0, <1>1, <1>8, AloneStays DEF GuardKept
<1>11. CASE backup' = backup /\ generated' = generated
  <2>1. CountsKept'
    <3>1. \A t \in Types : p \notin Counting(t)'  BY <1>4, <1>5 DEF Counting
    <3>2. checker'[p].at # "copy"  BY <1>4, <1>5
    <3>3. tally' = tally \/ \A t \in Types : tally'[t] \in {0, checker[p].tally[t]}  BY <1>1
    <3> QED  BY <1>0, <1>1, <1>4, <1>7, <1>9, <1>11, <3>1, <3>2, <3>3, CountsLeave
  <2>2. CASE userRules' = userRules
    <3>1. ~Rewrites(p)'  BY <1>8
    <3>2. RewritesKept' /\ GuardKept'  BY <3>1, <2>2, <1>0, <1>1, <1>4, <1>11, PlainStep
    <3> QED  BY <3>2, <2>1, <1>7 DEF GenericInv
  <2>3. CASE checker[p].at = "write" /\ userRules' \in CutShort(checker[p].rules)
    <3>1. Rewrites(p) /\ checker[p].rules.form = "list"  BY <2>3, <1>0 DEF Rewrites, RewritesKept
    <3>2. userRules'.form # "absent"  BY <3>1, <2>3, <1>6, KnownFiles
    <3>3. (SeveralGenerations' <=> SeveralGenerations) /\ (AnyGeneration' <=> AnyGeneration)
      BY <1>11 DEF SeveralGenerations, AnyGeneration
    <3>4. AnyGeneration
      <4>1. generated[checker[p].plan] > 0 /\ checker[p].plan \in Types
        BY <1>0, <2>3, <1>6, <3>1 DEF RewritesKept
      <4> QED  BY <4>1 DEF AnyGeneration
    <3>5. RewritesKept'
      <4>1. \A q \in Checkers : Rewrites(q)' => generated'[checker'[q].plan] > 0 /\ userRules'.form # "absent"
        BY <1>8, <1>11, <3>2, <1>0 DEF RewritesKept
      <4>2. \A q, u \in Checkers : q # u /\ Rewrites(q)' /\ Rewrites(u)' => SeveralGenerations'
        BY <1>8, <3>3, <1>0 DEF RewritesKept
      <4>3. \A q \in Checkers : checker'[q].at \in {"truncate", "write"} => checker'[q].rules.form = "list"
        <5> TAKE q \in Checkers
        <5> HAVE checker'[q].at \in {"truncate", "write"}
        <5>1. checker'[q] = checker[q]  BY <1>4, <1>5
        <5> QED  BY <5>1, <1>0 DEF RewritesKept
      <4> QED  BY <4>1, <4>2, <4>3, <3>2 DEF RewritesKept
    <3>6. GuardHeld'
      <4> SUFFICES ASSUME guarded', ~SeveralGenerations', NeitherCut'
                   PROVE  backup'.guards /\ \A q \in Checkers : RulesInHand(q)'
        BY DEF GuardHeld
      <4>1. RulesInHand(p)  BY <3>3, <1>0, <1>1 DEF GuardKept, GuardHeld, NeitherCut
      <4>2. backup'.guards  BY <4>1, <3>1, <1>11 DEF RulesInHand
      <4>3. \A q \in Checkers : ~Rewrites(q)'
        <5> TAKE q \in Checkers
        <5> SUFFICES ASSUME Rewrites(q)' PROVE FALSE  OBVIOUS
        <5> QED  BY <1>8, <3>1, <3>3, <1>0 DEF RewritesKept
      <4> QED  BY <4>2, <4>3 DEF RulesInHand, Rewrites
    <3>7. BeforeGeneration'  BY <3>3, <3>4 DEF BeforeGeneration
    <3> QED  BY <3>5, <3>6, <3>7, <2>1, <1>7, <1>10 DEF GenericInv, GuardKept
  <2> QED  BY <1>1, <2>2, <2>3
<1>12. CASE /\ checker[p].at = "copy" /\ userRules.form # "absent"
            /\ generated' = [generated EXCEPT ![checker[p].plan] = @ + 1]
  <2>1. PICK a \in Types : a = checker[p].plan  BY <1>6, <1>12
  <2>2. userRules' = userRules /\ tally' = tally  BY <1>1, <1>12
  <2>3. /\ CountsKept' /\ AnyGeneration' /\ (AnyGeneration => SeveralGenerations')
        /\ \A t \in Types : generated[t] > 0 => generated'[t] > 0
    <3>1. checker'[p].at \in {"idle", "read"}  BY <1>4, <1>5
    <3> QED  BY <1>0, <1>1, <1>4, <1>7, <1>9, <1>12, <2>1, <2>2, <3>1, GenerationCounts
  <2>4. \A q \in Checkers : Rewrites(q) => AnyGeneration
    <3> TAKE q \in Checkers
    <3> HAVE Rewrites(q)
    <3>1. generated[checker[q].plan] > 0 /\ checker[q].plan \in Types
      BY <1>0 DEF RewritesKept, GenericTypes, Rewrites
    <3> QED  BY <3>1 DEF AnyGeneration
  <2>5. RewritesKept'
    <3>1. \A q \in Checkers : Rewrites(q)' => generated'[checker'[q].plan] > 0 /\ userRules'.form # "absent"
      <4> TAKE q \in Checkers
      <4> HAVE Rewrites(q)'
      <4>1. Rewrites(q) /\ checker'[q] = checker[q] /\ checker[q].plan \in Types
        BY <1>0, <1>8 DEF GenericTypes, Rewrites
      <4> QED  BY <4>1, <2>2, <2>3, <1>12, <1>0 DEF RewritesKept
    <3>2. \A q, u \in Checkers : q # u /\ Rewrites(q)' /\ Rewrites(u)' => SeveralGenerations'
      BY <1>8, <2>3, <2>4
    <3>3. \A q \in Checkers : checker'[q].at \in {"truncate", "write"} => checker'[q].rules.form = "list"
      <4> TAKE q \in Checkers
      <4> HAVE checker'[q].at \in {"truncate", "write"}
      <4>1. checker'[q] = checker[q]  BY <1>4, <1>5
      <4> QED  BY <4>1, <1>0 DEF RewritesKept
    <3> QED  BY <3>1, <3>2, <3>3, <2>2, <1>12 DEF RewritesKept
  <2>6. GuardHeld'
    <3> SUFFICES ASSUME guarded', ~SeveralGenerations', NeitherCut'
                 PROVE  (userRules'.guards \/ copier'.guards) /\ \A q \in Checkers : RulesInHand(q)'
      BY DEF GuardHeld
    <3>1. ~AnyGeneration /\ NeitherCut  BY <1>1, <2>3 DEF NeitherCut
    <3>2. userRules.guards \/ copier.guards
      BY <3>1, <1>0, <1>1 DEF GuardKept, BeforeGeneration
    <3>3. \A q \in Checkers : ~Rewrites(q)'  BY <3>1, <1>8, <2>4
    <3> QED  BY <3>2, <3>3, <2>2, <1>1 DEF RulesInHand, Rewrites
  <2>7. BeforeGeneration'  BY <2>3 DEF BeforeGeneration
  <2> QED  BY <2>3, <2>5, <2>6, <2>7, <1>7, <1>10 DEF GenericInv, GuardKept
<1> QED  BY <1>1, <1>11, <1>12

(* What the checkers do is not touched by the user and dev_generic_init.    *)
LEMMA OutsideKeeps ==
  ASSUME GenericInv, UNCHANGED <<backup, tally, checker, planned, generated>>,
         userRules' \in RuleFiles, copier' \in RuleFiles, guarded' => userRules'.form # "absent",
         userRules.form # "absent" => userRules'.form # "absent"
  PROVE  /\ GenericTypes' /\ CountsKept' /\ RewritesKept'
         /\ (SeveralGenerations' <=> SeveralGenerations) /\ (AnyGeneration' <=> AnyGeneration)
         /\ \A p \in Checkers : Rewrites(p)' <=> Rewrites(p)
<1>0. GenericTypes /\ CountsKept /\ RewritesKept  BY DEF GenericInv
<1>1. GenericTypes'  BY <1>0 DEF GenericTypes
<1>2. CountsKept'
  <2>1. \A t \in Types : Spent(t)' = Spent(t)  BY DEF Spent, Counting
  <2> QED  BY <1>0, <2>1 DEF CountsKept, Backed
<1>3. (SeveralGenerations' <=> SeveralGenerations) /\ (AnyGeneration' <=> AnyGeneration)
  BY DEF SeveralGenerations, AnyGeneration
<1>4. \A p \in Checkers : Rewrites(p)' <=> Rewrites(p)  BY DEF Rewrites
<1>5. RewritesKept'
  <2>1. \A p, q \in Checkers : p # q /\ Rewrites(p)' /\ Rewrites(q)' => SeveralGenerations'
    BY <1>0, <1>3, <1>4 DEF RewritesKept
  <2>2. \A p \in Checkers : Rewrites(p)' => generated'[checker'[p].plan] > 0 /\ userRules'.form # "absent"
    BY <1>0, <1>4 DEF RewritesKept
  <2> QED  BY <1>0, <2>1, <2>2 DEF RewritesKept
<1> QED  BY <1>1, <1>2, <1>3, <1>4, <1>5

(* Nobody rewrites rules while only the user writes.                        *)
LEMMA EditStep ==
  ASSUME GenericInv, UserEdits
  PROVE  GenericInv'
<1>0. GenericTypes /\ GuardKept  BY DEF GenericInv
<1>1. /\ userRules' = Rules("list", TRUE, userRules.gen) /\ guarded' = TRUE /\ copier' = copier
      /\ incidents' = incidents \cup Overlapping(Generating \/ copier # NoRules)
      /\ backup' = backup /\ tally' = tally /\ checker' = checker /\ planned' = planned
      /\ generated' = generated /\ unconfirmed' = unconfirmed
  BY DEF UserEdits
<1>2. userRules' \in RuleFiles /\ copier' \in RuleFiles  BY <1>0, <1>1, KnownFiles DEF GenericTypes
<1>3. userRules'.form = "list" /\ userRules'.guards  BY <1>1 DEF Rules
<1>4. /\ GenericTypes' /\ CountsKept' /\ RewritesKept'
      /\ (SeveralGenerations' <=> SeveralGenerations) /\ (AnyGeneration' <=> AnyGeneration)
      /\ \A p \in Checkers : Rewrites(p)' <=> Rewrites(p)
  BY <1>1, <1>2, <1>3, OutsideKeeps
<1>5. "overlap" \notin incidents' => (\A p \in Checkers : ~Rewrites(p)) /\ copier = NoRules
  BY <1>1 DEF Overlapping, Generating, Rewrites
<1>6. GuardHeld'
  <2> SUFFICES ASSUME NeitherCut' PROVE \A p \in Checkers : RulesInHand(p)'  BY <1>3 DEF GuardHeld
  <2>1. \A p \in Checkers : ~Rewrites(p)'  BY <1>4, <1>5 DEF NeitherCut
  <2> QED  BY <2>1 DEF RulesInHand, Rewrites
<1>7. CopierAlone'
  <2>1. NoRules' = NoRules /\ incidents \subseteq incidents'
    BY <1>1 DEF NoRules, Rules, NoneGenerated
  <2> QED  BY <2>1, <1>0, <1>1, <1>5 DEF GuardKept, CopierAlone
<1>8. BeforeGeneration'
  <2>1. Untouched' => Untouched  BY <1>1 DEF Untouched
  <2> QED  BY <2>1, <1>0, <1>1, <1>3, <1>4 DEF GuardKept, BeforeGeneration
<1> QED  BY <1>4, <1>6, <1>7, <1>8 DEF GenericInv, GuardKept

(* dev_generic_init opens rules.yaml to copy rules with R01 over it, or     *)
(* there is none.                                                           *)
LEMMA InitOpensStep ==
  ASSUME GenericInv, InitOpens
  PROVE  GenericInv'
<1>0. GenericTypes /\ RewritesKept /\ GuardKept  BY DEF GenericInv
<1>1. /\ copier = NoRules /\ userRules' = EmptyRules /\ guarded' = guarded
      /\ copier' \in (IF userRules.form = "absent" THEN {TemplateRules, DefaultRules} ELSE {MASRules})
      /\ incidents' = incidents \cup (IF userRules.form = "absent" THEN {} ELSE {"copied"})
                                \cup Overlapping(Generating)
      /\ backup' = backup /\ tally' = tally /\ checker' = checker /\ planned' = planned
      /\ generated' = generated /\ unconfirmed' = unconfirmed
  BY DEF InitOpens
<1>2. userRules' \in RuleFiles /\ copier' \in RuleFiles  BY <1>1, KnownFiles
<1>3. userRules'.form = "empty" /\ copier'.form # "absent"
  BY <1>1 DEF EmptyRules, TemplateRules, DefaultRules, MASRules, Rules
<1>4. /\ GenericTypes' /\ CountsKept' /\ RewritesKept'
      /\ (SeveralGenerations' <=> SeveralGenerations) /\ (AnyGeneration' <=> AnyGeneration)
      /\ \A p \in Checkers : Rewrites(p)' <=> Rewrites(p)
  BY <1>1, <1>2, <1>3, OutsideKeeps
<1>5. "overlap" \notin incidents' => \A p \in Checkers : ~Rewrites(p)
  BY <1>1 DEF Overlapping, Generating, Rewrites
<1>6. guarded' => copier'.guards /\ "copied" \in incidents'
  BY <1>0, <1>1 DEF RewritesKept, MASRules, Rules
<1>7. GuardHeld'
  <2> SUFFICES ASSUME NeitherCut' PROVE \A p \in Checkers : RulesInHand(p)'  BY <1>6 DEF GuardHeld
  <2>1. \A p \in Checkers : ~Rewrites(p)'  BY <1>4, <1>5 DEF NeitherCut
  <2> QED  BY <2>1 DEF RulesInHand, Rewrites
<1>8. CopierAlone'
  <2>1. copier'.guards => "copied" \in incidents'
    BY <1>1 DEF TemplateRules, DefaultRules, MASRules, Rules
  <2> QED  BY <2>1, <1>3, <1>4, <1>5, <1>6 DEF CopierAlone
<1>9. BeforeGeneration'
  <2>1. Untouched' => Untouched /\ ~guarded'  BY <1>1, <1>6 DEF Untouched
  <2> QED  BY <2>1, <1>0, <1>1, <1>4, <1>6 DEF GuardKept, BeforeGeneration
<1> QED  BY <1>4, <1>7, <1>8, <1>9 DEF GenericInv, GuardKept

(* What it writes asks for confirmations where R01 was.                     *)
LEMMA InitWritesStep ==
  ASSUME GenericInv, InitWrites
  PROVE  GenericInv'
<1>0. GenericTypes /\ RewritesKept /\ GuardKept  BY DEF GenericInv
<1>1. /\ copier # NoRules /\ userRules' = copier /\ guarded' = (guarded \/ copier.guards)
      /\ copier' = NoRules /\ incidents' = incidents
      /\ backup' = backup /\ tally' = tally /\ checker' = checker /\ planned' = planned
      /\ generated' = generated /\ unconfirmed' = unconfirmed
  BY DEF InitWrites
<1>2. userRules' \in RuleFiles /\ copier' \in RuleFiles  BY <1>0, <1>1, KnownFiles DEF GenericTypes
<1>3. userRules'.form # "absent"  BY <1>0, <1>1 DEF GuardKept, CopierAlone
<1>4. /\ GenericTypes' /\ CountsKept' /\ RewritesKept'
      /\ (SeveralGenerations' <=> SeveralGenerations) /\ (AnyGeneration' <=> AnyGeneration)
      /\ \A p \in Checkers : Rewrites(p)' <=> Rewrites(p)
  BY <1>1, <1>2, <1>3, OutsideKeeps
<1>5. "overlap" \notin incidents' =>
        (\A p \in Checkers : ~Rewrites(p)') /\ (guarded' => userRules'.guards)
  BY <1>0, <1>1, <1>4 DEF GuardKept, CopierAlone
<1>6. GuardHeld'
  <2> SUFFICES ASSUME guarded', NeitherCut' PROVE userRules'.guards /\ \A p \in Checkers : RulesInHand(p)'
    BY DEF GuardHeld
  <2>1. "overlap" \notin incidents'  BY DEF NeitherCut
  <2> QED  BY <2>1, <1>5 DEF RulesInHand, Rewrites
<1>7. CopierAlone'
  <2>1. NoRules' = NoRules /\ ~copier'.guards  BY <1>1 DEF NoRules, Rules, NoneGenerated
  <2> QED  BY <2>1, <1>1 DEF CopierAlone
<1>8. BeforeGeneration'
  BY <1>0, <1>1, <1>4, <1>5 DEF GuardKept, BeforeGeneration, NeitherCut, Untouched
<1> QED  BY <1>4, <1>6, <1>7, <1>8 DEF GenericInv, GuardKept

(* Cut, it has copied over rules, or there were none.                       *)
LEMMA InitDiesStep ==
  ASSUME GenericInv, InitDies
  PROVE  GenericInv'
<1>0. GenericTypes /\ RewritesKept /\ GuardKept  BY DEF GenericInv
<1>1. /\ copier # NoRules /\ userRules' \in CutShort(copier) /\ guarded' = guarded
      /\ copier' = NoRules /\ incidents' = incidents \cup {"cut"}
      /\ backup' = backup /\ tally' = tally /\ checker' = checker /\ planned' = planned
      /\ generated' = generated /\ unconfirmed' = unconfirmed
  BY DEF InitDies
<1>2. userRules' \in RuleFiles /\ copier' \in RuleFiles  BY <1>0, <1>1, KnownFiles DEF GenericTypes
<1>3. userRules'.form # "absent"
  BY <1>0, <1>1, KnownFiles DEF GuardKept, CopierAlone, GenericTypes
<1>4. /\ GenericTypes' /\ CountsKept' /\ RewritesKept'
      /\ (SeveralGenerations' <=> SeveralGenerations) /\ (AnyGeneration' <=> AnyGeneration)
      /\ \A p \in Checkers : Rewrites(p)' <=> Rewrites(p)
  BY <1>1, <1>2, <1>3, OutsideKeeps
<1>5. ~NeitherCut' /\ (Untouched' => Untouched)  BY <1>1 DEF NeitherCut, Untouched
<1>6. CopierAlone'
  <2>1. NoRules' = NoRules /\ ~copier'.guards  BY <1>1 DEF NoRules, Rules, NoneGenerated
  <2> QED  BY <2>1, <1>1 DEF CopierAlone
<1>7. BeforeGeneration'
  <2>1. Untouched => ~guarded
    <3>1. Untouched => "overlap" \notin incidents /\ "copied" \notin incidents  BY DEF Untouched
    <3> QED  BY <3>1, <1>0, <1>1 DEF GuardKept, CopierAlone
  <2> QED  BY <2>1, <1>0, <1>1, <1>4, <1>5 DEF GuardKept, BeforeGeneration
<1>8. GuardHeld'  BY <1>5 DEF GuardHeld
<1> QED  BY <1>4, <1>6, <1>7, <1>8 DEF GenericInv, GuardKept

(* What the tallies start with was planned before.                          *)
LEMMA GenericStarts == GenericInit => GenericInv
<1> SUFFICES ASSUME GenericInit PROVE GenericInv  OBVIOUS
<1>1. /\ userRules = NoRules /\ backup = NoRules /\ tally \in {NoTally} \cup TypeTallies
      /\ guarded = FALSE /\ unconfirmed = FALSE /\ copier = NoRules
      /\ \A p \in Checkers : checker[p] = Resting
      /\ generated = [t \in Types |-> 0]
      /\ planned = IF tally = NoTally THEN [t \in Types |-> 0] ELSE tally
  BY GenericAssumption DEF GenericInit, TypeTallies
<1>2. /\ Resting \in CheckerStates /\ Resting.at = "idle" /\ \A t \in Types : Resting.tally[t] = 0
      /\ NoRules \in RuleFiles /\ NoRules.form = "absent"
  BY DEF Resting, CheckerStates, Places, NoRules, Rules, NoneGenerated, RuleFiles, TypeTallies
<1>3. GenericTypes
  <2>1. checker = [p \in Checkers |-> Resting]  BY DEF GenericInit
  <2>2. checker \in [Checkers -> CheckerStates]  BY <2>1, <1>2
  <2>3. planned \in TypeTallies /\ generated \in TypeTallies  BY <1>1 DEF TypeTallies
  <2> QED  BY <1>1, <1>2, <2>2, <2>3 DEF GenericTypes, CheckerStates
<1>4. \A t \in Types : Spent(t) = planned[t] /\ planned[t] \in Nat
  <2> TAKE t \in Types
  <2>1. Counting(t) = {}  BY <1>1, <1>2 DEF Counting
  <2>2. Cardinality(Counting(t)) = 0  BY <2>1, FS_EmptySet
  <2>3. planned[t] \in Nat /\ generated[t] = 0  BY <1>1, <1>3 DEF GenericTypes, TypeTallies
  <2> QED  BY <2>2, <2>3 DEF Spent
<1>5. CountsKept
  <2>1. \A t \in Types : Spent(t) >= 0 /\ ~(generated[t] > 0)  BY <1>1, <1>4
  <2>2. tally # NoTally => \A t \in Types : Backed(tally[t], t)  BY <1>1, <1>4 DEF Backed
  <2>3. \A p \in Checkers : \A t \in Types : Backed(checker[p].tally[t], t)
    BY <1>1, <1>2, <2>1 DEF Backed
  <2>4. \A p \in Checkers : checker[p].at # "copy"  BY <1>1, <1>2
  <2> QED  BY <2>1, <2>2, <2>3, <2>4 DEF CountsKept
<1>6. RewritesKept  BY <1>1, <1>2 DEF RewritesKept, Rewrites
<1>7. GuardKept
  <2>1. ~copier.guards  BY <1>1 DEF NoRules, Rules
  <2> QED  BY <1>1, <2>1 DEF GuardKept, GuardHeld, CopierAlone, BeforeGeneration
<1> QED  BY <1>3, <1>5, <1>6, <1>7 DEF GenericInv

(* check_strikes() and generiere_rule(), however the processes interleave,  *)
(* die and lose counts, and whatever the user and dev_generic_init write    *)
(* beside them: R01 refuses until a rule is generated or rules.yaml copied  *)
(* over, R01 is in the file or its copy until a second rule is generated or *)
(* a write of dev_generic_init cut or met by another, and every generated   *)
(* rule took two planned actions beside its own.                            *)
THEOREM GenericAlwaysSound == GenericSpec => []GenericSound
<1>1. GenericInit => GenericInv  BY GenericStarts
<1>2. GenericInv /\ [GenericNext]_genericVars => GenericInv'
  <2> SUFFICES ASSUME GenericInv, [GenericNext]_genericVars PROVE GenericInv'  OBVIOUS
  <2>1. CASE Confirm \/ UNCHANGED genericVars
    <3>0. GenericTypes /\ CountsKept /\ RewritesKept /\ GuardKept  BY DEF GenericInv
    <3>1. /\ userRules' = userRules /\ backup' = backup /\ tally' = tally
          /\ checker' = checker /\ guarded' = guarded /\ planned' = planned
          /\ generated' = generated /\ unconfirmed' = unconfirmed
          /\ copier' = copier /\ incidents' = incidents
      BY <2>1 DEF genericVars, Confirm, initVars
    <3>2. GenericTypes' /\ CountsKept' /\ RewritesKept'
      BY <3>0, <3>1, OutsideKeeps DEF GenericTypes, RewritesKept
    <3>3. (SeveralGenerations' <=> SeveralGenerations) /\ (AnyGeneration' <=> AnyGeneration)
      BY <3>1 DEF SeveralGenerations, AnyGeneration
    <3>4. GuardHeld'
      BY <3>0, <3>1, <3>3 DEF GuardKept, GuardHeld, NeitherCut, RulesInHand, Rewrites
    <3>5. CopierAlone'  BY <3>0, <3>1, AloneStays DEF GuardKept, Rewrites
    <3>6. BeforeGeneration'
      BY <3>0, <3>1, <3>3 DEF GuardKept, BeforeGeneration, NeitherCut, Untouched
    <3> QED  BY <3>2, <3>4, <3>5, <3>6 DEF GenericInv, GuardKept
  <2>2. CASE UserEdits \/ InitOpens \/ InitWrites \/ InitDies
    BY <2>2, EditStep, InitOpensStep, InitWritesStep, InitDiesStep
  <2>3. ASSUME NEW p \in Checkers, NEW a \in Plans, PlanAction(p, a) PROVE GenericInv'
    BY <2>3, PlanActionStep
  <2>4. ASSUME NEW p \in Checkers, Copy(p) PROVE GenericInv'  BY <2>4, CopyStep
  <2>5. ASSUME NEW p \in Checkers, ReadRules(p) PROVE GenericInv'  BY <2>5, ReadRulesStep
  <2>6. ASSUME NEW p \in Checkers, TruncateRules(p) PROVE GenericInv'
    BY <2>6, TruncateRulesStep
  <2>7. ASSUME NEW p \in Checkers, WriteRules(p) PROVE GenericInv'  BY <2>7, WriteRulesStep
  <2>8. ASSUME NEW p \in Checkers, CheckerDies(p) PROVE GenericInv'
    BY <2>8, DiesStep
  <2> QED
    BY <2>1, <2>2, <2>3, <2>4, <2>5, <2>6, <2>7, <2>8, CountStep, SaveTallyStep, TidyStep,
       CheckStep DEF GenericNext
<1>3. GenericInv => GenericSound
  <2> SUFFICES ASSUME GenericInv PROVE GenericSound  OBVIOUS
  <2>1. UnconfirmedNeedsGeneration
    BY DEF GenericInv, GuardKept, BeforeGeneration, Untouched, UnconfirmedNeedsGeneration
  <2>2. OneGenerationLosesNothing
    BY DEF GenericInv, GuardKept, GuardHeld, NeitherCut, OneGenerationLosesNothing
  <2>3. GeneratedWasCounted
    <3> SUFFICES ASSUME NEW t \in Types, generated[t] > 0 PROVE generated[t] <= planned[t] - 2
      BY DEF GeneratedWasCounted
    <3>1. Spent(t) >= 2  BY DEF GenericInv, CountsKept
    <3>2. IsFiniteSet(Counting(t))  BY GenericAssumption, FS_Subset DEF Counting
    <3>3. PICK k \in Nat, l \in Nat, m \in Nat :
            k = planned[t] /\ l = generated[t] /\ m = Cardinality(Counting(t))
      BY <3>2, FS_CardinalityType DEF GenericInv, GenericTypes, TypeTallies
    <3>4. k - l - m >= 2  BY <3>1, <3>3 DEF Spent
    <3>5. l <= k - 2  BY <3>4
    <3> QED  BY <3>3, <3>5
  <2> QED  BY <2>1, <2>2, <2>3 DEF GenericSound
<1> QED  BY <1>1, <1>2, <1>3, PTL DEF GenericSpec

-----------------------------------------------------------------------------
(* The initialization of a project.                                         *)

BaseFiles == {"project.yaml", "guidelines", "checklist", "rules.yaml", "agent_template",
              "tests/__init__", "tests/test_agent_syntax", "workflows.yaml", ".gitignore",
              ".gitattributes", ".goosehints", "dashboards", ".mas-mode"}
OwnFiles == {"other_rules", "changes.json", "audit.log", "confirmation", "health", "knowledge",
             "constitution", "recovery_templates", "sub_agents", "recipes", "mcp"}
Steps == [file : BaseFiles \cup OwnFiles \cup {"tools"}, anew : BOOLEAN,
          copied : BOOLEAN]
Linking == [file |-> "tools", anew |-> FALSE, copied |-> FALSE]
Copying == [file |-> "tools", anew |-> TRUE, copied |-> TRUE]
Commands == [todo : Seq(Steps), for : {"nothing", "init", "bootstrap"}, steps : Seq(Steps)]

\* What may replace a file that the user changed.
Excused(f) ==
  \/ f = "dashboards"
  \/ f = "rules.yaml" /\ "rules" \in chosen
  \/ f = ".mas-mode" /\ "bootstrap" \in chosen
  \/ f \in OwnFiles /\ chosen # {}

SetupTypes ==
  /\ content \in [Modelled -> {"absent", "half", "new", "mine"}]
  /\ tools \in {"absent", "mas", "other", "dangling", "dir", "partial"}
  /\ installed \in BOOLEAN /\ source \in BOOLEAN /\ ported \in BOOLEAN
  /\ init \in Commands
  /\ kills \in Nat /\ changes \in Nat /\ inits \in Nat
  /\ replaced \subseteq Modelled

\* The steps of the running command are steps of the tool.
StepsKnown ==
  /\ init.for = "nothing" => init.todo = <<>>
  /\ \A x \in ToSet(init.todo) :
       /\ x \in {Linking, Copying} \/ x.file \in Modelled
       /\ x.anew /\ x # Copying => Excused(x.file)

\* A step was carried out, or the command has it left.
Covered ==
  /\ \A x \in ToSet(init.steps) :
       /\ x \in {Linking, Copying} \/ x.file \in Modelled
       /\ x \in ToSet(init.todo) \/ Carried(x)
  /\ init.for = "nothing" => init.steps = <<>>
  /\ init.for = "bootstrap" => Copying \in ToSet(init.steps)

\* Only a change from outside makes a link dangle.
OnlyUserBreaks == tools \in {"other", "dangling"} => changes > 0

HalfFiles == {f \in Modelled : content[f] = "half"}

SetupInv ==
  /\ SetupTypes /\ StepsKnown /\ Covered /\ OnlyUserBreaks /\ ToolsStay
  /\ \A f \in replaced : Excused(f)
  /\ Cardinality(HalfFiles) <= kills

(* The steps of a command are those of the functions it calls.              *)
LEMMA JoinedSteps ==
  ASSUME NEW s \in Seq(Steps), NEW t \in Seq(Steps)
  PROVE  s \o t \in Seq(Steps) /\ ToSet(s \o t) = ToSet(s) \cup ToSet(t)
<1>1. /\ s \o t \in Seq(Steps) /\ Len(s \o t) = Len(s) + Len(t)
      /\ \A i \in 1..Len(s) + Len(t) :
           (s \o t)[i] = IF i <= Len(s) THEN s[i] ELSE t[i - Len(s)]
  OBVIOUS
<1>2. \A i \in 1..Len(s) : i \in 1..Len(s) + Len(t) /\ (s \o t)[i] = s[i]  BY <1>1
<1>3. \A i \in 1..Len(t) : i + Len(s) \in 1..Len(s) + Len(t) /\ (s \o t)[i + Len(s)] = t[i]
  BY <1>1
<1>4. \A i \in 1..Len(s) + Len(t) :
        \/ i \in 1..Len(s) /\ (s \o t)[i] = s[i]
        \/ i - Len(s) \in 1..Len(t) /\ (s \o t)[i] = t[i - Len(s)]
  BY <1>1
<1>5. DOMAIN (s \o t) = 1..Len(s) + Len(t) /\ DOMAIN s = 1..Len(s) /\ DOMAIN t = 1..Len(t)
  BY <1>1
<1>6. ToSet(s \o t) \subseteq ToSet(s) \cup ToSet(t)  BY <1>4, <1>5 DEF ToSet
<1>7. ToSet(s) \subseteq ToSet(s \o t)  BY <1>2, <1>5 DEF ToSet
<1>8. ToSet(t) \subseteq ToSet(s \o t)  BY <1>3, <1>5 DEF ToSet
<1> QED  BY <1>1, <1>6, <1>7, <1>8

(* The first step of a command, and what is left after it.                  *)
LEMMA FirstStep ==
  ASSUME NEW s \in Seq(Steps), s # <<>>
  PROVE  /\ Head(s) \in ToSet(s) /\ Head(s) \in Steps /\ Tail(s) \in Seq(Steps)
         /\ ToSet(Tail(s)) \subseteq ToSet(s)
         /\ \A x \in ToSet(s) : x = Head(s) \/ x \in ToSet(Tail(s))
<1>1. /\ Head(s) = s[1] /\ 1 \in DOMAIN s /\ Tail(s) \in Seq(Steps) /\ Head(s) \in Steps
      /\ DOMAIN s = 1..Len(s) /\ DOMAIN Tail(s) = 1..(Len(s) - 1) /\ Len(s) \in Nat
      /\ \A i \in 1..(Len(s) - 1) : Tail(s)[i] = s[i + 1]
  OBVIOUS
<1>2. \A i \in 1..(Len(s) - 1) : i + 1 \in 1..Len(s)  BY <1>1
<1>3. \A i \in 1..Len(s) : i = 1 \/ (i - 1 \in 1..(Len(s) - 1) /\ Tail(s)[i - 1] = s[i])
  BY <1>1
<1>4. Head(s) \in ToSet(s)  BY <1>1 DEF ToSet
<1>5. ToSet(Tail(s)) \subseteq ToSet(s)  BY <1>1, <1>2 DEF ToSet
<1>6. ASSUME NEW x \in ToSet(s) PROVE x = Head(s) \/ x \in ToSet(Tail(s))
  <2>1. PICK i \in 1..Len(s) : x = s[i]  BY <1>1 DEF ToSet
  <2>2. CASE i = 1  BY <2>1, <2>2, <1>1
  <2>3. CASE i # 1
    <3>1. i - 1 \in DOMAIN Tail(s) /\ Tail(s)[i - 1] = x  BY <2>1, <2>3, <1>1, <1>3
    <3> QED  BY <3>1 DEF ToSet
  <2> QED  BY <2>2, <2>3
<1> QED  BY <1>1, <1>4, <1>5, <1>6

(* One step.                                                                *)
LEMMA SingleStep ==
  ASSUME NEW r \in Steps
  PROVE  <<r>> \in Seq(Steps) /\ ToSet(<<r>>) = {r}
BY DEF ToSet

(* A file takes one step if it is in the model.                             *)
LEMMA OneStep ==
  ASSUME NEW f \in BaseFiles \cup OwnFiles, NEW a \in BOOLEAN, NEW c \in BOOLEAN
  PROVE  /\ Step(f, a, c) \in Seq(Steps)
         /\ \A x \in ToSet(Step(f, a, c)) : f \in Modelled /\ x.file = f /\ x.anew = a
<1>1. PICK r : r = [file |-> f, anew |-> a, copied |-> c]  OBVIOUS
<1>2. r \in Steps /\ r.file = f /\ r.anew = a  BY <1>1 DEF Steps
<1>3. <<r>> \in Seq(Steps) /\ ToSet(<<r>>) = {r}  BY <1>2, SingleStep
<1>4. <<>> \in Seq(Steps) /\ ToSet(<<>>) = {}  BY DEF ToSet
<1>5. Step(f, a, c) = IF f \in Modelled THEN <<r>> ELSE <<>>  BY <1>1 DEF Step
<1> QED  BY <1>2, <1>3, <1>4, <1>5

\* The steps s are T at tools/ and others for files of F in the model; only
\* those in A are written again.
Makes(s, T, F, A) ==
  /\ s \in Seq(Steps) /\ T \subseteq ToSet(s)
  /\ \A x \in ToSet(s) : x \in T \/ (x.file \in F \cap Modelled /\ (x.anew => x.file \in A))

(* One function after the other.                                            *)
LEMMA JoinMakes ==
  ASSUME NEW s, NEW t, NEW T, NEW U, NEW F, NEW G, NEW A, NEW B,
         Makes(s, T, F, A), Makes(t, U, G, B)
  PROVE  Makes(s \o t, T \cup U, F \cup G, A \cup B)
<1>1. s \o t \in Seq(Steps) /\ ToSet(s \o t) = ToSet(s) \cup ToSet(t)
  BY JoinedSteps DEF Makes
<1> QED  BY <1>1 DEF Makes

(* Files after files, and tools/ after files.                               *)
LEMMA JoinFiles ==
  ASSUME NEW s, NEW t, NEW T, NEW F, NEW G, NEW A, NEW B,
         Makes(s, T, F, A), Makes(t, {}, G, B)
  PROVE  Makes(s \o t, T, F \cup G, A \cup B)
<1>1. T \cup {} = T  OBVIOUS
<1> QED  BY <1>1, JoinMakes

(* The steps at tools/ add no file.                                         *)
LEMMA JoinTools ==
  ASSUME NEW s, NEW t, NEW U, NEW F, NEW A, Makes(s, {}, F, A), Makes(t, U, {}, {})
  PROVE  Makes(s \o t, U, F, A)
<1>1. F \cup {} = F /\ A \cup {} = A /\ {} \cup U = U  OBVIOUS
<1> QED  BY <1>1, JoinMakes

(* A file that is skipped if it exists, and those that are written again.   *)
LEMMA StepMakes ==
  ASSUME NEW f \in BaseFiles \cup OwnFiles
  PROVE  /\ Makes(Once(f), {}, {f}, {})
         /\ Makes(Anew(f), {}, {f}, {f}) /\ Makes(FromMAS(f), {}, {f}, {f})
<1>1. /\ Once(f) \in Seq(Steps) /\ Anew(f) \in Seq(Steps) /\ FromMAS(f) \in Seq(Steps)
      /\ \A x \in ToSet(Once(f)) : f \in Modelled /\ x.file = f /\ x.anew = FALSE
      /\ \A x \in ToSet(Anew(f)) \cup ToSet(FromMAS(f)) : f \in Modelled /\ x.file = f
  BY OneStep DEF Once, Anew, FromMAS
<1> QED  BY <1>1 DEF Makes

(* The steps at tools/.                                                     *)
LEMMA ToolSteps ==
  /\ Makes(Symlink, {Linking}, {}, {}) /\ Makes(PortTools, {Copying}, {}, {})
  /\ ToSet(PortTools) = {Copying} /\ Head(PortTools) = Copying /\ PortTools # <<>>
  /\ Tail(PortTools) = <<>> /\ Symlink[1] = Linking /\ PortTools[1] = Copying
<1>1. Linking \in Steps /\ Copying \in Steps  BY DEF Linking, Copying, Steps
<1>2. Symlink = <<Linking>> /\ PortTools = <<Copying>>  BY DEF Symlink, PortTools, Linking, Copying
<1>3. /\ <<Linking>> \in Seq(Steps) /\ <<Copying>> \in Seq(Steps)
      /\ ToSet(<<Linking>>) = {Linking} /\ ToSet(<<Copying>>) = {Copying}
  BY <1>1, SingleStep
<1>4. /\ <<Linking>>[1] = Linking /\ <<Copying>>[1] = Copying /\ Head(<<Copying>>) = Copying
      /\ <<Copying>> # <<>> /\ Tail(<<Copying>>) = <<>>
  OBVIOUS
<1> QED  BY <1>2, <1>3, <1>4 DEF Makes

(* A component that was not asked for writes nothing.                       *)
LEMMA ComponentMakes ==
  ASSUME NEW cs, NEW c, NEW s, NEW F, NEW A, Makes(s, {}, F, A)
  PROVE  Makes(Component(cs, c, s), {}, IF c \in cs THEN F ELSE {}, IF c \in cs THEN A ELSE {})
<1>1. Makes(<<>>, {}, {}, {})
  <2>1. <<>> \in Seq(Steps) /\ ToSet(<<>>) = {}  BY DEF ToSet
  <2> QED  BY <2>1 DEF Makes
<1> QED  BY <1>1 DEF Component

\* The steps of a command without components.
BaseSteps ==
  Symlink \o CreateProjectConfig \o CreateGuidelines \o CreateBpChecklist \o CreateRules
    \o CreateAgentTemplate \o CreateTests \o CreateWorkflows \o CreateGitInfrastructure
    \o CreateGoosehints \o CreateDashboardScaffold \o CreateMasMode

(* It writes the files of a project; only the dashboards are written again. *)
LEMMA BaseMakes == Makes(BaseSteps, {Linking}, BaseFiles, {"dashboards"})
<1> DEFINE s1 == Symlink \o CreateProjectConfig
           s2 == s1 \o CreateGuidelines
           s3 == s2 \o CreateBpChecklist
           s4 == s3 \o CreateRules
           s5 == s4 \o CreateAgentTemplate
           s6 == s5 \o CreateTests
           s7 == s6 \o CreateWorkflows
           s8 == s7 \o CreateGitInfrastructure
           s9 == s8 \o CreateGoosehints
           s10 == s9 \o CreateDashboardScaffold
           s11 == s10 \o CreateMasMode
<1>0. BaseSteps = s11  BY DEF BaseSteps
<1>1. /\ Makes(CreateProjectConfig, {}, {"project.yaml"}, {})
      /\ Makes(CreateGuidelines, {}, {"guidelines"}, {})
      /\ Makes(CreateBpChecklist, {}, {"checklist"}, {})
      /\ Makes(CreateRules, {}, {"rules.yaml"}, {})
      /\ Makes(CreateAgentTemplate, {}, {"agent_template"}, {})
      /\ Makes(CreateWorkflows, {}, {"workflows.yaml"}, {})
      /\ Makes(CreateGoosehints, {}, {".goosehints"}, {})
      /\ Makes(CreateDashboardScaffold, {}, {"dashboards"}, {"dashboards"})
      /\ Makes(CreateMasMode, {}, {".mas-mode"}, {})
  BY StepMakes DEF BaseFiles, CreateProjectConfig, CreateGuidelines, CreateBpChecklist,
       CreateRules, CreateAgentTemplate, CreateWorkflows, CreateGoosehints,
       CreateDashboardScaffold, CreateMasMode
<1>2. Makes(CreateTests, {} \cup {}, {"tests/__init__"} \cup {"tests/test_agent_syntax"}, {} \cup {})
  BY StepMakes, JoinMakes DEF BaseFiles, CreateTests
<1>3. Makes(CreateGitInfrastructure, {} \cup {}, {".gitignore"} \cup {".gitattributes"}, {} \cup {})
  BY StepMakes, JoinMakes DEF BaseFiles, CreateGitInfrastructure
<1> DEFINE F1 == {} \cup {"project.yaml"}
           F2 == F1 \cup {"guidelines"}
           F3 == F2 \cup {"checklist"}
           F4 == F3 \cup {"rules.yaml"}
           F5 == F4 \cup {"agent_template"}
           F6 == F5 \cup ({"tests/__init__"} \cup {"tests/test_agent_syntax"})
           F7 == F6 \cup {"workflows.yaml"}
           F8 == F7 \cup ({".gitignore"} \cup {".gitattributes"})
           F9 == F8 \cup {".goosehints"}
           F10 == F9 \cup {"dashboards"}
           F11 == F10 \cup {".mas-mode"}
           L == {Linking} \cup {}
           L1 == L \cup ({} \cup {})
<1>4. F11 = BaseFiles  BY DEF BaseFiles
<1>5. {} \cup {} = {} /\ L = {Linking} /\ L1 = {Linking} /\ {} \cup {"dashboards"} = {"dashboards"}
      /\ {"dashboards"} \cup {} = {"dashboards"} /\ {Linking} \cup {} = {Linking}
  OBVIOUS
<1>6. Makes(s1, {Linking}, F1, {})  BY <1>1, <1>5, ToolSteps, JoinMakes
<1> HIDE DEF s1, F1
<1>7. Makes(s2, {Linking}, F2, {})  BY <1>1, <1>5, <1>6, JoinMakes
<1> HIDE DEF s2, F2
<1>8. Makes(s3, {Linking}, F3, {})  BY <1>1, <1>5, <1>7, JoinMakes
<1> HIDE DEF s3, F3
<1>9. Makes(s4, {Linking}, F4, {})  BY <1>1, <1>5, <1>8, JoinMakes
<1> HIDE DEF s4, F4
<1>10. Makes(s5, {Linking}, F5, {})  BY <1>1, <1>5, <1>9, JoinMakes
<1> HIDE DEF s5, F5
<1>11. Makes(s6, {Linking}, F6, {})  BY <1>2, <1>5, <1>10, JoinMakes
<1> HIDE DEF s6, F6
<1>12. Makes(s7, {Linking}, F7, {})  BY <1>1, <1>5, <1>11, JoinMakes
<1> HIDE DEF s7, F7
<1>13. Makes(s8, {Linking}, F8, {})  BY <1>3, <1>5, <1>12, JoinMakes
<1> HIDE DEF s8, F8
<1>14. Makes(s9, {Linking}, F9, {})  BY <1>1, <1>5, <1>13, JoinMakes
<1> HIDE DEF s9, F9
<1>15. Makes(s10, {Linking}, F10, {"dashboards"})  BY <1>1, <1>5, <1>14, JoinMakes
<1> HIDE DEF s10, F10
<1>16. Makes(s11, {Linking}, F11, {"dashboards"})  BY <1>1, <1>5, <1>15, JoinMakes
<1> QED  BY <1>0, <1>4, <1>16

(* What --init writes with components, and what it writes again.            *)
LEMMA InitializingWrites ==
  ASSUME NEW cs
  PROVE  /\ Initializing(cs) \in Seq(Steps) /\ Linking \in ToSet(Initializing(cs))
         /\ \A x \in ToSet(Initializing(cs)) :
              \/ x = Linking
              \/ /\ x.file \in Modelled
                 /\ x.file \in BaseFiles \/ (cs # {} /\ x.file \in OwnFiles)
                 /\ x.anew => \/ x.file = "dashboards" \/ (x.file = "rules.yaml" /\ "rules" \in cs)
                              \/ (x.file \in OwnFiles /\ cs # {})
<1> DEFINE On(c, S) == IF c \in cs THEN S ELSE {}
           c1 == Component(cs, "rules", CopyRulesFull)
           c2 == Component(cs, "state", CreateStateFiles)
           c3 == Component(cs, "knowledge", CopyKnowledgeBase)
           c4 == Component(cs, "constitution", CopyConstitution)
           c5 == Component(cs, "recovery", CopyRecoveryTemplates)
           c6 == Component(cs, "monitoring", CopyMonitoringFiles)
           F1 == On("rules", {"rules.yaml"} \cup {"other_rules"})
           F2 == On("state", {"changes.json"} \cup {"audit.log"} \cup {"confirmation"} \cup {"health"})
           A2 == On("state", {"changes.json"} \cup {} \cup {"confirmation"} \cup {"health"})
           F3 == On("knowledge", {"knowledge"})
           F4 == On("constitution", {"constitution"})
           F5 == On("recovery", {"recovery_templates"})
           F6 == On("monitoring", {"health"})
<1>1. /\ Makes(c1, {}, F1, F1) /\ Makes(c2, {}, F2, A2) /\ Makes(c3, {}, F3, F3)
      /\ Makes(c4, {}, F4, F4) /\ Makes(c5, {}, F5, F5) /\ Makes(c6, {}, F6, F6)
  <2>1. /\ Makes(FromMAS("rules.yaml"), {}, {"rules.yaml"}, {"rules.yaml"})
        /\ Makes(FromMAS("other_rules"), {}, {"other_rules"}, {"other_rules"})
        /\ Makes(Anew("changes.json"), {}, {"changes.json"}, {"changes.json"})
        /\ Makes(Once("audit.log"), {}, {"audit.log"}, {})
        /\ Makes(Anew("confirmation"), {}, {"confirmation"}, {"confirmation"})
        /\ Makes(Anew("health"), {}, {"health"}, {"health"})
        /\ Makes(FromMAS("knowledge"), {}, {"knowledge"}, {"knowledge"})
        /\ Makes(FromMAS("constitution"), {}, {"constitution"}, {"constitution"})
        /\ Makes(FromMAS("recovery_templates"), {}, {"recovery_templates"}, {"recovery_templates"})
    BY StepMakes DEF BaseFiles, OwnFiles
  <2>3. Makes(CopyRulesFull, {}, {"rules.yaml"} \cup {"other_rules"}, {"rules.yaml"} \cup {"other_rules"})
    BY <2>1, JoinFiles DEF CopyRulesFull
  <2>4. Makes(CreateStateFiles, {}, {"changes.json"} \cup {"audit.log"} \cup {"confirmation"} \cup {"health"},
                {"changes.json"} \cup {} \cup {"confirmation"} \cup {"health"})
    <3>1. PICK a : a = Anew("changes.json") \o Once("audit.log")  OBVIOUS
    <3>2. PICK b : b = a \o Anew("confirmation")  OBVIOUS
    <3>3. PICK F, A : F = {"changes.json"} \cup {"audit.log"} /\ A = {"changes.json"} \cup {}  OBVIOUS
    <3>4. Makes(a, {}, F, A)  BY <2>1, <3>1, <3>3, JoinFiles
    <3>5. Makes(b, {}, F \cup {"confirmation"}, A \cup {"confirmation"})
      BY <2>1, <3>2, <3>4, JoinFiles
    <3>6. Makes(b \o Anew("health"), {}, F \cup {"confirmation"} \cup {"health"},
                  A \cup {"confirmation"} \cup {"health"})
      BY <2>1, <3>5, JoinFiles
    <3> QED  BY <3>1, <3>2, <3>3, <3>6 DEF CreateStateFiles
  <2> QED  BY <2>1, <2>3, <2>4, ComponentMakes
        DEF CopyKnowledgeBase, CopyConstitution, CopyRecoveryTemplates, CopyMonitoringFiles
<1> DEFINE s1 == BaseSteps \o c1  s2 == s1 \o c2  s3 == s2 \o c3  s4 == s3 \o c4
           s5 == s4 \o c5  s6 == s5 \o c6
           G1 == BaseFiles \cup F1  G2 == G1 \cup F2  G3 == G2 \cup F3  G4 == G3 \cup F4
           G5 == G4 \cup F5  G6 == G5 \cup F6
           B1 == {"dashboards"} \cup F1  B2 == B1 \cup A2  B3 == B2 \cup F3  B4 == B3 \cup F4
           B5 == B4 \cup F5  B6 == B5 \cup F6
<1>2. Initializing(cs) = s6  BY DEF Initializing, BaseSteps
<1>3. /\ G6 \subseteq BaseFiles \cup (IF cs = {} THEN {} ELSE OwnFiles) /\ BaseFiles \subseteq G6
      /\ B6 \subseteq {"dashboards"} \cup (IF "rules" \in cs THEN {"rules.yaml"} ELSE {})
                      \cup (IF cs = {} THEN {} ELSE OwnFiles)
  BY DEF BaseFiles, OwnFiles
<1> HIDE DEF c1, c2, c3, c4, c5, c6, F1, F2, A2, F3, F4, F5, F6
<1>5. Makes(s1, {Linking}, G1, B1)  BY <1>1, BaseMakes, JoinFiles
<1> HIDE DEF s1, G1, B1
<1>6. Makes(s2, {Linking}, G2, B2)  BY <1>1, <1>5, JoinFiles
<1> HIDE DEF s2, G2, B2
<1>7. Makes(s3, {Linking}, G3, B3)  BY <1>1, <1>6, JoinFiles
<1> HIDE DEF s3, G3, B3
<1>8. Makes(s4, {Linking}, G4, B4)  BY <1>1, <1>7, JoinFiles
<1> HIDE DEF s4, G4, B4
<1>9. Makes(s5, {Linking}, G5, B5)  BY <1>1, <1>8, JoinFiles
<1> HIDE DEF s5, G5, B5
<1>10. Makes(s6, {Linking}, G6, B6)  BY <1>1, <1>9, JoinFiles
<1> HIDE DEF s6, G6, B6
<1> QED  BY <1>2, <1>3, <1>10 DEF Makes

(* What --bootstrap does after that.                                        *)
LEMMA PortingWrites ==
  /\ Porting \in Seq(Steps) /\ Copying \in ToSet(Porting)
  /\ \A x \in ToSet(Porting) :
       x = Copying \/ (x.file \in Modelled /\ x.file \in OwnFiles \cup {".mas-mode"})
<1>1. /\ Makes(FromMAS("sub_agents"), {}, {"sub_agents"}, {"sub_agents"})
      /\ Makes(FromMAS("recipes"), {}, {"recipes"}, {"recipes"})
      /\ Makes(FromMAS("mcp"), {}, {"mcp"}, {"mcp"})
      /\ Makes(CopyRecoveryTemplates, {}, {"recovery_templates"}, {"recovery_templates"})
      /\ Makes(Anew(".mas-mode"), {}, {".mas-mode"}, {".mas-mode"})
      /\ Makes(PortTools, {Copying}, {}, {})
  BY StepMakes, ToolSteps DEF BaseFiles, OwnFiles, CopyRecoveryTemplates
<1> DEFINE s1 == FromMAS("sub_agents") \o FromMAS("recipes")  s2 == s1 \o PortTools
           s3 == s2 \o FromMAS("mcp")  s4 == s3 \o CopyRecoveryTemplates
           s5 == s4 \o FromMAS("sub_agents")  s6 == s5 \o Anew(".mas-mode")
           F1 == {"sub_agents"} \cup {"recipes"}  F3 == F1 \cup {"mcp"}
           F4 == F3 \cup {"recovery_templates"}  F5 == F4 \cup {"sub_agents"}
           F6 == F5 \cup {".mas-mode"}
<1>2. Porting = s6  BY DEF Porting
<1>3. F6 \subseteq OwnFiles \cup {".mas-mode"}  BY DEF OwnFiles
<1>5. Makes(s1, {}, F1, F1)  BY <1>1, JoinFiles
<1> HIDE DEF s1, F1
<1>6. Makes(s2, {Copying}, F1, F1)  BY <1>1, <1>5, JoinTools
<1> HIDE DEF s2
<1>7. Makes(s3, {Copying}, F3, F3)  BY <1>1, <1>6, JoinFiles
<1> HIDE DEF s3, F3
<1>8. Makes(s4, {Copying}, F4, F4)  BY <1>1, <1>7, JoinFiles
<1> HIDE DEF s4, F4
<1>9. Makes(s5, {Copying}, F5, F5)  BY <1>1, <1>8, JoinFiles
<1> HIDE DEF s5, F5
<1>10. Makes(s6, {Copying}, F6, F6)  BY <1>1, <1>9, JoinFiles
<1> HIDE DEF s6, F6
<1> QED  BY <1>2, <1>3, <1>10 DEF Makes

(* What may be overwritten does not become less.                            *)
LEMMA ExcusedStays ==
  ASSUME chosen \subseteq chosen', NEW f, Excused(f)
  PROVE  Excused(f)'
BY DEF Excused

(* The number of half files, one of which changes.                          *)
LEMMA HalfCount ==
  ASSUME SetupTypes, NEW f \in Modelled, NEW v \in {"absent", "half", "new", "mine"},
         content' = [content EXCEPT ![f] = v], Cardinality(HalfFiles) <= kills
  PROVE  /\ content' \in [Modelled -> {"absent", "half", "new", "mine"}]
         /\ v # "half" => Cardinality(HalfFiles') <= kills
         /\ Cardinality(HalfFiles') <= kills + 1
<1>1. /\ content' \in [Modelled -> {"absent", "half", "new", "mine"}] /\ content'[f] = v
      /\ \A g \in Modelled : g # f => content'[g] = content[g]
  BY DEF SetupTypes
<1>2. HalfFiles' \subseteq HalfFiles \cup {f} /\ (v # "half" => HalfFiles' \subseteq HalfFiles)
  BY <1>1 DEF HalfFiles
<1>3. IsFiniteSet(HalfFiles)  BY SetupAssumption, FS_Subset DEF HalfFiles
<1>4. PICK S : S = HalfFiles  OBVIOUS
<1>5. PICK R : R = HalfFiles'  OBVIOUS
<1>6. IsFiniteSet(S \cup {f}) /\ Cardinality(S \cup {f}) \in {Cardinality(S), Cardinality(S) + 1}
      /\ Cardinality(S) \in Nat
  BY <1>3, <1>4, FS_AddElement, FS_CardinalityType
<1>7. IsFiniteSet(R) /\ Cardinality(R) <= Cardinality(S \cup {f}) /\ Cardinality(R) \in Nat
      /\ (v # "half" => Cardinality(R) <= Cardinality(S))
  BY <1>2, <1>3, <1>4, <1>5, <1>6, FS_Subset, FS_CardinalityType
<1>8. kills \in Nat /\ Cardinality(S) <= kills  BY <1>4 DEF SetupTypes
<1>9. Cardinality(R) <= kills + 1 /\ (v # "half" => Cardinality(R) <= kills)
  BY <1>6, <1>7, <1>8
<1> QED  BY <1>1, <1>5, <1>9

(* A command starts with all its steps before it.                           *)
LEMMA BeginKeeps ==
  ASSUME SetupInv, StartInit \/ StartBootstrap
  PROVE  SetupInv'
<1>0. /\ SetupTypes /\ StepsKnown /\ Covered /\ OnlyUserBreaks /\ ToolsStay
      /\ (\A f \in replaced : Excused(f)) /\ Cardinality(HalfFiles) <= kills
  BY DEF SetupInv
<1>1. PICK for, steps, cs :
        /\ Begin(for, steps, cs) /\ for \in {"init", "bootstrap"}
        /\ \/ installed /\ for = "init" /\ steps = Initializing(cs)
           \/ installed /\ for = "bootstrap" /\ steps = Initializing(AllComponents) \o Porting
              /\ cs = AllComponents \cup {"bootstrap"}
           \/ for = "bootstrap" /\ steps = PortTools
  BY DEF StartInit, StartBootstrap
<1>2. /\ inits' = inits + 1 /\ init' = [todo |-> steps, for |-> for, steps |-> steps]
      /\ chosen' = chosen \cup cs
      /\ UNCHANGED <<content, tools, installed, source, ported, kills, changes, replaced, stops>>
  BY <1>1 DEF Begin
<1>3. /\ steps \in Seq(Steps)
      /\ \A x \in ToSet(steps) :
           /\ x \in {Linking, Copying} \/ x.file \in Modelled
           /\ x.anew /\ x # Copying => Excused(x.file)'
      /\ for = "bootstrap" => Copying \in ToSet(steps)
  <2>0. Linking.anew = FALSE  BY DEF Linking
  <2>1. CASE installed /\ for = "init" /\ steps = Initializing(cs)
    <3>1. \A x \in ToSet(steps) : x.anew => Excused(x.file)'
      BY <2>0, <2>1, <1>2, InitializingWrites DEF Excused
    <3> QED  BY <2>1, <3>1, InitializingWrites
  <2>2. CASE /\ installed /\ for = "bootstrap" /\ steps = Initializing(AllComponents) \o Porting
             /\ cs = AllComponents \cup {"bootstrap"}
    <3>1. steps \in Seq(Steps) /\ ToSet(steps) = ToSet(Initializing(AllComponents)) \cup ToSet(Porting)
      BY <2>2, InitializingWrites, PortingWrites, JoinedSteps
    <3>2. "rules" \in chosen' /\ "bootstrap" \in chosen'  BY <1>2, <2>2 DEF AllComponents
    <3>3. \A f : f \in OwnFiles \cup {".mas-mode", "dashboards"} \/ f = "rules.yaml" => Excused(f)'
      BY <3>2 DEF Excused
    <3>4. ASSUME NEW x \in ToSet(Initializing(AllComponents)), x.anew PROVE Excused(x.file)'
      <4>1. x # Linking  BY <2>0, <3>4
      <4>2. PICK f : f = x.file  OBVIOUS
      <4>3. f \in OwnFiles \cup {".mas-mode", "dashboards"} \/ f = "rules.yaml"
        BY <3>4, <4>1, <4>2, InitializingWrites
      <4>4. Excused(f)'  BY <3>3, <4>3
      <4> QED  BY <4>2, <4>4
    <3>5. ASSUME NEW x \in ToSet(Porting), x # Copying PROVE Excused(x.file)'
      <4>1. PICK f : f = x.file  OBVIOUS
      <4>2. f \in OwnFiles \cup {".mas-mode", "dashboards"}  BY <3>5, <4>1, PortingWrites
      <4>3. Excused(f)'  BY <3>3, <4>2
      <4> QED  BY <4>1, <4>3
    <3> QED  BY <2>2, <3>1, <3>4, <3>5, InitializingWrites, PortingWrites
  <2>3. CASE for = "bootstrap" /\ steps = PortTools
    BY <2>3, ToolSteps DEF Makes
  <2> QED  BY <1>1, <2>1, <2>2, <2>3
<1>4. SetupTypes'
  <2>1. init' \in Commands  BY <1>1, <1>2, <1>3 DEF Commands
  <2>2. inits' \in Nat
    <3>1. inits \in Nat  BY <1>0 DEF SetupTypes
    <3> QED  BY <1>2, <3>1
  <2> QED  BY <1>0, <1>2, <2>1, <2>2 DEF SetupTypes
<1>5. init'.todo = steps /\ init'.for = for /\ init'.steps = steps  BY <1>2
<1>6. StepsKnown'  BY <1>1, <1>3, <1>5 DEF StepsKnown
<1>7. Covered'  BY <1>1, <1>3, <1>5 DEF Covered
<1>8. OnlyUserBreaks' /\ ToolsStay'  BY <1>0, <1>2 DEF OnlyUserBreaks, ToolsStay
<1>9. \A f \in replaced' : Excused(f)'
  BY <1>0, <1>2, ExcusedStays
<1>10. Cardinality(HalfFiles') <= kills'
  <2>1. HalfFiles' = HalfFiles  BY <1>2 DEF HalfFiles
  <2> QED  BY <2>1, <1>0, <1>2
<1> QED  BY <1>4, <1>6, <1>7, <1>8, <1>9, <1>10 DEF SetupInv

(* A step of a command is done: the next one is the head of a shorter list. *)
LEMMA StepDone ==
  ASSUME SetupTypes, StepsKnown, init.todo # <<>>,
         init' = [init EXCEPT !.todo = Tail(@)], chosen' = chosen
  PROVE  /\ init' \in Commands /\ init'.todo = Tail(init.todo) /\ init'.for = init.for
         /\ init'.steps = init.steps /\ init.for # "nothing"
         /\ StepsKnown'
         /\ \A x \in ToSet(init.todo) : x = Head(init.todo) \/ x \in ToSet(init'.todo)
         /\ Head(init.todo) \in ToSet(init.todo)
<1>1. /\ init.todo \in Seq(Steps) /\ init.for \in {"nothing", "init", "bootstrap"}
      /\ init.steps \in Seq(Steps)
      /\ init = [todo |-> init.todo, for |-> init.for, steps |-> init.steps]
  BY DEF SetupTypes, Commands
<1>2. init' = [todo |-> Tail(init.todo), for |-> init.for, steps |-> init.steps]  BY <1>1
<1>3. init'.todo = Tail(init.todo) /\ init'.for = init.for /\ init'.steps = init.steps  BY <1>2
<1>4. /\ Head(init.todo) \in ToSet(init.todo) /\ Tail(init.todo) \in Seq(Steps)
      /\ ToSet(Tail(init.todo)) \subseteq ToSet(init.todo)
      /\ \A x \in ToSet(init.todo) : x = Head(init.todo) \/ x \in ToSet(Tail(init.todo))
  BY <1>1, FirstStep
<1>5. init.for # "nothing"  BY DEF StepsKnown
<1>6. StepsKnown'
  <2>1. ASSUME NEW x \in ToSet(init'.todo)
        PROVE  /\ x \in {Linking, Copying} \/ x.file \in Modelled
               /\ x.anew /\ x # Copying => Excused(x.file)'
    <3>1. x \in ToSet(init.todo)  BY <1>3, <1>4, <2>1
    <3>2. PICK f : f = x.file  OBVIOUS
    <3>3. Excused(f) => Excused(f)'  BY ExcusedStays
    <3> QED  BY <3>1, <3>2, <3>3 DEF StepsKnown
  <2> QED  BY <1>3, <1>5, <2>1 DEF StepsKnown
<1>7. init' \in Commands  BY <1>1, <1>2, <1>4 DEF Commands
<1> QED  BY <1>3, <1>4, <1>5, <1>6, <1>7

(* What was carried out stays so while the command goes on.                 *)
LEMMA CarriedStays ==
  ASSUME NEW x, Carried(x), x.file # "tools" => x.file \in Modelled,
         UNCHANGED <<installed, source>>,
         \A f \in Modelled : content'[f] \in {content[f], "new"},
         tools' \in {"dir", tools} \/ tools \notin {"dir", "mas", "partial"}
  PROVE  Carried(x)'
<1>1. HasSource' = HasSource  BY DEF HasSource
<1>2. CASE x.file = "tools"  BY <1>2 DEF Carried
<1>3. CASE x.file # "tools"  BY <1>1, <1>3 DEF Carried
<1> QED  BY <1>2, <1>3

(* A command that has one step less left, which is carried out, is on its   *)
(* way.                                                                     *)
LEMMA CoveredStays ==
  ASSUME SetupTypes, StepsKnown, Covered, init.todo # <<>>, NEW s, s = Head(init.todo),
         init' = [init EXCEPT !.todo = Tail(@)], UNCHANGED <<chosen, installed, source>>,
         \A f \in Modelled : content'[f] \in {content[f], "new"},
         tools' \in {"dir", tools} \/ tools \notin {"dir", "mas", "partial"},
         Carried(s)'
  PROVE  Covered'
<1>1. /\ init'.for = init.for /\ init'.steps = init.steps /\ init.for # "nothing"
      /\ \A x \in ToSet(init.todo) : x = s \/ x \in ToSet(init'.todo)
  BY StepDone
<1>2. ASSUME NEW x \in ToSet(init.steps)
      PROVE  (x \in {Linking, Copying} \/ x.file \in Modelled)
             /\ (x \in ToSet(init'.todo) \/ Carried(x)')
  <2>1. x \in {Linking, Copying} \/ x.file \in Modelled  BY <1>2 DEF Covered
  <2>2. CASE Carried(x)
    <3>1. x.file # "tools" => x.file \in Modelled  BY <2>1 DEF Linking, Copying
    <3> QED  BY <2>1, <2>2, <3>1, CarriedStays
  <2>3. CASE x = s  BY <2>1, <2>3
  <2>4. CASE x \in ToSet(init.todo) /\ x # s  BY <1>1, <2>1, <2>4
  <2> QED  BY <1>2, <2>2, <2>3, <2>4 DEF Covered
<1> QED  BY <1>1, <1>2 DEF Covered

(* A command that ends, whatever it did before, leaves nothing to do.       *)
LEMMA CommandEnds ==
  ASSUME SetupInv, init' = Idle
  PROVE  init' \in Commands /\ StepsKnown' /\ Covered'
<1>1. /\ init' = [todo |-> <<>>, for |-> "nothing", steps |-> <<>>]
      /\ init'.todo = <<>> /\ init'.for = "nothing" /\ init'.steps = <<>>
  BY DEF Idle
<1>2. ToSet(<<>>) = {}  BY DEF ToSet
<1>3. <<>> \in Seq(Steps)  OBVIOUS
<1> QED  BY <1>1, <1>2, <1>3 DEF StepsKnown, Covered, Commands

(* The link, and the directory of copies.                                   *)
LEMMA ToolsKeep ==
  ASSUME SetupInv, Link \/ CopyTools
  PROVE  SetupInv'
<1>0. /\ SetupTypes /\ StepsKnown /\ Covered /\ OnlyUserBreaks /\ ToolsStay
      /\ (\A f \in replaced : Excused(f)) /\ Cardinality(HalfFiles) <= kills
  BY DEF SetupInv
<1>1. /\ init.todo # <<>> /\ Head(init.todo) \in {Linking, Copying}
      /\ UNCHANGED <<content, installed, source, ported, inits, kills, changes, replaced, chosen>>
  BY ToolSteps DEF Link, CopyTools
<1>10. PICK s : s = Head(init.todo)  OBVIOUS
<1>2. Linking.file = "tools" /\ Copying.file = "tools" /\ Linking # Copying
  <2>1. Linking.anew = FALSE /\ Copying.anew = TRUE  BY DEF Linking, Copying
  <2> QED  BY <2>1 DEF Linking, Copying
<1>3. \/ /\ init' = Idle /\ stops' = stops \cup {"dangling"} /\ tools = "dangling" /\ tools' = tools
      \/ /\ init' = Idle /\ stops' = stops \cup {"nothing"}
         /\ tools' \in {"dir", "partial"} /\ (tools = "dir" => tools' = "dir")
         /\ tools' = "dir" => tools = "dir"
      \/ /\ init' = [init EXCEPT !.todo = Tail(@)] /\ stops' = stops
         /\ tools' \in {"dir", "mas", tools} /\ tools' \notin {"absent", "dangling", "other"}
         /\ tools' = "mas" => tools \notin {"dir", "partial"}
         /\ tools' = "partial" => tools = "partial"
         /\ Carried(s)'
  <2>1. tools \in {"absent", "mas", "other", "dangling", "dir", "partial"}
    BY <1>0 DEF SetupTypes
  <2>2. CASE Link /\ tools = "dangling"  BY <2>2 DEF Link, Raise
  <2>3. CASE Link /\ tools # "dangling"
    <3>1. /\ tools' = IF tools \in {"dir", "partial"} THEN tools ELSE "mas"
          /\ init' = [init EXCEPT !.todo = Tail(@)] /\ stops' = stops
          /\ s = Linking
      BY <1>10, <2>3, ToolSteps DEF Link
    <3>2. tools' \in {"dir", "mas", "partial"}  BY <2>1, <3>1
    <3>3. Linking.file = "tools" /\ Linking.anew = FALSE  BY DEF Linking
    <3>4. Carried(s)'  BY <3>1, <3>2, <3>3 DEF Carried
    <3> QED  BY <2>1, <3>1, <3>4
  <2>4. CASE CopyTools /\ tools = "dangling"  BY <2>4 DEF CopyTools, Raise
  <2>5. CASE CopyTools /\ tools # "dangling" /\ HasSource
    <3>1. /\ tools' = "dir" /\ init' = [init EXCEPT !.todo = Tail(@)] /\ stops' = stops
          /\ s = Copying
      BY <1>10, <2>5, ToolSteps DEF CopyTools
    <3>2. Carried(s)'  BY <1>2, <3>1 DEF Carried
    <3> QED  BY <3>1, <3>2
  <2>6. CASE CopyTools /\ tools # "dangling" /\ ~HasSource
    BY <2>1, <2>6 DEF CopyTools, Raise
  <2> QED  BY <2>2, <2>3, <2>4, <2>5, <2>6
<1>4. \A f \in replaced' : Excused(f)'  BY <1>0, <1>1, ExcusedStays
<1>5. Cardinality(HalfFiles') <= kills'
  <2>1. HalfFiles' = HalfFiles  BY <1>1 DEF HalfFiles
  <2> QED  BY <2>1, <1>0, <1>1
<1>6. /\ tools' \in {"absent", "mas", "other", "dangling", "dir", "partial"}
      /\ OnlyUserBreaks' /\ ToolsStay'
  <2>1. tools \in {"absent", "mas", "other", "dangling", "dir", "partial"} /\ changes \in Nat
    BY <1>0 DEF SetupTypes
  <2>2. "dangling" \in stops \/ tools \in {"other", "dangling"} => changes > 0
    BY <1>0 DEF OnlyUserBreaks, ToolsStay
  <2>3. "dangling" \in stops' => changes > 0  BY <1>3, <2>2
  <2>4. tools' = "partial" => stops' \cap {"nothing", "killed"} # {}
    BY <1>0, <1>3, <2>1 DEF ToolsStay
  <2>5. ported' => tools' = "dir" \/ (tools' = "partial" /\ "killed" \in stops')
    BY <1>0, <1>1, <1>3, <2>1 DEF ToolsStay
  <2>6. OnlyUserBreaks'  BY <1>1, <1>3, <2>1, <2>2 DEF OnlyUserBreaks
  <2> QED  BY <1>1, <1>3, <2>1, <2>3, <2>4, <2>5, <2>6 DEF ToolsStay
<1>7. CASE init' = Idle
  BY <1>0, <1>1, <1>4, <1>5, <1>6, <1>7, CommandEnds DEF SetupInv, SetupTypes
<1>8. CASE init' # Idle
  <2>1. /\ init' = [init EXCEPT !.todo = Tail(@)]
        /\ tools' \in {"dir", tools} \/ tools \notin {"dir", "mas", "partial"}
        /\ Carried(s)'
    BY <1>3, <1>8
  <2>2. init' \in Commands /\ StepsKnown'  BY <1>0, <1>1, <2>1, StepDone
  <2>3. SetupTypes'  BY <1>0, <1>1, <1>6, <2>2 DEF SetupTypes
  <2>4. Covered'  BY <1>0, <1>1, <1>10, <2>1, CoveredStays
  <2> QED  BY <1>4, <1>5, <1>6, <2>2, <2>3, <2>4 DEF SetupInv
<1> QED  BY <1>7, <1>8

(* A file is written, or skipped as it exists.                              *)
LEMMA WriteKeeps ==
  ASSUME SetupInv, WriteFile
  PROVE  SetupInv'
<1>0. /\ SetupTypes /\ StepsKnown /\ Covered /\ OnlyUserBreaks /\ ToolsStay
      /\ (\A f \in replaced : Excused(f)) /\ Cardinality(HalfFiles) <= kills
  BY DEF SetupInv
<1>1. PICK s : s = Head(init.todo)  OBVIOUS
<1>2. PICK f : f = s.file  OBVIOUS
<1>3. /\ init.todo # <<>> /\ f \in Modelled /\ init' = [init EXCEPT !.todo = Tail(@)]
      /\ UNCHANGED <<tools, installed, source, ported, inits, kills, changes, chosen, stops>>
  BY <1>1, <1>2 DEF WriteFile
<1>4. /\ content' = IF Writes(s) THEN [content EXCEPT ![f] = "new"] ELSE content
      /\ replaced' = IF Writes(s) /\ content[f] = "mine" THEN replaced \cup {f} ELSE replaced
  BY <1>1, <1>2 DEF WriteFile
<1>5. init' \in Commands /\ StepsKnown' /\ s \in ToSet(init.todo)
  BY <1>0, <1>1, <1>3, StepDone
<1>6. s \notin {Linking, Copying}
  BY <1>2, <1>3, SetupAssumption DEF Linking, Copying
<1>7. /\ content' \in [Modelled -> {"absent", "half", "new", "mine"}]
      /\ \A g \in Modelled : content'[g] \in {content[g], "new"}
      /\ Carried(s)' /\ Cardinality(HalfFiles') <= kills'
  <2>1. content \in [Modelled -> {"absent", "half", "new", "mine"}]  BY <1>0 DEF SetupTypes
  <2>2. HasSource' = HasSource /\ f # "tools"  BY <1>3, SetupAssumption DEF HasSource
  <2>3. CASE Writes(s)
    <3>1. content' = [content EXCEPT ![f] = "new"]  BY <1>4, <2>3
    <3>2. Cardinality(HalfFiles') <= kills
      BY <1>0, <1>3, <3>1, HalfCount
    <3>3. content'[f] = "new"  BY <1>3, <2>1, <3>1
    <3>4. Carried(s)'  BY <1>2, <2>2, <3>3 DEF Carried
    <3> QED  BY <1>3, <2>1, <3>1, <3>2, <3>4
  <2>4. CASE ~Writes(s)
    <3>1. content' = content  BY <1>4, <2>4
    <3>2. HalfFiles' = HalfFiles  BY <3>1 DEF HalfFiles
    <3>3. (s.copied => HasSource) => ~s.anew /\ content[f] # "absent"  BY <1>2, <2>4 DEF Writes
    <3>4. Carried(s)'  BY <1>2, <1>3, <2>1, <2>2, <3>1, <3>3 DEF Carried
    <3> QED  BY <1>0, <1>3, <2>1, <3>1, <3>2, <3>4
  <2> QED  BY <2>3, <2>4
<1>8. \A g \in replaced' : Excused(g)'
  <2>1. ASSUME NEW g \in replaced' PROVE Excused(g)
    <3>1. CASE g \in replaced  BY <1>0, <3>1
    <3>2. CASE g \notin replaced
      <4>1. g = f /\ Writes(s) /\ content[f] = "mine"  BY <1>4, <2>1, <3>2
      <4>2. s.anew  BY <1>2, <4>1 DEF Writes
      <4>3. Excused(s.file)  BY <1>0, <1>5, <1>6, <4>2 DEF StepsKnown
      <4> QED  BY <1>2, <4>1, <4>3
    <3> QED  BY <3>1, <3>2
  <2>2. chosen \subseteq chosen'  BY <1>3
  <2> QED  BY <2>1, <2>2, ExcusedStays
<1>9. Covered'  BY <1>0, <1>1, <1>3, <1>7, CoveredStays
<1>10. SetupTypes'
  BY <1>0, <1>3, <1>4, <1>5, <1>7 DEF SetupTypes
<1>11. OnlyUserBreaks' /\ ToolsStay'  BY <1>0, <1>3 DEF OnlyUserBreaks, ToolsStay
<1> QED  BY <1>5, <1>7, <1>8, <1>9, <1>10, <1>11 DEF SetupInv

(* A command ends after its last step.                                      *)
LEMMA DoneKeeps ==
  ASSUME SetupInv, Done
  PROVE  SetupInv'
<1>0. /\ SetupTypes /\ StepsKnown /\ Covered /\ OnlyUserBreaks /\ ToolsStay
      /\ (\A f \in replaced : Excused(f)) /\ Cardinality(HalfFiles) <= kills
  BY DEF SetupInv
<1>1. /\ init.for # "nothing" /\ init.todo = <<>> /\ init' = Idle
      /\ ported' = (ported \/ init.for = "bootstrap")
      /\ UNCHANGED <<content, tools, installed, source, inits, kills, changes, replaced, chosen, stops>>
  BY DEF Done
<1>2. init.for = "bootstrap" => tools = "dir"
  <2>1. ToSet(<<>>) = {}  BY DEF ToSet
  <2>2. Copying.file = "tools" /\ Copying.anew = TRUE  BY DEF Copying
  <2>3. init.for = "bootstrap" => Carried(Copying)  BY <1>0, <1>1, <2>1 DEF Covered
  <2> QED  BY <2>2, <2>3 DEF Carried
<1>3. ToolsStay' /\ OnlyUserBreaks'
  BY <1>0, <1>1, <1>2 DEF ToolsStay, OnlyUserBreaks
<1>4. /\ init' \in Commands
      /\ StepsKnown' /\ Covered'
  BY <1>1, CommandEnds
<1>5. SetupTypes'  BY <1>0, <1>1, <1>4 DEF SetupTypes
<1>6. \A f \in replaced' : Excused(f)'
  BY <1>0, <1>1, ExcusedStays
<1>7. Cardinality(HalfFiles') <= kills'
  <2>1. HalfFiles' = HalfFiles  BY <1>1 DEF HalfFiles
  <2> QED  BY <2>1, <1>0, <1>1
<1> QED  BY <1>3, <1>4, <1>5, <1>6, <1>7 DEF SetupInv

(* A killed command leaves one file cut off, or tools/ half copied.         *)
LEMMA KillKeeps ==
  ASSUME SetupInv, Kill
  PROVE  SetupInv'
<1>0. /\ SetupTypes /\ StepsKnown /\ Covered /\ OnlyUserBreaks /\ ToolsStay
      /\ (\A f \in replaced : Excused(f)) /\ Cardinality(HalfFiles) <= kills
  BY DEF SetupInv
<1>1. PICK s : s = Head(init.todo)  OBVIOUS
<1>2. PICK f : f = s.file  OBVIOUS
<1>3. /\ init.todo # <<>> /\ init' = Idle /\ kills' = kills + 1 /\ stops' = stops \cup {"killed"}
      /\ UNCHANGED <<installed, source, ported, inits, changes, chosen>>
  BY DEF Kill
<1>4. s \in ToSet(init.todo)
  <2>1. init.todo \in Seq(Steps)  BY <1>0 DEF SetupTypes, Commands
  <2> QED  BY <1>1, <1>3, <2>1, FirstStep
<1>5. /\ init' \in Commands
      /\ StepsKnown' /\ Covered'
  BY <1>3, CommandEnds
<1>6. kills \in Nat /\ kills' \in Nat /\ kills <= kills'
  BY <1>0, <1>3 DEF SetupTypes
<1>7. CASE f = "tools"
  <2>1. /\ content' = content /\ replaced' = replaced
        /\ tools' \in {tools, "absent", "partial"}
        /\ tools = "dir" => tools' \in {"dir", "partial"}
        /\ tools = "partial" => tools' = "partial"
    <3>1. content' = content /\ replaced' = replaced /\ tools' \in KilledTools(s)
      BY <1>1, <1>2, <1>7 DEF Kill
    <3>2. /\ KilledTools(s) \subseteq {tools, "absent", "partial"}
          /\ tools = "dir" => KilledTools(s) \subseteq {"dir", "partial"}
          /\ tools = "partial" => KilledTools(s) = {"partial"}
      BY DEF KilledTools
    <3> QED  BY <3>1, <3>2
  <2>2. SetupTypes'  BY <1>0, <1>3, <1>5, <1>6, <2>1 DEF SetupTypes
  <2>3. ToolsStay'
    <3>1. ("dangling" \in stops' <=> "dangling" \in stops) /\ "killed" \in stops'  BY <1>3
    <3> QED  BY <1>0, <1>3, <2>1, <3>1 DEF ToolsStay
  <2>4. OnlyUserBreaks'  BY <1>0, <1>3, <2>1 DEF OnlyUserBreaks
  <2>5. \A g \in replaced' : Excused(g)'
    BY <1>0, <1>3, <2>1, ExcusedStays
  <2>6. Cardinality(HalfFiles') <= kills'
    <3>1. PICK S : S = HalfFiles  OBVIOUS
    <3>2. HalfFiles' = S  BY <2>1, <3>1 DEF HalfFiles
    <3>3. IsFiniteSet(S)  BY <3>1, SetupAssumption, FS_Subset DEF HalfFiles
    <3>4. Cardinality(S) \in Nat  BY <3>3, FS_CardinalityType
    <3>5. Cardinality(S) <= kills'  BY <1>0, <1>6, <3>1, <3>4
    <3> QED  BY <3>2, <3>5
  <2> QED  BY <1>5, <2>2, <2>3, <2>4, <2>5, <2>6 DEF SetupInv
<1>8. CASE f # "tools"
  <2>1. /\ tools' = tools /\ Writes(s) /\ content' = [content EXCEPT ![f] = "half"]
        /\ replaced' = IF content[f] = "mine" THEN replaced \cup {f} ELSE replaced
    BY <1>1, <1>2, <1>8 DEF Kill
  <2>2. s \notin {Linking, Copying}  BY <1>2, <1>8 DEF Linking, Copying
  <2>3. f \in Modelled  BY <1>0, <1>2, <1>4, <2>2 DEF StepsKnown
  <2>4. /\ content' \in [Modelled -> {"absent", "half", "new", "mine"}]
        /\ Cardinality(HalfFiles') <= kills'
    BY <1>0, <1>3, <2>1, <2>3, HalfCount
  <2>5. SetupTypes'  BY <1>0, <1>3, <1>5, <1>6, <2>1, <2>3, <2>4 DEF SetupTypes
  <2>6. ToolsStay'
    <3>1. ("dangling" \in stops' <=> "dangling" \in stops) /\ "killed" \in stops'  BY <1>3
    <3> QED  BY <1>0, <1>3, <2>1, <3>1 DEF ToolsStay
  <2>7. OnlyUserBreaks'  BY <1>0, <1>3, <2>1 DEF OnlyUserBreaks
  <2>8. \A g \in replaced' : Excused(g)'
    <3>1. ASSUME NEW g \in replaced' PROVE Excused(g)
      <4>1. CASE g \in replaced  BY <1>0, <4>1
      <4>2. CASE g \notin replaced
        <5>1. g = f /\ content[f] = "mine"  BY <2>1, <3>1, <4>2
        <5>2. s.anew  BY <1>2, <2>1, <5>1 DEF Writes
        <5>3. Excused(s.file)  BY <1>0, <1>4, <2>2, <5>2 DEF StepsKnown
        <5> QED  BY <1>2, <5>1, <5>3
      <4> QED  BY <4>1, <4>2
    <3>2. chosen \subseteq chosen'  BY <1>3
    <3> QED  BY <3>1, <3>2, ExcusedStays
  <2> QED  BY <1>5, <2>4, <2>5, <2>6, <2>7, <2>8 DEF SetupInv
<1> QED  BY <1>7, <1>8

(* Between two commands there is nothing to carry out.                      *)
LEMMA IdleKeeps ==
  ASSUME StepsKnown, Covered, init.for = "nothing", UNCHANGED <<init, chosen>>
  PROVE  StepsKnown' /\ Covered'
<1>1. ToSet(<<>>) = {}  BY DEF ToSet
<1> QED  BY <1>1 DEF StepsKnown, Covered

(* Between two commands the link is repaired.                               *)
LEMMA RepairKeeps ==
  ASSUME SetupInv, RepairSymlinks
  PROVE  SetupInv'
<1>0. /\ SetupTypes /\ StepsKnown /\ Covered /\ OnlyUserBreaks /\ ToolsStay
      /\ (\A f \in replaced : Excused(f)) /\ Cardinality(HalfFiles) <= kills
  BY DEF SetupInv
<1>1. /\ init.for = "nothing" /\ inits' = inits + 1
      /\ tools' = IF tools \in {"absent", "other"} THEN "mas" ELSE tools
      /\ stops' = IF tools = "dangling" THEN stops \cup {"dangling"} ELSE stops
      /\ UNCHANGED <<content, installed, source, init, ported, kills, changes, replaced, chosen>>
  BY DEF RepairSymlinks
<1>2. SetupTypes'
  <2>1. inits' \in Nat
    <3>1. inits \in Nat  BY <1>0 DEF SetupTypes
    <3>2. inits' = inits + 1  BY DEF RepairSymlinks
    <3> QED  BY <3>1, <3>2
  <2>2. tools' \in {"absent", "mas", "other", "dangling", "dir", "partial"}
    BY <1>0, <1>1 DEF SetupTypes
  <2> QED  BY <1>0, <1>1, <2>1, <2>2 DEF SetupTypes
<1>3. StepsKnown' /\ Covered'  BY <1>0, <1>1, IdleKeeps
<1>4. OnlyUserBreaks' /\ ToolsStay'
  <2>1. OnlyUserBreaks'  BY <1>0, <1>1 DEF OnlyUserBreaks
  <2>2. "dangling" \in stops' => changes > 0
    BY <1>0, <1>1 DEF OnlyUserBreaks, ToolsStay
  <2>3. /\ ported' => tools' = "dir" \/ (tools' = "partial" /\ "killed" \in stops')
        /\ tools' = "partial" => stops' \cap {"nothing", "killed"} # {}
    BY <1>0, <1>1 DEF ToolsStay
  <2> QED  BY <1>1, <2>1, <2>2, <2>3 DEF ToolsStay
<1>5. \A f \in replaced' : Excused(f)'
  BY <1>0, <1>1, ExcusedStays
<1>6. Cardinality(HalfFiles') <= kills'
  <2>1. HalfFiles' = HalfFiles  BY <1>1 DEF HalfFiles
  <2> QED  BY <2>1, <1>0, <1>1
<1> QED  BY <1>2, <1>3, <1>4, <1>5, <1>6 DEF SetupInv

(* Between two commands the user changes what he likes.                     *)
LEMMA ChangeKeeps ==
  ASSUME SetupInv, Change
  PROVE  SetupInv'
<1>0. /\ SetupTypes /\ StepsKnown /\ Covered /\ OnlyUserBreaks /\ ToolsStay
      /\ (\A f \in replaced : Excused(f)) /\ Cardinality(HalfFiles) <= kills
  BY DEF SetupInv
<1>1. /\ init.for = "nothing" /\ changes' = changes + 1
      /\ UNCHANGED <<init, inits, kills, replaced, chosen, stops>>
  BY DEF Change
<1>2. changes \in Nat /\ changes' \in Nat /\ changes' > 0
  BY <1>0, <1>1 DEF SetupTypes
<1>3. StepsKnown' /\ Covered'  BY <1>0, <1>1, IdleKeeps
<1>4. \A f \in replaced' : Excused(f)'
  BY <1>0, <1>1, ExcusedStays
<1>5. OnlyUserBreaks'  BY <1>2 DEF OnlyUserBreaks
<1>6. CASE \E f \in Modelled : content[f] \in {"half", "new"} /\ content' = [content EXCEPT ![f] = "mine"]
           /\ UNCHANGED <<tools, installed, source, ported>>
  <2>1. PICK f \in Modelled : content' = [content EXCEPT ![f] = "mine"]
    BY <1>6
  <2>2. UNCHANGED <<tools, installed, source, ported>>  BY <1>6
  <2>3. /\ content' \in [Modelled -> {"absent", "half", "new", "mine"}]
        /\ Cardinality(HalfFiles') <= kills
    BY <1>0, <2>1, HalfCount
  <2>4. SetupTypes'  BY <1>0, <1>1, <1>2, <2>2, <2>3 DEF SetupTypes
  <2>5. ToolsStay'  BY <1>0, <1>1, <1>2, <2>2 DEF ToolsStay
  <2> QED  BY <1>1, <1>3, <1>4, <1>5, <2>3, <2>4, <2>5 DEF SetupInv
<1>7. CASE /\ content' = content
           /\ installed' \in BOOLEAN /\ source' \in BOOLEAN
           /\ \/ tools' = "absent" /\ ported' = FALSE
              \/ tools = "mas" /\ tools' \in {"other", "dangling"} /\ ported' = ported
              \/ tools' = tools /\ ported' = ported
  <2>1. HalfFiles' = HalfFiles  BY <1>7 DEF HalfFiles
  <2>2. SetupTypes'  BY <1>0, <1>1, <1>2, <1>7 DEF SetupTypes
  <2>3. ToolsStay'
    <3>1. ported' => tools' = "dir" \/ (tools' = "partial" /\ "killed" \in stops')
      BY <1>0, <1>1, <1>7 DEF ToolsStay
    <3>2. tools' = "partial" => tools = "partial"  BY <1>7
    <3> QED  BY <1>0, <1>1, <1>2, <3>1, <3>2 DEF ToolsStay
  <2> QED  BY <1>0, <1>1, <1>3, <1>4, <1>5, <2>1, <2>2, <2>3 DEF SetupInv
<1>8. installed \in BOOLEAN /\ source \in BOOLEAN  BY <1>0 DEF SetupTypes
<1> QED  BY <1>6, <1>7, <1>8 DEF Change

\* However often a project is initialized, bootstrapped and repaired, killed at
\* any step and changed by its user in between, for any set of its files: only
\* named files of the user are overwritten, a command that ended has carried out
\* all its steps, there are no more half files than kills, and a bootstrapped
\* project keeps its tools, whole unless a command died.
THEOREM InitializationAlwaysSound == SetupSpec => []InitSound
<1>1. SetupInit => SetupInv
  <2> SUFFICES ASSUME SetupInit PROVE SetupInv  OBVIOUS
  <2>1. /\ content = [f \in Modelled |-> "absent"] /\ tools = "absent" /\ installed = TRUE
        /\ source \in BOOLEAN /\ ported = FALSE
        /\ init.todo = <<>> /\ init.for = "nothing" /\ init.steps = <<>>
        /\ init = [todo |-> <<>>, for |-> "nothing", steps |-> <<>>]
        /\ kills = 0 /\ changes = 0 /\ inits = 0 /\ replaced = {} /\ stops = {}
    BY DEF SetupInit, Idle
  <2>2. <<>> \in Seq(Steps) /\ ToSet(<<>>) = {}  BY DEF ToSet
  <2>3. SetupTypes  BY <2>1, <2>2 DEF SetupTypes, Commands
  <2>4. StepsKnown /\ Covered /\ OnlyUserBreaks /\ ToolsStay
    BY <2>1, <2>2 DEF StepsKnown, Covered, OnlyUserBreaks, ToolsStay
  <2>5. Cardinality(HalfFiles) <= kills
    <3>1. HalfFiles = {}  BY <2>1 DEF HalfFiles
    <3> QED  BY <2>1, <3>1, FS_EmptySet
  <2> QED  BY <2>1, <2>3, <2>4, <2>5 DEF SetupInv
<1>2. SetupInv /\ [SetupNext]_setupVars => SetupInv'
  <2> SUFFICES ASSUME SetupInv, [SetupNext]_setupVars PROVE SetupInv'  OBVIOUS
  <2>1. CASE UNCHANGED setupVars
    BY <2>1 DEF setupVars, SetupInv, SetupTypes, StepsKnown, Covered, OnlyUserBreaks, ToolsStay,
                Excused, HalfFiles, Carried, HasSource
  <2>2. CASE SetupNext
    BY <2>2, BeginKeeps, ToolsKeep, WriteKeeps, DoneKeeps, KillKeeps, RepairKeeps, ChangeKeeps
       DEF SetupNext
  <2> QED  BY <2>1, <2>2
<1>3. SetupInv => InitSound
  <2> SUFFICES ASSUME SetupInv PROVE InitSound  OBVIOUS
  <2>0. /\ StepsKnown /\ Covered /\ ToolsStay /\ (\A f \in replaced : Excused(f))
        /\ Cardinality(HalfFiles) <= kills
    BY DEF SetupInv
  <2>1. PICK base : base = ToSet(Initializing({}))  OBVIOUS
  <2>2. \A x \in base : x = Linking \/ x.file \in BaseFiles \cap Modelled
    BY <2>1, InitializingWrites
  <2>3. Linking.file = "tools"  BY DEF Linking
  <2>4. \A f \in OwnFiles : f \notin {s.file : s \in base}
    BY <2>2, <2>3 DEF BaseFiles, OwnFiles
  <2>5. ChangesStay
    <3>1. \A f \in OwnFiles : f \notin {"rules.yaml", ".mas-mode"}  BY DEF OwnFiles
    <3> QED  BY <2>0, <2>1, <2>4, <3>1 DEF ChangesStay, Excused
  <2>6. EndedIsWhole
    <3>1. ToSet(<<>>) = {}  BY DEF ToSet
    <3> QED  BY <2>0, <3>1 DEF EndedIsWhole, HalfFiles, Covered
  <2> QED  BY <2>0, <2>5, <2>6 DEF InitSound
<1> QED  BY <1>1, <1>2, <1>3, PTL DEF SetupSpec

-----------------------------------------------------------------------------
(* The checks of a recipe.                                                  *)

Texts == Documents \cup {Absent}

(* The checks that --strict has left after the first.                       *)
StrictRests == {<<"roundtrip", "path", "required">>, <<"path", "required">>, <<"required">>}

CheckTypes ==
  /\ recipe \in [Recipes -> Texts] /\ seen \in SUBSET [Recipes -> Texts]
  /\ check \in [tool : Tools \cup {"none", "editor"}, of : SUBSET Recipes, strict : BOOLEAN,
                todo : Todos \cup {<<>>}, failed : {check.failed}, code : {0, 1},
                next : StrictRests \cup {<<>>, <<"syntax">>, <<"roundtrip">>, <<"path">>}]

(* What a check has seen of a file, if it has.                              *)
Shown(files, f, kind) ==
  /\ files[f].parses
  /\ kind = "roundtrip" => files[f].same
  /\ kind = "path" => Reachable(files, f)
  /\ kind = "required" => Complete(files, f)
WasShown(f, kind) == \E files \in seen : Shown(files, f, kind)

(* The checks of a file that the options ask for, and those to come.        *)
Demanded == {"syntax"} \cup (IF check.strict THEN {"roundtrip", "path", "required"} ELSE {})
Awaits(f, kind) ==
  \/ \E i \in DOMAIN check.todo : i # 1 /\ check.todo[i] = f
  \/ check.todo # <<>> /\ check.todo[1] = f
     /\ (check.next = <<"syntax">> \/ \E i \in DOMAIN check.next : check.next[i] = kind)

(* A running check looks at the files of its arguments as they are.         *)
Looks ==
  check.todo # <<>> =>
    /\ recipe \in seen /\ check.tool \in Tools /\ check.next # <<>>
    /\ \A i \in DOMAIN check.todo : check.todo[i] \in check.of
    /\ check.next # <<"syntax">> =>
         check.todo[1] \in YamlFiles /\ (check.strict => check.next \in StrictRests)

(* dev_yaml_immune.py exits with 1 iff it found something.                  *)
CodeTells == check.tool # "editor" => (check.code = 0 <=> check.failed = {})

(* As long as nothing was found, each demanded check of each file either    *)
(* passed, on some state of the files since the start, or is still to come. *)
GoodSoFar ==
  check.tool \in Tools /\ check.code = 0 =>
    \A f \in check.of \cap YamlFiles, kind \in Demanded : WasShown(f, kind) \/ Awaits(f, kind)

(* What was found was wrong in some state of the files since the start.     *)
Wrong(files, of, tool) ==
  \E f \in of :
    \/ f \in YamlFiles /\ Broken(files, f)
    \/ tool = "editor" /\ (~files[f].parses \/ AutoApply \ files[f].meets # {})
BadSoFar == check.code # 0 /\ HasYaml => \E files \in seen : Wrong(files, check.of, check.tool)

(* --validate is over in one step.                                          *)
Editing == check.tool = "editor" => check.todo = <<>>

CheckedInv == CheckTypes /\ Looks /\ CodeTells /\ GoodSoFar /\ BadSoFar /\ Editing /\ ReportIsTrue

(* The lookups of a strict path check are of what the recipe held when it   *)
(* was loaded: a name whose lookups are over was found, or something was    *)
(* missing, and the files of a name that are not looked for any more were   *)
(* absent.                                                                  *)
LookedFor(files, f) ==
  /\ files[f].parses /\ files[f].mapping
  /\ \A n \in Referenced(files[f]) :
       Found(f, n) \/ check.code # 0 \/ \E u \in lookups : u[1] = n
  /\ \A u \in lookups :
       /\ u[1] \in Referenced(files[f]) /\ u[2] \in Candidates[<<f, u[1]>>]
       /\ \A c \in Candidates[<<f, u[1]>>] :
            <<u[1], c>> \in lookups \/ \E others \in seen : others[c] = Absent
LooksUp ==
  lookups # {} =>
    /\ check.todo # <<>> /\ check.strict
    /\ check.next # <<"syntax">> /\ Head(check.next) = "path"
    /\ lookups \subseteq References \X Recipes
    /\ \E files \in seen : LookedFor(files, Head(check.todo))

(* The inductive invariant.                                                 *)
ChecksInv == CheckedInv /\ LooksUp


(* A check as BeginImmune starts it, field by field.                        *)
LEMMA BeganFields ==
  ASSUME NEW tool, NEW of, NEW strict, NEW todo, NEW next
  PROVE  [NoCheck EXCEPT !.tool = tool, !.of = of, !.strict = strict, !.todo = todo, !.next = next]
         = [tool |-> tool, of |-> of, strict |-> strict, todo |-> todo, next |-> next,
            failed |-> {}, code |-> 0]
<1>1. PICK a : a = [NoCheck EXCEPT !.tool = tool]
  OBVIOUS
<1>2. PICK b : b = [a EXCEPT !.of = of]
  OBVIOUS
<1>3. PICK c : c = [b EXCEPT !.strict = strict]
  OBVIOUS
<1>4. PICK d : d = [c EXCEPT !.todo = todo]
  OBVIOUS
<1>5. PICK e : e = [d EXCEPT !.next = next]
  OBVIOUS
<1>6. a = [tool |-> tool, of |-> {}, strict |-> FALSE, todo |-> <<>>, next |-> <<>>,
           failed |-> {}, code |-> 0]
  BY <1>1 DEF NoCheck
<1>7. b = [tool |-> tool, of |-> of, strict |-> FALSE, todo |-> <<>>, next |-> <<>>,
           failed |-> {}, code |-> 0]
  BY <1>2, <1>6
<1>8. c = [tool |-> tool, of |-> of, strict |-> strict, todo |-> <<>>, next |-> <<>>,
           failed |-> {}, code |-> 0]
  BY <1>3, <1>7
<1>9. d = [tool |-> tool, of |-> of, strict |-> strict, todo |-> todo, next |-> <<>>,
           failed |-> {}, code |-> 0]
  BY <1>4, <1>8
<1>10. e = [tool |-> tool, of |-> of, strict |-> strict, todo |-> todo, next |-> next,
           failed |-> {}, code |-> 0]
  BY <1>5, <1>9
<1>11. e = [NoCheck EXCEPT !.tool = tool, !.of = of, !.strict = strict, !.todo = todo, !.next = next]
  BY <1>1, <1>2, <1>3, <1>4, <1>5, Zenon
<1>. QED BY <1>10, <1>11

(* What --validate leaves behind, field by field.                           *)
LEMMA EditorFields ==
  ASSUME NEW of, NEW bad, NEW code
  PROVE  [NoCheck EXCEPT !.tool = "editor", !.of = of, !.failed = bad, !.code = code]
         = [tool |-> "editor", of |-> of, strict |-> FALSE, todo |-> <<>>, next |-> <<>>,
            failed |-> bad, code |-> code]
<1>1. PICK a : a = [NoCheck EXCEPT !.tool = "editor"]
  OBVIOUS
<1>2. PICK b : b = [a EXCEPT !.of = of]
  OBVIOUS
<1>3. PICK c : c = [b EXCEPT !.failed = bad]
  OBVIOUS
<1>4. PICK d : d = [c EXCEPT !.code = code]
  OBVIOUS
<1>5. a = [tool |-> "editor", of |-> {}, strict |-> FALSE, todo |-> <<>>, next |-> <<>>,
           failed |-> {}, code |-> 0]
  BY <1>1 DEF NoCheck
<1>6. b = [tool |-> "editor", of |-> of, strict |-> FALSE, todo |-> <<>>, next |-> <<>>,
           failed |-> {}, code |-> 0]
  BY <1>2, <1>5
<1>7. c = [tool |-> "editor", of |-> of, strict |-> FALSE, todo |-> <<>>, next |-> <<>>,
           failed |-> bad, code |-> 0]
  BY <1>3, <1>6
<1>8. d = [tool |-> "editor", of |-> of, strict |-> FALSE, todo |-> <<>>, next |-> <<>>,
           failed |-> bad, code |-> code]
  BY <1>4, <1>7
<1>9. d = [NoCheck EXCEPT !.tool = "editor", !.of = of, !.failed = bad, !.code = code]
  BY <1>1, <1>2, <1>3, <1>4, Zenon
<1>. QED BY <1>8, <1>9

(* A check after a step, field by field.                                    *)
LEMMA WentOn ==
  ASSUME NEW tool, NEW of, NEW strict, NEW was, NEW then, NEW errors, NEW gave,
         check = [tool |-> tool, of |-> of, strict |-> strict, todo |-> was, next |-> then,
                  failed |-> errors, code |-> gave],
         NEW bad, NEW todo, NEW next, NEW code
  PROVE  [check EXCEPT !.failed = bad, !.todo = todo, !.next = next, !.code = code]
         = [tool |-> tool, of |-> of, strict |-> strict, todo |-> todo, next |-> next,
            failed |-> bad, code |-> code]
<1>1. PICK a : a = [check EXCEPT !.failed = bad]
  OBVIOUS
<1>2. PICK b : b = [a EXCEPT !.todo = todo]
  OBVIOUS
<1>3. PICK c : c = [b EXCEPT !.next = next]
  OBVIOUS
<1>4. PICK d : d = [c EXCEPT !.code = code]
  OBVIOUS
<1>5. a = [tool |-> tool, of |-> of, strict |-> strict, todo |-> was, next |-> then,
           failed |-> bad, code |-> gave]
  BY <1>1
<1>6. b = [tool |-> tool, of |-> of, strict |-> strict, todo |-> todo, next |-> then,
           failed |-> bad, code |-> gave]
  BY <1>2, <1>5
<1>7. c = [tool |-> tool, of |-> of, strict |-> strict, todo |-> todo, next |-> next,
           failed |-> bad, code |-> gave]
  BY <1>3, <1>6
<1>8. d = [tool |-> tool, of |-> of, strict |-> strict, todo |-> todo, next |-> next,
           failed |-> bad, code |-> code]
  BY <1>4, <1>7
<1>9. d = [check EXCEPT !.failed = bad, !.todo = todo, !.next = next, !.code = code]
  BY <1>1, <1>2, <1>3, <1>4, Zenon
<1>. QED BY <1>8, <1>9

(* The invariant holds at the beginning.                                    *)
LEMMA ChecksStart == ASSUME ChecksInit PROVE ChecksInv
<1>1. CheckTypes
  BY DEF ChecksInit, CheckTypes, NoCheck, Texts
<1>. QED BY <1>1 DEF ChecksInv, CheckedInv, LooksUp, ChecksInit, NoCheck, Looks, CodeTells, GoodSoFar, BadSoFar, Editing, ReportIsTrue,
              CheckEnded, Tools

(* Whoever writes a file in between adds to what a running check may see.   *)
LEMMA RewriteKeeps ==
  ASSUME ChecksInv, NEW f \in Recipes, NEW doc \in Texts, Rewrite(f, doc)
  PROVE  ChecksInv'
<1>. USE DEF ChecksInv, CheckedInv
<1>1. /\ recipe' = [recipe EXCEPT ![f] = doc] /\ check' = check /\ lookups' = lookups
      /\ seen' = IF check.todo = <<>> THEN seen ELSE seen \cup {recipe'}
  BY DEF Rewrite
<1>2. recipe' \in [Recipes -> Texts]
  BY <1>1 DEF CheckTypes
<1>3. CheckTypes'
  BY <1>1, <1>2 DEF CheckTypes
<1>4. seen \subseteq seen' /\ (check.todo # <<>> => recipe' \in seen')
      /\ (check.todo = <<>> => seen' = seen)
  BY <1>1
<1>5. Looks'
  BY <1>1, <1>4 DEF Looks
<1>6. CodeTells' /\ Editing'
  BY <1>1 DEF CodeTells, Editing
<1>7. GoodSoFar'
  <2>1. \A files, g : Reachable(files, g) => Reachable(files, g)'
    BY <1>4 DEF Reachable, Found
  <2>2. \A g, kind : WasShown(g, kind) => WasShown(g, kind)'
    BY <1>4, <2>1 DEF WasShown, Shown
  <2>. QED BY <1>1, <2>2 DEF GoodSoFar, Awaits, Demanded
<1>8. BadSoFar'
  <2>1. \A files, g : Broken(files, g) => Broken(files, g)'
    BY <1>4 DEF Broken, Missed
  <2>2. \A files, of, tool : Wrong(files, of, tool) => Wrong(files, of, tool)'
    BY <2>1 DEF Wrong
  <2>. QED BY <1>1, <1>4, <2>2 DEF BadSoFar
<1>10. LooksUp'
  <2>1. \A g, name : Found(g, name) => Found(g, name)'
    BY <1>4 DEF Found
  <2>2. \A files, g : LookedFor(files, g) => LookedFor(files, g)'
    BY <1>1, <1>4, <2>1 DEF LookedFor
  <2>. QED BY <1>1, <1>4, <2>2 DEF LooksUp
<1>9. ReportIsTrue'
  BY <1>1, <1>4 DEF ReportIsTrue, CheckEnded, Sometimes
<1>. QED BY <1>3, <1>5, <1>6, <1>7, <1>8, <1>9, <1>10

(* A new check has everything before it.                                    *)
LEMMA CheckBegins ==
  ASSUME ChecksInv, NEW tool \in Tools, NEW strict \in BOOLEAN, NEW todo \in Todos,
         BeginImmune(tool, strict, todo)
  PROVE  ChecksInv'
<1>. USE DEF ChecksInv, CheckedInv
<1>1. PICK of : of = {todo[i] : i \in DOMAIN todo}
  OBVIOUS
<1>2. /\ check' = [tool |-> tool, of |-> of, strict |-> strict, todo |-> todo,
                   next |-> <<"syntax">>, failed |-> {}, code |-> 0]
      /\ seen' = {recipe} /\ recipe' = recipe
  BY <1>1, BeganFields, Zenon DEF BeginImmune
<1>3. of \in SUBSET Recipes /\ todo # <<>>
  BY <1>1 DEF Todos
<1>4. CheckTypes'
  BY <1>2, <1>3 DEF CheckTypes
<1>5. Looks'
  BY <1>1, <1>2, <1>3 DEF Looks
<1>6. CodeTells' /\ Editing' /\ BadSoFar' /\ ReportIsTrue'
  BY <1>2, <1>3 DEF CodeTells, Editing, BadSoFar, ReportIsTrue, CheckEnded, Tools
<1>7. GoodSoFar'
  <2>1. \A g \in of : \A kind : Awaits(g, kind)'
    BY <1>1, <1>2, <1>3 DEF Awaits
  <2>. QED BY <1>2, <2>1 DEF GoodSoFar
<1>8. LooksUp'
  BY DEF LooksUp, BeginImmune
<1>. QED BY <1>4, <1>5, <1>6, <1>7, <1>8

(* dev_editor.py --validate reads once and reports the last practices.      *)
LEMMA ValidateKeeps ==
  ASSUME ChecksInv, NEW f \in Recipes, Validate(f)
  PROVE  ChecksInv'
<1>. USE DEF ChecksInv, CheckedInv
<1>1. PICK doc : doc = recipe[f]
  OBVIOUS
<1>2. PICK said : said = IF doc = Absent THEN {} ELSE Reported(doc)
  OBVIOUS
<1>3. PICK invalid \in BOOLEAN : invalid = (doc = Absent \/ ~doc.parses)
  OBVIOUS
<1>4. PICK bad : bad = {<<f, p>> : p \in said} \cup (IF invalid THEN {<<f, "syntax">>} ELSE {})
  OBVIOUS
<1>5. PICK code : code = IF invalid \/ said \cap AutoApply # {} THEN 1 ELSE 0
  OBVIOUS
<1>6. /\ check' = [tool |-> "editor", of |-> {f}, strict |-> FALSE, todo |-> <<>>, next |-> <<>>,
                   failed |-> bad, code |-> code]
      /\ seen' = {recipe} /\ recipe' = recipe
  <2>1. check' = [NoCheck EXCEPT !.tool = "editor", !.of = {f}, !.failed = bad, !.code = code]
    BY <1>1, <1>2, <1>3, <1>4, <1>5 DEF Validate
  <2>. QED BY <2>1, EditorFields DEF Validate
<1>7. CheckTypes'
  BY <1>5, <1>6 DEF CheckTypes
<1>8. Looks' /\ CodeTells' /\ GoodSoFar' /\ Editing'
  BY <1>6 DEF Looks, CodeTells, GoodSoFar, Editing, Tools
<1>9. BadSoFar'
  <2>1. ~Absent.parses
    BY DEF Absent, Document
  <2>2. code # 0 => ~doc.parses \/ AutoApply \ doc.meets # {}
    BY <1>2, <1>3, <1>5, <2>1 DEF Reported
  <2>. QED BY <1>1, <1>6, <2>2 DEF BadSoFar, Wrong
<1>10. ReportIsTrue'
  <2>1. SUFFICES ASSUME doc # Absent, NEW c \in DOMAIN Practices, NEW i \in DOMAIN Practices[c]
                 PROVE  /\ <<f, Practices[c][i]>> \in bad => Practices[c][i] \notin doc.meets
                        /\ Practices[c][i] \notin doc.meets /\ <<f, Practices[c][i]>> \notin bad
                             => i < Len(Practices[c])
    BY <1>1, <1>6 DEF ReportIsTrue, CheckEnded, Sometimes
  <2>2. /\ Practices[c] \in Seq(STRING \ {"syntax"}) /\ Practices[c] # <<>>
        /\ i \in 1..Len(Practices[c]) /\ Len(Practices[c]) \in Nat
    BY ChecksAssumption
  <2>3. Practices[c][i] # "syntax"
    BY <2>2
  <2>4. <<f, Practices[c][i]>> \in bad <=> Practices[c][i] \in Reported(doc)
    BY <1>2, <1>4, <2>1, <2>3
  <2>5. Practices[c][Len(Practices[c])] \notin doc.meets
          => Practices[c][Len(Practices[c])] \in Reported(doc)
    BY <2>2 DEF Reported
  <2>6. Practices[c][i] \in Reported(doc) => Practices[c][i] \notin doc.meets
    BY DEF Reported
  <2>. QED BY <2>2, <2>4, <2>5, <2>6
<1>11. LooksUp'
  BY DEF LooksUp, Validate
<1>. QED BY <1>7, <1>8, <1>9, <1>10, <1>11

(* The files of the arguments: the first and the others.                    *)
LEMMA Todo ==
  ASSUME NEW todo \in Todos
  PROVE  /\ Head(todo) \in Recipes /\ todo[1] = Head(todo) /\ 1 \in DOMAIN todo
         /\ Tail(todo) \in Todos \cup {<<>>}
         /\ \A i \in DOMAIN Tail(todo) : \E k \in DOMAIN todo : todo[k] = Tail(todo)[i]
         /\ \A i \in DOMAIN todo : i # 1 => Tail(todo) # <<>> /\ Tail(todo)[1] = todo[i]
<1>1. CASE \E f \in Recipes : todo = <<f>>
  BY <1>1
<1>2. CASE \E f, g \in Recipes : todo = <<f, g>>
  <2>1. PICK f \in Recipes, g \in Recipes : todo = <<f, g>>
    BY <1>2
  <2>2. Tail(todo) = <<g>> /\ <<g>> \in Todos
    BY <2>1 DEF Todos
  <2>3. DOMAIN todo = {1, 2} /\ todo[1] = f /\ todo[2] = g
    BY <2>1
  <2>. QED BY <2>1, <2>2, <2>3
<1>. QED BY <1>1, <1>2 DEF Todos

(* Three lists of one in a row.                                             *)
LEMMA Joined == \A a, b, c : (<<a>> \o <<b>>) \o <<c>> = <<a, b, c>>
<1>1. ASSUME NEW a, NEW b, NEW c PROVE (<<a>> \o <<b>>) \o <<c>> = <<a, b, c>>
  <2>1. PICK S : S = {a, b, c}
    OBVIOUS
  <2>2. PICK s : s = <<a>> \o <<b>>
    OBVIOUS
  <2>3. PICK u \in Seq(S) : u = <<c>> /\ Len(u) = 1 /\ u[1] = c
    <3>1. <<c>> \in Seq(S) /\ Len(<<c>>) = 1 /\ <<c>>[1] = c
      BY <2>1
    <3>. QED BY <3>1, Zenon
  <2>4. s \in Seq(S) /\ Len(s) = 2 /\ s[1] = a /\ s[2] = b
    <3>1. <<a>> \in Seq(S) /\ <<b>> \in Seq(S)
      BY <2>1
    <3>. QED BY <2>2, <3>1
  <2>5. PICK t : t = s \o u
    OBVIOUS
  <2>6. t \in Seq(S) /\ Len(t) = 3 /\ \A i \in 1..3 : t[i] = IF i <= 2 THEN s[i] ELSE u[i - 2]
    <3>1. t \in Seq(S) /\ Len(t) = Len(s) + Len(u)
          /\ \A i \in 1..(Len(s) + Len(u)) : t[i] = IF i <= Len(s) THEN s[i] ELSE u[i - Len(s)]
      BY <2>3, <2>4, <2>5, ConcatProperties, SMTT(30)
    <3>. QED BY <3>1, <2>3, <2>4
  <2>7. t[1] = a /\ t[2] = b /\ t[3] = c
    BY <2>3, <2>4, <2>6
  <2>8. t = <<a, b, c>>
    BY <2>6, <2>7
  <2>. QED BY <2>2, <2>3, <2>5, <2>8
<1>. QED BY <1>1

(* The checks that are left after one: they are those that were left, and   *)
(* after the first all that the options ask for.                            *)
LEMMA Rest ==
  ASSUME ChecksInv, check.todo # <<>>, NEW f, f = Head(check.todo), NEW kind, kind = Head(check.next),
         NEW fails \in BOOLEAN, NEW rest, rest = After(kind, f, fails)
  PROVE  /\ rest \in StrictRests \cup {<<>>, <<"roundtrip">>, <<"path">>}
         /\ kind # "syntax" <=> check.next # <<"syntax">>
         /\ rest # <<>> => f \in YamlFiles /\ (check.strict => rest \in StrictRests)
         /\ check.next # <<"syntax">> =>
              \A i \in DOMAIN check.next : check.next[i] = kind \/ \E k \in DOMAIN rest : rest[k] = check.next[i]
         /\ check.next = <<"syntax">> /\ ~fails /\ f \in YamlFiles /\ check.strict =>
              \A other \in {"roundtrip", "path", "required"} : \E k \in DOMAIN rest : rest[k] = other
<1>. USE DEF ChecksInv, CheckedInv
<1>1. check.todo \in Todos /\ check.todo[1] = f
  BY Todo DEF CheckTypes
<1>2. check.next # <<>> /\ (check.next # <<"syntax">> =>
        f \in YamlFiles /\ (check.strict => check.next \in StrictRests))
  BY <1>1 DEF Looks
<1>3. check.next \in StrictRests \cup {<<"syntax">>, <<"roundtrip">>, <<"path">>}
  BY <1>2 DEF CheckTypes
<1>4. CASE check.next = <<"syntax">>
  <2>1. kind = "syntax"
    BY <1>4
  <2>2. check.strict => Further(check.tool, check.strict) = <<"roundtrip", "path", "required">>
    <3>1. (<<"roundtrip">> \o <<"path">>) \o <<"required">> = <<"roundtrip", "path", "required">>
      BY Joined
    <3>. QED BY <3>1 DEF Further
  <2>3. ~check.strict => Further(check.tool, check.strict) \in {<<>>, <<"roundtrip">>, <<"path">>}
    <3>1. (<<>> \o <<>>) \o <<>> = <<>> /\ (<<"roundtrip">> \o <<>>) \o <<>> = <<"roundtrip">>
          /\ (<<>> \o <<"path">>) \o <<>> = <<"path">>
      OBVIOUS
    <3>2. check.tool = "roundtrip" => check.tool # "path-check"
      OBVIOUS
    <3>. QED BY <3>1, <3>2, Zenon DEF Further
  <2>4. check.strict \in BOOLEAN
    BY DEF CheckTypes
  <2>. QED BY <1>4, <2>1, <2>2, <2>3, <2>4 DEF After, StrictRests
<1>5. ASSUME check.next # <<"syntax">>, kind # "syntax", rest = Tail(check.next),
             rest \in StrictRests \cup {<<>>}, check.next \in StrictRests \/ rest = <<>>,
             \A i \in DOMAIN check.next : check.next[i] = kind \/ \E k \in DOMAIN rest : rest[k] = check.next[i]
      PROVE  /\ rest \in StrictRests \cup {<<>>, <<"roundtrip">>, <<"path">>}
             /\ rest # <<>> => f \in YamlFiles /\ (check.strict => rest \in StrictRests)
  BY <1>2, <1>5, Zenon
<1>6. CASE check.next \in {<<"roundtrip">>, <<"path">>, <<"required">>}
  <2>0. PICK name \in {"roundtrip", "path", "required"} : check.next = <<name>>
    <3>1. check.next = <<"roundtrip">> \/ check.next = <<"path">> \/ check.next = <<"required">>
      BY <1>6
    <3>. QED BY <3>1, Zenon
  <2>1. kind # "syntax" /\ Tail(check.next) = <<>> /\ check.next # <<"syntax">>
    <3>1. Head(<<name>>) = name /\ Tail(<<name>>) = <<>>
      OBVIOUS
    <3>2. name # "syntax"
      OBVIOUS
    <3>. QED BY <2>0, <3>1, <3>2
  <2>2. \A i \in DOMAIN check.next : check.next[i] = kind
    <3>2. kind = name /\ DOMAIN check.next = {1} /\ check.next[1] = name
      BY <2>0
    <3>. QED BY <3>2
  <2>3. rest = Tail(check.next)
    BY <2>1 DEF After
  <2>. QED BY <1>5, <2>1, <2>2, <2>3
<1>7. CASE check.next = <<"path", "required">>
  <2>1. kind = "path" /\ Tail(check.next) = <<"required">> /\ check.next # <<"syntax">>
    BY <1>7
  <2>2. rest = <<"required">>
    BY <2>1 DEF After
  <2>. QED BY <1>5, <1>7, <2>1, <2>2 DEF StrictRests
<1>8. CASE check.next = <<"roundtrip", "path", "required">>
  <2>1. kind = "roundtrip" /\ Tail(check.next) = <<"path", "required">> /\ check.next # <<"syntax">>
    BY <1>8
  <2>2. rest = <<"path", "required">>
    BY <2>1 DEF After
  <2>. QED BY <1>5, <1>8, <2>1, <2>2 DEF StrictRests
<1>. QED BY <1>3, <1>4, <1>6, <1>7, <1>8 DEF StrictRests

(* A check of a file that is over or not, be it passed or failed: what is   *)
(* true of it then.                                                         *)
LEMMA ResultKeeps ==
  ASSUME ChecksInv, check.todo # <<>>, NEW f, f = Head(check.todo), NEW kind, kind = Head(check.next),
         NEW fails \in BOOLEAN, NEW over \in BOOLEAN, check' = Result(f, kind, fails, over),
         recipe' = recipe, seen' = seen,
         over /\ ~fails /\ check.code = 0 /\ kind \in Demanded /\ f \in YamlFiles => WasShown(f, kind),
         fails /\ HasYaml => \E files \in seen : Wrong(files, check.of, check.tool),
         ~over => kind # "syntax"
  PROVE  CheckedInv'
<1>. USE DEF ChecksInv, CheckedInv
<1>4. PICK bad : bad = check.failed \cup (IF fails THEN {<<f, kind>>} ELSE {})
  OBVIOUS
<1>5. PICK rest : rest = After(kind, f, fails)
  OBVIOUS
<1>6. /\ check.todo \in Todos /\ f \in Recipes /\ check.todo[1] = f /\ 1 \in DOMAIN check.todo
      /\ Tail(check.todo) \in Todos \cup {<<>>}
      /\ \A i \in DOMAIN Tail(check.todo) : \E k \in DOMAIN check.todo : check.todo[k] = Tail(check.todo)[i]
      /\ \A i \in DOMAIN check.todo : i # 1 => Tail(check.todo) # <<>> /\ Tail(check.todo)[1] = check.todo[i]
  BY Todo DEF CheckTypes
<1>7. /\ recipe \in seen /\ check.tool \in Tools /\ check.next # <<>> /\ f \in check.of
      /\ \A i \in DOMAIN check.todo : check.todo[i] \in check.of
      /\ check.next # <<"syntax">> => f \in YamlFiles /\ (check.strict => check.next \in StrictRests)
  BY <1>6 DEF Looks
<1>8. /\ rest \in StrictRests \cup {<<>>, <<"roundtrip">>, <<"path">>}
      /\ kind # "syntax" <=> check.next # <<"syntax">>
      /\ rest # <<>> => f \in YamlFiles /\ (check.strict => rest \in StrictRests)
      /\ check.next # <<"syntax">> =>
           \A i \in DOMAIN check.next : check.next[i] = kind \/ \E k \in DOMAIN rest : rest[k] = check.next[i]
      /\ check.next = <<"syntax">> /\ ~fails /\ f \in YamlFiles /\ check.strict =>
           \A other \in {"roundtrip", "path", "required"} : \E k \in DOMAIN rest : rest[k] = other
  BY <1>5, Rest
<1>9. PICK tool, of, strict, was, then, errors, gave :
        check = [tool |-> tool, of |-> of, strict |-> strict, todo |-> was, next |-> then,
                 failed |-> errors, code |-> gave]
  BY DEF CheckTypes
<1>10. /\ tool = check.tool /\ of = check.of /\ strict = check.strict /\ errors = check.failed
       /\ gave = check.code
  BY <1>9
<1>1. PICK todo : todo = IF over /\ rest = <<>> THEN Tail(check.todo) ELSE check.todo
  OBVIOUS
<1>2. PICK next : next = IF ~over THEN check.next ELSE IF rest # <<>> THEN rest ELSE <<"syntax">>
  OBVIOUS
<1>3. PICK code : code = IF bad # {} THEN 1 ELSE 0
  OBVIOUS
<1>11. check' = [tool |-> tool, of |-> of, strict |-> strict, todo |-> todo, next |-> next,
                failed |-> bad, code |-> code]
  <3>1. check' = [check EXCEPT !.failed = bad, !.todo = todo, !.next = next, !.code = code]
    BY <1>1, <1>2, <1>3, <1>4, <1>5 DEF Result
  <3>. QED BY <1>9, <3>1, WentOn
<1>12. todo \in Todos \cup {<<>>} /\ \A i \in DOMAIN todo : todo[i] \in of
  BY <1>6, <1>7, <1>10, <1>1
<1>13. CheckTypes'
  <3>1. next \in StrictRests \cup {<<>>, <<"syntax">>, <<"roundtrip">>, <<"path">>}
    <4>1. check.next \in StrictRests \cup {<<>>, <<"syntax">>, <<"roundtrip">>, <<"path">>}
      BY DEF CheckTypes
    <4>. QED BY <1>8, <1>2, <4>1
  <3>2. code \in {0, 1}
    BY <1>3
  <3>3. check' \in [tool : Tools \cup {"none", "editor"}, of : SUBSET Recipes, strict : BOOLEAN,
              todo : Todos \cup {<<>>}, failed : {check'.failed}, code : {0, 1},
              next : StrictRests \cup {<<>>, <<"syntax">>, <<"roundtrip">>, <<"path">>}]
    BY <1>10, <1>11, <1>12, <3>1, <3>2 DEF CheckTypes
  <3>. QED BY <3>3 DEF CheckTypes
<1>14. Looks'
  <3>1. CASE over
    <4>1. next # <<>> /\ (next # <<"syntax">> => rest # <<>> /\ next = rest /\ todo = check.todo)
      BY <1>1, <1>2, <3>1
    <4>. QED BY <1>6, <1>7, <1>8, <1>10, <1>11, <1>12, <4>1 DEF Looks
  <3>2. CASE ~over
    <4>1. next = check.next /\ todo = check.todo
      BY <1>1, <1>2, <3>2
    <4>. QED BY <1>6, <1>7, <1>10, <1>11, <4>1 DEF Looks
  <3>. QED BY <3>1, <3>2
<1>15. CodeTells' /\ Editing' /\ ReportIsTrue'
  <3>1. tool # "editor"
    BY <1>7, <1>10 DEF Tools
  <3>2. check'.tool = tool /\ check'.failed = bad /\ check'.code = code
    BY <1>11
  <3>3. CodeTells'
    BY <1>3, <3>2 DEF CodeTells
  <3>4. Editing'
    BY <3>1, <3>2 DEF Editing
  <3>5. ReportIsTrue'
    BY <3>1, <3>2 DEF ReportIsTrue
  <3>. QED BY <3>3, <3>4, <3>5
<1>16. BadSoFar'
  <3>1. bad # {} => fails \/ check.code # 0
    BY <1>4, <1>7 DEF CodeTells, Tools
  <3>2. code # 0 /\ HasYaml => \E files \in seen : Wrong(files, of, tool)
    BY <1>3, <1>10, <3>1 DEF BadSoFar
  <3>3. \A files : Wrong(files, of, tool)' <=> Wrong(files, of, tool)
    BY DEF Wrong, Broken, Missed
  <3>. QED BY <1>11, <3>2, <3>3 DEF BadSoFar
<1>17. GoodSoFar'
  <3>0. \A g, other : WasShown(g, other)' <=> WasShown(g, other)
    BY DEF WasShown, Shown, Reachable, Found
  <3>. SUFFICES ASSUME code = 0, NEW g \in check.of \cap YamlFiles, NEW other \in Demanded
                PROVE  WasShown(g, other) \/ Awaits(g, other)'
    BY <1>10, <1>11, <3>0 DEF GoodSoFar, Demanded
  <3>1. ~fails /\ check.code = 0
    <4>1. check.tool # "editor"
      BY <1>7 DEF Tools
    <4>2. bad = {}
      BY <1>3
    <4>3. ~fails /\ check.failed = {}
      BY <1>4, <4>2
    <4>. QED BY <4>1, <4>3 DEF CodeTells
  <3>2. WasShown(g, other) \/ Awaits(g, other)
    BY <1>7, <3>1 DEF GoodSoFar
  <3>3. CASE ~over
    <4>1. check'.next = check.next /\ check'.todo = check.todo
      BY <1>1, <1>2, <1>11, <3>3
    <4>. QED BY <3>2, <4>1 DEF Awaits
  <3>4. CASE over
    <4>3. ASSUME NEW i \in DOMAIN check.todo, i # 1, check.todo[i] = g PROVE Awaits(g, other)'
      <5>1. CASE rest = <<>>
        <6>1. check'.todo = Tail(check.todo) /\ check'.next = <<"syntax">>
          <7>1. todo = Tail(check.todo)
            BY <1>1, <3>4, <5>1, Zenon
          <7>2. next = <<"syntax">>
            BY <1>2, <3>4, <5>1, Zenon
          <7>3. check'.todo = todo /\ check'.next = next
            BY <1>11
          <7>. QED BY <7>1, <7>2, <7>3
        <6>2. Tail(check.todo) # <<>> /\ Tail(check.todo)[1] = g
          BY <1>6, <4>3
        <6>. QED BY <6>1, <6>2 DEF Awaits
      <5>2. CASE rest # <<>>
        BY <1>1, <1>11, <4>3, <5>2 DEF Awaits
      <5>. QED BY <5>1, <5>2
    <4>4. ASSUME g = f, NEW k \in DOMAIN rest, rest[k] = other PROVE Awaits(g, other)'
      <5>1. rest # <<>>
        BY <4>4
      <5>2. todo = check.todo /\ next = rest
        BY <1>1, <1>2, <3>4, <5>1
      <5>. QED BY <1>6, <1>11, <4>4, <5>2 DEF Awaits
    <4>5. ASSUME g = f, other = kind PROVE WasShown(g, other)
      BY <3>1, <3>4, <4>5
    <4>6. ASSUME g = f, check.next = <<"syntax">> PROVE WasShown(g, other) \/ Awaits(g, other)'
      <5>1. CASE other = "syntax"
        BY <1>8, <4>5, <4>6, <5>1
      <5>2. CASE other # "syntax"
        BY <1>8, <3>1, <4>4, <4>6, <5>2 DEF Demanded
      <5>. QED BY <5>1, <5>2
    <4>7. ASSUME g = f, check.next # <<"syntax">>, NEW i \in DOMAIN check.next, check.next[i] = other
          PROVE  WasShown(g, other) \/ Awaits(g, other)'
      BY <1>8, <4>4, <4>5, <4>7
    <4>. QED BY <1>6, <3>2, <4>3, <4>6, <4>7 DEF Awaits
  <3>. QED BY <3>3, <3>4
<1>. QED BY <1>13, <1>14, <1>15, <1>16, <1>17

(* Where every name that was looked up was found, everything is reachable.  *)
LEMMA AllFound ==
  ASSUME CheckTypes, NEW files \in seen, NEW f \in Recipes,
         files[f].mapping => \A n \in Referenced(files[f]) : Found(f, n)
  PROVE  Reachable(files, f)
<1>1. files[f] \in Texts
  BY DEF CheckTypes
<1>2. files[f].top.kind = "none" => files[f].top.names = {}
  BY <1>1, ChecksAssumption DEF Texts, Absent, Document, NoTop
<1>. QED BY <1>2 DEF Reachable, Referenced, Listing

(* One check of one file, be it passed, failed or raised.                   *)
LEMMA CheckOneKeeps ==
  ASSUME ChecksInv, CheckOne
  PROVE  ChecksInv'
<1>. USE DEF ChecksInv, CheckedInv
<1>1. PICK f : f = Head(check.todo)
  OBVIOUS
<1>2. PICK kind : kind = Head(check.next)
  OBVIOUS
<1>3. PICK fails \in BOOLEAN : fails = Fails(kind, recipe, f)
  <2>1. check.next \in StrictRests \cup {<<"syntax">>, <<"roundtrip">>, <<"path">>}
    BY DEF CheckTypes, Looks, CheckOne
  <2>2. kind \in {"syntax", "roundtrip", "path", "required"}
    BY <1>2, <2>1 DEF StrictRests
  <2>3. Fails(kind, recipe, f) \in BOOLEAN
    BY <2>2 DEF Fails
  <2>. QED BY <2>3
<1>5. check.todo \in Todos /\ f \in Recipes /\ check.todo # <<>> /\ check.todo[1] = f /\ lookups = {}
  BY <1>1, Todo DEF CheckOne, CheckTypes
<1>6. /\ recipe \in seen /\ check.tool \in Tools /\ check.next # <<>> /\ f \in check.of
      /\ check.next # <<"syntax">> => f \in YamlFiles /\ (check.strict => check.next \in StrictRests)
  BY <1>1, <1>5, Todo DEF Looks
<1>7. kind # "syntax" <=> check.next # <<"syntax">>
  BY <1>1, <1>2, <1>3, <1>5, Rest
<1>8. seen' = seen /\ recipe' = recipe
  BY DEF CheckOne
<1>9. CASE /\ Raises(kind, recipe, f)
           /\ check' = [check EXCEPT !.failed = @ \cup {<<f, "raised">>},
                                    !.todo = <<>>, !.next = <<>>, !.code = 1]
           /\ lookups' = {}
  <2>0. PICK tool, of, strict, was, then, errors, gave :
          check = [tool |-> tool, of |-> of, strict |-> strict, todo |-> was, next |-> then,
                   failed |-> errors, code |-> gave]
    BY DEF CheckTypes
  <2>00. tool = check.tool /\ of = check.of /\ strict = check.strict /\ errors = check.failed
    BY <2>0
  <2>1. check' = [tool |-> tool, of |-> of, strict |-> strict, todo |-> <<>>, next |-> <<>>,
                  failed |-> errors \cup {<<f, "raised">>}, code |-> 1]
    <3>1. check' = [check EXCEPT !.failed = check.failed \cup {<<f, "raised">>},
                                 !.todo = <<>>, !.next = <<>>, !.code = 1]
      BY <1>9
    <3>. QED BY <2>0, <2>00, <3>1, WentOn
  <2>2. f \in YamlFiles /\ recipe[f].mapping /\ Listing(recipe[f]).kind = "odd"
    BY <1>6, <1>7, <1>9 DEF Raises
  <2>3. CheckTypes'
    BY <1>8, <2>00, <2>1 DEF CheckTypes
  <2>4. BadSoFar'
    BY <1>6, <1>8, <2>00, <2>1, <2>2 DEF BadSoFar, Wrong, Broken
  <2>5. tool \in Tools /\ tool # "editor"
    BY <1>6, <2>00 DEF Tools
  <2>6. /\ check'.tool # "editor" /\ check'.todo = <<>> /\ check'.code = 1
        /\ check'.failed # {}
    BY <2>1, <2>5
  <2>7. Looks' /\ CodeTells' /\ GoodSoFar' /\ Editing'
    BY <2>6 DEF Looks, CodeTells, GoodSoFar, Editing
  <2>8. ReportIsTrue'
    BY <2>6 DEF ReportIsTrue
  <2>9. LooksUp'
    BY <1>9 DEF LooksUp
  <2>. QED BY <2>3, <2>4, <2>7, <2>8, <2>9
<1>10. CASE /\ ~Raises(kind, recipe, f)
            /\ lookups' = IF /\ kind = "path" /\ check.strict
                             /\ Loads(recipe, f) /\ recipe[f].mapping
                          THEN Lookups(f, recipe[f]) ELSE {}
            /\ check' = Result(f, kind, Fails(kind, recipe, f), lookups' = {})
  <2>1. PICK over \in BOOLEAN : over = (lookups' = {})
    OBVIOUS
  <2>2. check' = Result(f, kind, fails, over)
    BY <1>3, <1>10, <2>1
  <2>3. kind = "path" /\ check.strict /\ Loads(recipe, f) /\ recipe[f].mapping
          => lookups' = Lookups(f, recipe[f])
    BY <1>10
  <2>4. \A n \in Referenced(recipe[f]) : \E c \in Recipes : <<n, c>> \in Lookups(f, recipe[f])
    <3>. SUFFICES ASSUME NEW n \in Referenced(recipe[f])
                  PROVE  \E c \in Recipes : <<n, c>> \in Lookups(f, recipe[f])
      OBVIOUS
    <3>1. recipe[f] \in Texts
      BY <1>5 DEF CheckTypes
    <3>2. n \in References
      BY <3>1, ChecksAssumption DEF Referenced, Listing, Texts, Absent, Document, NoTop
    <3>3. PICK c \in Candidates[<<f, n>>] : c \in Recipes
      <4>1. Candidates[<<f, n>>] \in (SUBSET Recipes) \ {{}}
        BY <1>5, <3>2, ChecksAssumption
      <4>. QED BY <4>1
    <3>. QED BY <3>2, <3>3 DEF Lookups
  <2>5. over /\ ~fails /\ check.code = 0 /\ kind \in Demanded /\ f \in YamlFiles => WasShown(f, kind)
    <3>. SUFFICES ASSUME over, ~fails, kind \in Demanded, f \in YamlFiles PROVE WasShown(f, kind)
      OBVIOUS
    <3>1. kind \in {"syntax", "roundtrip", "path", "required"} /\ (kind # "syntax" => check.strict)
      BY DEF Demanded
    <3>2. kind = "syntax" \/ Loads(recipe, f)
      BY <1>3, <3>1 DEF Fails
    <3>3. recipe[f].parses
      BY <1>3, <3>2 DEF Fails, Loads
    <3>4. kind = "roundtrip" => recipe[f].same
      BY <1>3 DEF Fails
    <3>5. kind = "required" => Complete(recipe, f)
      BY <1>3 DEF Fails, Complete
    <3>6. kind = "path" => Reachable(recipe, f)
      <4>. SUFFICES ASSUME kind = "path", recipe[f].mapping PROVE Reachable(recipe, f)
        BY DEF Reachable
      <4>1. Lookups(f, recipe[f]) = {}
        BY <2>1, <2>3, <3>1, <3>2
      <4>2. \A n \in Referenced(recipe[f]) : Found(f, n)
        BY <2>4, <4>1
      <4>. QED BY <1>5, <1>6, <4>2, AllFound
    <3>. QED BY <1>6, <3>3, <3>4, <3>5, <3>6 DEF WasShown, Shown
  <2>6. fails /\ HasYaml => \E files \in seen : Wrong(files, check.of, check.tool)
    <3>. SUFFICES ASSUME fails, HasYaml PROVE Wrong(recipe, check.of, check.tool)
      BY <1>6
    <3>1. f \in YamlFiles
      BY <1>3, <1>6, <1>7 DEF Fails
    <3>2. kind \in {"syntax", "roundtrip", "path", "required"}
      BY <1>2, <1>6, <1>7 DEF CheckTypes, StrictRests
    <3>3. ~(recipe[f].parses /\ recipe[f].same /\ Complete(recipe, f))
      BY <1>3, <3>2 DEF Fails, Loads, Complete
    <3>. QED BY <1>6, <3>1, <3>3 DEF Wrong, Broken
  <2>7. ~over => /\ kind = "path" /\ check.strict /\ Loads(recipe, f) /\ recipe[f].mapping
                 /\ lookups' = Lookups(f, recipe[f]) /\ check'.todo = check.todo
                 /\ check'.next = check.next /\ check'.strict = check.strict
    <3>. SUFFICES ASSUME ~over
                  PROVE  /\ kind = "path" /\ check.strict /\ Loads(recipe, f) /\ recipe[f].mapping
                         /\ lookups' = Lookups(f, recipe[f]) /\ check'.todo = check.todo
                         /\ check'.next = check.next /\ check'.strict = check.strict
      OBVIOUS
    <3>1. kind = "path" /\ check.strict /\ Loads(recipe, f) /\ recipe[f].mapping
          /\ lookups' = Lookups(f, recipe[f])
      BY <1>10, <2>1
    <3>2. PICK tool, of, strict, was, then, errors, gave :
            check = [tool |-> tool, of |-> of, strict |-> strict, todo |-> was, next |-> then,
                     failed |-> errors, code |-> gave]
      BY DEF CheckTypes
    <3>3. PICK bad, code : check' = [check EXCEPT !.failed = bad, !.todo = was, !.next = then, !.code = code]
      <4>1. was = check.todo /\ then = check.next
        BY <3>2
      <4>. QED BY <2>2, <4>1 DEF Result
    <3>4. check' = [tool |-> tool, of |-> of, strict |-> strict, todo |-> was, next |-> then,
                    failed |-> bad, code |-> code]
      BY <3>2, <3>3, WentOn
    <3>. QED BY <3>1, <3>2, <3>4
  <2>8. CheckedInv'
    <3>1. ~over => kind # "syntax"
      BY <2>7
    <3>2. check.todo # <<>>
      BY <1>5
    <3>. QED BY <1>1, <1>2, <1>8, <2>2, <2>5, <2>6, <3>1, <3>2, ResultKeeps DEF CheckedInv
  <2>9. LooksUp'
    <3>. SUFFICES ASSUME ~over PROVE LooksUp'
      BY <2>1 DEF LooksUp
    <3>1. lookups' \subseteq References \X Recipes
      BY <2>7 DEF Lookups
    <3>2. \A n \in Referenced(recipe[f]) : \E u \in lookups' : u[1] = n
      <4>. SUFFICES ASSUME NEW n \in Referenced(recipe[f]) PROVE \E u \in lookups' : u[1] = n
        OBVIOUS
      <4>1. PICK c \in Recipes : <<n, c>> \in lookups'
        BY <2>4, <2>7
      <4>2. <<n, c>>[1] = n
        OBVIOUS
      <4>. QED BY <4>1, <4>2
    <3>3. \A u \in lookups' :
            /\ u[1] \in Referenced(recipe[f]) /\ u[2] \in Candidates[<<f, u[1]>>]
            /\ \A c \in Candidates[<<f, u[1]>>] : <<u[1], c>> \in lookups'
      <4>. SUFFICES ASSUME NEW u \in References \X Recipes, u[1] \in Referenced(recipe[f]),
                           u[2] \in Candidates[<<f, u[1]>>], NEW c \in Candidates[<<f, u[1]>>]
                    PROVE  <<u[1], c>> \in Lookups(f, recipe[f])
        BY <2>7 DEF Lookups
      <4>1. Candidates[<<f, u[1]>>] \in SUBSET Recipes
        BY <1>5, ChecksAssumption
      <4>. QED BY <4>1 DEF Lookups
    <3>4. LookedFor(recipe, f)'
      BY <1>8, <2>7, <3>2, <3>3 DEF LookedFor, Loads
    <3>5. /\ check'.todo # <<>> /\ check'.strict /\ check'.next # <<"syntax">>
          /\ Head(check'.next) = "path" /\ Head(check'.todo) = f
      <4>1. "path" # "syntax"
        OBVIOUS
      <4>. QED BY <1>1, <1>2, <1>5, <1>7, <2>7, <4>1
    <3>. QED BY <1>6, <1>8, <3>1, <3>4, <3>5 DEF LooksUp
  <2>. QED BY <2>8, <2>9
<1>. QED BY <1>1, <1>2, <1>9, <1>10 DEF CheckOne

(* A file that a name may mean is there or not, and is the last or not.     *)
LEMMA LookUpKeeps ==
  ASSUME ChecksInv, NEW t \in lookups, LookUp(t)
  PROVE  ChecksInv'
<1>. USE DEF ChecksInv, CheckedInv
<1>1. PICK f : f = Head(check.todo)
  OBVIOUS
<1>2. PICK sameName : sameName = {u \in lookups : u[1] = t[1]}
  OBVIOUS
<1>3. PICK found \in BOOLEAN : found = (recipe[t[2]] # Absent)
  OBVIOUS
<1>4. PICK fails \in BOOLEAN : fails = (~found /\ sameName = {t})
  OBVIOUS
<1>5. PICK over \in BOOLEAN : over = (lookups' = {})
  OBVIOUS
<1>6. /\ lookups' = lookups \ (IF found THEN sameName ELSE {t})
      /\ check' = Result(f, "path", fails, over)
      /\ recipe' = recipe /\ seen' = seen
  BY <1>1, <1>2, <1>3, <1>4, <1>5 DEF LookUp
<1>7. /\ check.todo # <<>> /\ check.strict /\ check.next # <<"syntax">> /\ Head(check.next) = "path"
      /\ lookups \subseteq References \X Recipes
  BY DEF LooksUp
<1>8. PICK files \in seen : LookedFor(files, f)
  BY <1>1 DEF LooksUp
<1>9. /\ recipe \in seen /\ check.tool \in Tools /\ f \in check.of /\ f \in YamlFiles /\ f \in Recipes
  <2>1. check.todo \in Todos
    BY <1>7 DEF CheckTypes
  <2>. QED BY <1>1, <1>7, <2>1, Todo DEF Looks
<1>10. t[1] \in Referenced(files[f]) /\ t[2] \in Candidates[<<f, t[1]>>]
  BY <1>8 DEF LookedFor
<1>11. found => Found(f, t[1])
  BY <1>3, <1>9, <1>10 DEF Found
<1>12. fails => Missed(f, t[1])
  <2>. SUFFICES ASSUME ~found, sameName = {t}, NEW c \in Candidates[<<f, t[1]>>]
                PROVE  \E others \in seen : others[c] = Absent
    BY <1>4 DEF Missed
  <2>1. <<t[1], c>> \in lookups \/ \E others \in seen : others[c] = Absent
    BY <1>8 DEF LookedFor
  <2>2. CASE <<t[1], c>> \in lookups
    <3>1. <<t[1], c>> = t
      BY <1>2, <2>2
    <3>2. c = t[2]
      BY <3>1
    <3>. QED BY <1>3, <1>9, <3>2
  <2>. QED BY <2>1, <2>2
<1>13. check.code # 0 \/ fails => check'.code # 0
  <2>1. check.code # 0 \/ fails => check.failed \cup (IF fails THEN {<<f, "path">>} ELSE {}) # {}
    BY <1>9 DEF CodeTells, Tools
  <2>. QED BY <1>6, <2>1 DEF Result, CheckTypes
<1>14. \A n \in Referenced(files[f]) :
         Found(f, n) \/ check.code # 0 \/ fails \/ \E u \in lookups' : u[1] = n
  <2>. SUFFICES ASSUME NEW n \in Referenced(files[f]), NEW u \in lookups, u[1] = n,
                       ~Found(f, n), ~fails
                PROVE  \E v \in lookups' : v[1] = n
    BY <1>8 DEF LookedFor
  <2>1. CASE n = t[1]
    <3>1. ~found
      BY <1>11, <2>1
    <3>2. PICK v \in sameName : v # t
      BY <1>2, <1>4, <3>1
    <3>. QED BY <1>2, <1>6, <2>1, <3>1, <3>2
  <2>2. CASE n # t[1]
    BY <1>2, <1>6, <2>2
  <2>. QED BY <2>1, <2>2
<1>15. over /\ ~fails /\ check.code = 0 => WasShown(f, "path")
  <2>. SUFFICES ASSUME over, ~fails, check.code = 0 PROVE Shown(files, f, "path")
    BY DEF WasShown
  <2>1. \A n \in Referenced(files[f]) : Found(f, n)
    BY <1>5, <1>14
  <2>2. Reachable(files, f)
    BY <1>9, <2>1, AllFound
  <2>. QED BY <1>8, <2>2 DEF Shown, LookedFor
<1>16. fails => \E w \in seen : Wrong(w, check.of, check.tool)
  <2>. SUFFICES ASSUME fails PROVE Wrong(files, check.of, check.tool)
    OBVIOUS
  <2>1. Broken(files, f)
    BY <1>8, <1>10, <1>12 DEF Broken, LookedFor
  <2>. QED BY <1>9, <2>1 DEF Wrong
<1>17. CheckedInv'
  <2>1. "path" # "syntax"
    OBVIOUS
  <2>. QED BY <1>1, <1>6, <1>7, <1>15, <1>16, <2>1, ResultKeeps DEF CheckedInv
<1>18. LooksUp'
  <2>. SUFFICES ASSUME ~over PROVE LooksUp'
    BY <1>5 DEF LooksUp
  <2>1. check'.todo = check.todo /\ check'.next = check.next /\ check'.strict = check.strict
    <3>2. PICK tool, of, strict, was, then, errors, gave :
            check = [tool |-> tool, of |-> of, strict |-> strict, todo |-> was, next |-> then,
                     failed |-> errors, code |-> gave]
      BY DEF CheckTypes
    <3>3. PICK bad, code : check' = [check EXCEPT !.failed = bad, !.todo = was, !.next = then, !.code = code]
      <4>1. was = check.todo /\ then = check.next
        BY <3>2
      <4>. QED BY <1>6, <4>1 DEF Result
    <3>4. check' = [tool |-> tool, of |-> of, strict |-> strict, todo |-> was, next |-> then,
                    failed |-> bad, code |-> code]
      BY <3>2, <3>3, WentOn
    <3>. QED BY <3>2, <3>4
  <2>2. \A u \in lookups' :
          /\ u \in lookups
          /\ u[1] \in Referenced(files[f]) /\ u[2] \in Candidates[<<f, u[1]>>]
    BY <1>6, <1>8 DEF LookedFor
  <2>3. ASSUME NEW u \in lookups', NEW c \in Candidates[<<f, u[1]>>]
        PROVE  <<u[1], c>> \in lookups' \/ \E others \in seen : others[c] = Absent
    <3>1. <<u[1], c>> \in lookups \/ \E others \in seen : others[c] = Absent
      BY <1>8, <2>2 DEF LookedFor
    <3>2. CASE <<u[1], c>> \in lookups /\ <<u[1], c>> \notin lookups'
      <4>1. ~found
        <5>1. <<u[1], c>> \in sameName => u \in sameName
          BY <1>2, <2>2
        <5>. QED BY <1>6, <3>2, <5>1
      <4>2. <<u[1], c>> = t
        BY <1>6, <3>2, <4>1
      <4>3. c = t[2]
        BY <4>2
      <4>. QED BY <1>3, <1>9, <4>1, <4>3
    <3>. QED BY <3>1, <3>2
  <2>4. LookedFor(files, f)'
    <3>1. \A n : Found(f, n)' <=> Found(f, n)
      BY <1>6 DEF Found
    <3>. QED BY <1>6, <1>8, <1>13, <1>14, <2>2, <2>3, <3>1 DEF LookedFor
  <2>5. lookups' \subseteq References \X Recipes
    BY <1>7, <2>2
  <2>. QED BY <1>1, <1>6, <1>7, <2>1, <2>4, <2>5 DEF LooksUp
<1>. QED BY <1>17, <1>18

(* Every step keeps the invariant.                                          *)
LEMMA ChecksStep == ASSUME ChecksInv, [ChecksNext]_validationVars PROVE ChecksInv'
<1>1. CASE UNCHANGED validationVars
  <2>1. check' = check /\ seen' = seen /\ recipe' = recipe /\ lookups' = lookups
    BY <1>1 DEF validationVars
  <2>2. CheckedInv'
    <3>1. CheckTypes' /\ Looks' /\ CodeTells' /\ Editing'
      BY <2>1 DEF ChecksInv, CheckedInv, CheckTypes, Looks, CodeTells, Editing
    <3>2. ReportIsTrue'
      BY <2>1 DEF ChecksInv, CheckedInv, ReportIsTrue, CheckEnded, Sometimes
    <3>3. GoodSoFar'
      <4>1. \A f, kind : WasShown(f, kind)' <=> WasShown(f, kind)
        BY <2>1 DEF WasShown, Shown, Reachable, Found
      <4>. QED BY <2>1, <4>1 DEF ChecksInv, CheckedInv, GoodSoFar, Awaits, Demanded
    <3>4. BadSoFar'
      <4>1. \A files, of, tool : Wrong(files, of, tool)' <=> Wrong(files, of, tool)
        BY <2>1 DEF Wrong, Broken, Missed
      <4>. QED BY <2>1, <4>1 DEF ChecksInv, CheckedInv, BadSoFar
    <3>. QED BY <3>1, <3>2, <3>3, <3>4 DEF CheckedInv
  <2>3. LooksUp'
    BY <2>1 DEF ChecksInv, LooksUp, LookedFor, Found
  <2>. QED BY <2>2, <2>3 DEF ChecksInv
<1>. QED BY <1>1, CheckBegins, CheckOneKeeps, LookUpKeeps, ValidateKeeps, RewriteKeeps DEF ChecksNext, Texts

(* The invariant says what the property says.                               *)
LEMMA ChecksInvSound == ASSUME ChecksInv PROVE ChecksSound
<1>. USE DEF ChecksInv, CheckedInv
<1>1. PassedIsUsable
  <2>. SUFFICES ASSUME Passed, check.tool # "editor", NEW f \in check.of \cap YamlFiles
                PROVE  /\ Sometimes(LAMBDA files : files[f].parses)
                       /\ check.strict =>
                            /\ Sometimes(LAMBDA files : files[f].parses /\ Complete(files, f))
                            /\ Sometimes(LAMBDA files : files[f].parses /\ Reachable(files, f))
                            /\ Sometimes(LAMBDA files : files[f].parses /\ files[f].same)
    BY DEF PassedIsUsable
  <2>1. check.tool \in Tools /\ check.code = 0 /\ check.todo = <<>>
    BY DEF Passed, CheckEnded, CheckTypes
  <2>2. \A kind \in Demanded : WasShown(f, kind)
    BY <2>1 DEF GoodSoFar, Awaits
  <2>3. WasShown(f, "syntax") /\ (check.strict =>
          WasShown(f, "roundtrip") /\ WasShown(f, "path") /\ WasShown(f, "required"))
    BY <2>2 DEF Demanded
  <2>. QED BY <2>3 DEF WasShown, Shown, Sometimes
<1>2. FailedIsBroken
  BY DEF BadSoFar, FailedIsBroken, Wrong, Sometimes
<1>. QED BY <1>1, <1>2 DEF ChecksSound

(* Whatever is rewritten between two loads or two lookups, each demand that *)
(* --strict makes of a recipe that passes was met at some moment, what      *)
(* fails was broken at one, and what --validate reports is not met, for any *)
(* files, names, places, practices and numbers of writes.                   *)
THEOREM ChecksAlwaysSound == ChecksSpec => []ChecksSound
BY ChecksStart, ChecksStep, ChecksInvSound, PTL DEF ChecksSpec

-----------------------------------------------------------------------------
(* dev_parallel.py: the lists of results, the semaphore                   *)

(* A task is in one of these states.                                       *)
TaskStates == {"queued", "running", "completed", "failed", "timeout"}

(* The types, and what an idle pool looks like.                            *)
PoolTypes ==
  /\ PoolTypeOK
  /\ Len(tasks) <= MaxTasks
  /\ executed \in [1..MaxTasks -> Nat] /\ expired \in [1..MaxTasks -> Nat]
  /\ runs \in Nat /\ aborted \in Nat
  /\ batch.pc = "idle" => batch.first = 1 /\ yielded = {}

(* What ended in the batch is not in the lists before the batch ends.       *)
Unlisted(i) == batch.pc # "idle" /\ i \in InBatch /\ Ended(i)
Lists(i, listings) ==
  /\ listings <= executed[i] + expired[i]
  /\ aborted = 0 => listings = executed[i] + expired[i]
Accounts ==
  \A i \in DOMAIN tasks :
    /\ Unlisted(i) => Lists(i, Occurs(i) + 1)
    /\ ~Unlisted(i) => Lists(i, Occurs(i))
    /\ \/ tasks[i].status = "queued" \/ Occurs(i) > 0 \/ aborted > 0
       \/ batch.pc # "idle" /\ i \in InBatch

YieldedEnded == \A i \in yielded : i \in InBatch /\ Ended(i)

(* A task that was never added has done nothing.                            *)
NothingYet == \A i \in 1..MaxTasks : i > Len(tasks) => executed[i] = 0 /\ expired[i] = 0 /\ Occurs(i) = 0

(* What JobsAreBounded says of the semaphore and of the results.           *)
Permits == Backpressure > 0 => Cardinality(Being({"executing"})) <= Backpressure
ResultsFit ==
  \A j \in PoolJobs : job[j] = "yielded" =>
    \E k \in PoolJobs : results[JobId[j]] = k /\ JobId[k] = JobId[j]

PoolInv == PoolTypes /\ Accounts /\ YieldedEnded /\ NothingYet /\ Permits /\ ResultsFit

(* The invariant holds at the beginning.                                    *)
LEMMA PoolStart == ASSUME PoolInit PROVE PoolInv
<1>. USE PoolAssumption DEF PoolInit
<1>1. PoolTypes
  <2>1. tasks \in Seq([kind : Kinds, status : TaskStates]) /\ Len(tasks) = 0 /\ DOMAIN tasks = {}
    OBVIOUS
  <2>2. batch \in [pc : {"idle", "batch", "late"}, first : 1..(MaxTasks + 1)]
        /\ batch.first = 1
    OBVIOUS
  <2>3. yielded \in SUBSET DOMAIN tasks
    OBVIOUS
  <2>4. job \in [PoolJobs -> {"submitted", "taken", "executing", "ended", "yielded"}]
    OBVIOUS
  <2>5. results \in [{JobId[j] : j \in PoolJobs} -> PoolJobs \cup {NoTask}]
    OBVIOUS
  <2>. QED BY <2>1, <2>2, <2>3, <2>4, <2>5 DEF PoolTypes, PoolTypeOK, TaskStates
<1>2. DOMAIN tasks = {} /\ Accounts
  BY DEF Accounts
<1>3. YieldedEnded /\ NothingYet
  BY DEF YieldedEnded, NothingYet, Occurs
<1>4. Permits
  <2>1. PICK S : S = Being({"executing"})
    OBVIOUS
  <2>2. S = {}
    BY <2>1 DEF Being
  <2>3. Cardinality(Being({"executing"})) = 0
    BY <2>1, <2>2, FS_EmptySet
  <2>. QED BY <2>3 DEF Permits
<1>5. ResultsFit
  BY DEF ResultsFit
<1>. QED BY <1>1, <1>2, <1>3, <1>4, <1>5 DEF PoolInv

(* The legacy calls do not touch the jobs of the pool, and the other way.   *)
LEMMA JobsAside ==
  ASSUME PoolInv, UNCHANGED <<job, results>>
  PROVE  Permits' /\ ResultsFit'
BY DEF PoolInv, Permits, ResultsFit, Being

(* A list that is extended.                                                 *)
LEMMA ExtendedList ==
  ASSUME NEW list \in [1..MaxTasks -> Nat], NEW S
  PROVE  /\ Extended(list, S) \in [1..MaxTasks -> Nat]
         /\ \A i \in 1..MaxTasks : Extended(list, S)[i] = IF i \in S THEN list[i] + 1 ELSE list[i]
BY DEF Extended

(* The types that the following proofs use.                                 *)
LEMMA PoolTyped ==
  ASSUME PoolInv
  PROVE  /\ tasks \in Seq([kind : Kinds, status : TaskStates]) /\ Len(tasks) \in Nat /\ Len(tasks) <= MaxTasks
         /\ DOMAIN tasks = 1..Len(tasks)
         /\ \A i \in DOMAIN tasks : tasks[i] \in [kind : Kinds, status : TaskStates]
         /\ \A i \in DOMAIN tasks : i \in 1..MaxTasks /\ tasks[i].status \in TaskStates /\ tasks[i].kind \in Kinds
         /\ batch \in [pc : {"idle", "batch", "late"}, first : 1..(MaxTasks + 1)]
         /\ batch.first \in Nat /\ yielded \in SUBSET DOMAIN tasks
         /\ completed \in [1..MaxTasks -> Nat] /\ failed \in [1..MaxTasks -> Nat]
         /\ executed \in [1..MaxTasks -> Nat] /\ expired \in [1..MaxTasks -> Nat]
         /\ \A i \in 1..MaxTasks : Occurs(i) \in Nat
         /\ batch.pc = "idle" => batch.first = 1 /\ yielded = {}
         /\ runs \in Nat /\ aborted \in Nat
         /\ MaxTasks \in Nat /\ BatchSize \in Nat \ {0}
<1>1. /\ tasks \in Seq([kind : Kinds, status : TaskStates]) /\ Len(tasks) <= MaxTasks
      /\ completed \in [1..MaxTasks -> Nat] /\ failed \in [1..MaxTasks -> Nat]
      /\ executed \in [1..MaxTasks -> Nat] /\ expired \in [1..MaxTasks -> Nat]
      /\ batch \in [pc : {"idle", "batch", "late"}, first : 1..(MaxTasks + 1)]
      /\ yielded \in SUBSET DOMAIN tasks
      /\ batch.pc = "idle" => batch.first = 1 /\ yielded = {}
      /\ runs \in Nat /\ aborted \in Nat /\ MaxTasks \in Nat /\ BatchSize \in Nat \ {0}
  BY PoolAssumption DEF PoolInv, PoolTypes, PoolTypeOK, TaskStates
<1>2. PICK Task : Task = [kind : Kinds, status : TaskStates]
  OBVIOUS
<1>3. /\ DOMAIN tasks = 1..Len(tasks) /\ Len(tasks) \in Nat /\ \A i \in 1..Len(tasks) : tasks[i] \in Task
  <2>1. tasks \in Seq(Task)
    BY <1>1, <1>2
  <2>. QED BY <2>1
<1>4. \A task \in Task : task.kind \in Kinds /\ task.status \in TaskStates
  BY <1>2
<1>5. \A i \in DOMAIN tasks : i \in 1..MaxTasks /\ tasks[i].status \in TaskStates /\ tasks[i].kind \in Kinds
  BY <1>1, <1>3, <1>4
<1>6. \A i \in 1..MaxTasks : Occurs(i) \in Nat
  BY <1>1 DEF Occurs
<1>7. batch.first \in Nat
  BY <1>1
<1>. QED BY <1>1, <1>2, <1>3, <1>5, <1>6, <1>7

(* add_task(): a task that has done nothing, outside of every batch.       *)
LEMMA AddTaskKeeps ==
  ASSUME PoolInv, NEW kind \in Kinds, AddTask(kind)
  PROVE  PoolInv'
<1>1. PICK n : n = Len(tasks)
  OBVIOUS
<1>2. PICK task \in [kind : Kinds, status : TaskStates] : task = [kind |-> kind, status |-> "queued"]
  BY DEF TaskStates
<1>3. /\ tasks' = Append(tasks, task) /\ n < MaxTasks /\ n \in Nat
      /\ batch.pc = "idle" /\ yielded = {}
      /\ UNCHANGED <<batch, yielded, completed, failed, executed, expired, runs, aborted, job, results>>
  BY <1>1, <1>2, PoolTyped DEF AddTask
<1>4. /\ tasks' \in Seq([kind : Kinds, status : TaskStates]) /\ Len(tasks') = n + 1
      /\ DOMAIN tasks' = 1..(n + 1) /\ DOMAIN tasks = 1..n
      /\ tasks'[n + 1] = task /\ \A i \in 1..n : tasks'[i] = tasks[i]
  BY <1>1, <1>2, <1>3, PoolTyped
<1>5. PoolTypes'
  BY <1>3, <1>4, PoolTyped DEF PoolInv, PoolTypes, PoolTypeOK, TaskStates
<1>6. /\ Occurs(n + 1)' = 0 /\ executed[n + 1] = 0 /\ expired[n + 1] = 0
      /\ \A i \in 1..n : Occurs(i)' = Occurs(i)
  <2>1. n + 1 \in 1..MaxTasks /\ n + 1 > n
    BY <1>1, <1>3, PoolTyped
  <2>2. Occurs(n + 1) = 0 /\ executed[n + 1] = 0 /\ expired[n + 1] = 0
    BY <1>1, <2>1 DEF PoolInv, NothingYet
  <2>. QED BY <1>3, <2>2 DEF Occurs
<1>7. Accounts'
  <2>1. \A i : ~Unlisted(i)'
    BY <1>3 DEF Unlisted
  <2>2. Lists(n + 1, Occurs(n + 1))' /\ tasks'[n + 1].status = "queued"
    BY <1>2, <1>3, <1>4, <1>6 DEF Lists
  <2>3. ASSUME NEW i \in 1..n
        PROVE  /\ Lists(i, Occurs(i))'
               /\ tasks'[i].status = "queued" \/ Occurs(i)' > 0 \/ aborted' > 0
    <3>1. Lists(i, Occurs(i)) /\ (tasks[i].status = "queued" \/ Occurs(i) > 0 \/ aborted > 0)
      BY <1>3, <1>4 DEF PoolInv, Accounts, Unlisted
    <3>2. Occurs(i)' = Occurs(i) /\ tasks'[i] = tasks[i] /\ aborted' = aborted
      BY <1>3, <1>4, <1>6
    <3>3. Lists(i, Occurs(i))'
      BY <1>3, <3>1, <3>2 DEF Lists
    <3>. QED BY <3>1, <3>2, <3>3
  <2>4. \A i \in DOMAIN tasks' : i = n + 1 \/ i \in 1..n
    BY <1>3, <1>4
  <2>. QED BY <2>1, <2>2, <2>3, <2>4 DEF Accounts
<1>8. YieldedEnded' /\ NothingYet'
  BY <1>1, <1>3, <1>4 DEF PoolInv, YieldedEnded, NothingYet, Occurs
<1>. QED BY <1>3, <1>5, <1>7, <1>8, JobsAside DEF PoolInv

(* The tasks of a batch that starts run, the others are as they were.       *)
LEMMA StartedTasks ==
  ASSUME PoolInv, NEW lead \in 1..MaxTasks, Started(lead)
  PROVE  /\ batch' \in [pc : {"idle", "batch", "late"}, first : 1..(MaxTasks + 1)]
         /\ batch'.pc = "batch" /\ batch'.first = lead /\ yielded' = {}
         /\ tasks' \in Seq([kind : Kinds, status : TaskStates]) /\ Len(tasks') = Len(tasks)
         /\ DOMAIN tasks' = DOMAIN tasks
         /\ \A i \in DOMAIN tasks : IF i \in InBatch' THEN tasks'[i].status = "running"
                                    ELSE tasks'[i] = tasks[i]
<1>1. \A i \in DOMAIN tasks : [tasks[i] EXCEPT !.status = "running"] \in [kind : Kinds, status : TaskStates]
                             /\ [tasks[i] EXCEPT !.status = "running"].status = "running"
  <2>1. \A task \in [kind : Kinds, status : TaskStates] :
          /\ [task EXCEPT !.status = "running"] \in [kind : Kinds, status : TaskStates]
          /\ [task EXCEPT !.status = "running"].status = "running"
    BY DEF TaskStates
  <2>. QED BY <2>1, PoolTyped
<1>2. PICK n \in Nat : n = Len(tasks) /\ DOMAIN tasks = 1..n
  BY PoolTyped
<1>3. /\ \A i \in 1..n : tasks'[i] = IF lead <= i /\ i < lead + BatchSize
                                    THEN [tasks[i] EXCEPT !.status = "running"] ELSE tasks[i]
      /\ DOMAIN tasks' = 1..n
  BY <1>2 DEF Started
<1>4. tasks' \in [1..n -> [kind : Kinds, status : TaskStates]]
  <2>1. \A i \in 1..n : tasks[i] \in [kind : Kinds, status : TaskStates]
    BY <1>2, PoolTyped
  <2>2. \A i \in 1..n : tasks'[i] \in [kind : Kinds, status : TaskStates]
    BY <1>1, <1>2, <1>3, <2>1
  <2>3. tasks' = [i \in 1..n |-> tasks'[i]]
    BY <1>2 DEF Started
  <2>. QED BY <2>2, <2>3
<1>5. tasks' \in Seq([kind : Kinds, status : TaskStates]) /\ Len(tasks') = n
  <2>1. \A Task : tasks' \in [1..n -> Task] => tasks' \in Seq(Task) /\ Len(tasks') = n
    BY <1>2
  <2>. QED BY <1>4, <2>1
<1>6. batch' = [pc |-> "batch", first |-> lead] /\ yielded' = {}
  BY DEF Started
<1>7. InBatch' = {i \in 1..n : lead <= i /\ i < lead + BatchSize}
  BY <1>3, <1>6 DEF InBatch
<1>8. lead \in 1..(MaxTasks + 1)
  BY PoolTyped
<1>. QED BY <1>1, <1>2, <1>3, <1>5, <1>6, <1>7, <1>8

(* A call starts its first batch; what the lists hold is untouched.        *)
LEMMA RunBegins ==
  ASSUME PoolInv, BeginLegacyRun
  PROVE  PoolInv'
<1>1. /\ batch.pc = "idle" /\ tasks # <<>> /\ runs' = runs + 1 /\ Started(1)
      /\ UNCHANGED <<completed, failed, executed, expired, aborted, job, results>>
  BY DEF BeginLegacyRun
<1>2. 1 \in 1..MaxTasks
  <2>1. Len(tasks) # 0
    BY <1>1, PoolTyped
  <2>. QED BY <2>1, PoolTyped
<1>3. /\ batch' \in [pc : {"idle", "batch", "late"}, first : 1..(MaxTasks + 1)]
      /\ batch'.pc = "batch" /\ batch'.first = 1 /\ yielded' = {}
      /\ tasks' \in Seq([kind : Kinds, status : TaskStates]) /\ Len(tasks') = Len(tasks)
      /\ DOMAIN tasks' = DOMAIN tasks
      /\ \A i \in DOMAIN tasks : IF i \in InBatch' THEN tasks'[i].status = "running"
                                 ELSE tasks'[i] = tasks[i]
  BY <1>1, <1>2, StartedTasks
<1>4. PoolTypes'
  BY <1>1, <1>3, PoolTyped DEF PoolInv, PoolTypes, PoolTypeOK, TaskStates
<1>5. \A i \in 1..MaxTasks : Occurs(i)' = Occurs(i)
  BY <1>1 DEF Occurs
<1>6. \A i \in DOMAIN tasks : i \in InBatch' => ~Ended(i)'
  BY <1>3 DEF Ended
<1>7. Accounts'
  <2>. SUFFICES ASSUME NEW i \in DOMAIN tasks
                PROVE  /\ ~Unlisted(i)' /\ Lists(i, Occurs(i))'
                       /\ \/ tasks'[i].status = "queued" \/ Occurs(i)' > 0 \/ aborted' > 0
                          \/ batch'.pc # "idle" /\ i \in InBatch'
    BY <1>3 DEF Accounts
  <2>1. ~Unlisted(i)'
    BY <1>6 DEF Unlisted
  <2>2. Lists(i, Occurs(i)) /\ (tasks[i].status = "queued" \/ Occurs(i) > 0 \/ aborted > 0)
    BY <1>1 DEF PoolInv, Accounts, Unlisted
  <2>3. Lists(i, Occurs(i))'
    BY <1>1, <1>5, <2>2, PoolTyped DEF Lists
  <2>. QED BY <1>1, <1>3, <1>5, <2>1, <2>2, <2>3, PoolTyped
<1>8. YieldedEnded' /\ NothingYet'
  BY <1>1, <1>3, <1>5 DEF PoolInv, YieldedEnded, NothingYet
<1>. QED BY <1>1, <1>4, <1>7, <1>8, JobsAside DEF PoolInv

(* A task ends in its thread: one more execution, and a time-out is        *)
(* listed at once.                                                         *)
LEMMA TaskEndsKeeps ==
  ASSUME PoolInv, NEW i \in DOMAIN tasks, NEW how \in Outcomes(tasks[i].kind), TaskEnds(i, how)
  PROVE  PoolInv'
<1>1. /\ how \in {"completed", "failed", "timeout"} /\ i \in 1..MaxTasks
      /\ batch.pc # "idle" /\ i \in InBatch /\ ~Ended(i)
      /\ UNCHANGED <<batch, yielded, completed, runs, aborted, job, results>>
  BY PoolTyped DEF TaskEnds, Outcomes, Kinds
<1>2. PICK task : task = [tasks[i] EXCEPT !.status = how]
  OBVIOUS
<1>3. task \in [kind : Kinds, status : TaskStates] /\ task.status = how
  <2>1. \A old \in [kind : Kinds, status : TaskStates], new \in TaskStates :
          /\ [old EXCEPT !.status = new] \in [kind : Kinds, status : TaskStates]
          /\ [old EXCEPT !.status = new].status = new
    OBVIOUS
  <2>2. tasks[i] \in [kind : Kinds, status : TaskStates] /\ how \in TaskStates
    BY <1>1, PoolTyped DEF TaskStates
  <2>. QED BY <1>2, <2>1, <2>2
<1>4. tasks' = [tasks EXCEPT ![i] = task]
  BY <1>2 DEF TaskEnds
<1>5. /\ tasks' \in Seq([kind : Kinds, status : TaskStates]) /\ Len(tasks') = Len(tasks)
      /\ DOMAIN tasks' = DOMAIN tasks /\ tasks'[i] = task
      /\ \A k \in DOMAIN tasks : k # i => tasks'[k] = tasks[k]
  BY <1>3, <1>4, PoolTyped
<1>6. PICK late : late = IF how = "timeout" THEN 1 ELSE 0
  OBVIOUS
<1>7. /\ executed' \in [1..MaxTasks -> Nat] /\ expired' \in [1..MaxTasks -> Nat]
      /\ failed' \in [1..MaxTasks -> Nat]
      /\ executed'[i] = executed[i] + 1 /\ expired'[i] = expired[i] + late
      /\ failed'[i] = failed[i] + late
      /\ \A k \in 1..MaxTasks : k # i => /\ executed'[k] = executed[k] /\ expired'[k] = expired[k]
                                        /\ failed'[k] = failed[k]
  <2>1. executed' = [executed EXCEPT ![i] = executed[i] + 1]
    BY DEF TaskEnds
  <2>2. CASE how = "timeout"
    <3>1. failed' = Extended(failed, {i}) /\ expired' = [expired EXCEPT ![i] = expired[i] + 1]
      BY <2>2 DEF TaskEnds
    <3>2. failed' \in [1..MaxTasks -> Nat] /\ failed'[i] = failed[i] + 1
          /\ \A k \in 1..MaxTasks : k # i => failed'[k] = failed[k]
      <4>1. \A k : k \in {i} <=> k = i
        OBVIOUS
      <4>2. failed \in [1..MaxTasks -> Nat]
        BY PoolTyped
      <4>. QED BY <1>1, <3>1, <4>1, <4>2, ExtendedList
    <3>3. late = 1 /\ executed \in [1..MaxTasks -> Nat] /\ expired \in [1..MaxTasks -> Nat]
      BY <1>6, <2>2, PoolTyped
    <3>4. executed' \in [1..MaxTasks -> Nat] /\ executed'[i] = executed[i] + 1
          /\ \A k \in 1..MaxTasks : k # i => executed'[k] = executed[k]
      BY <1>1, <2>1, <3>3
    <3>5. expired' \in [1..MaxTasks -> Nat] /\ expired'[i] = expired[i] + 1
          /\ \A k \in 1..MaxTasks : k # i => expired'[k] = expired[k]
      BY <1>1, <3>1, <3>3
    <3>. QED BY <3>2, <3>3, <3>4, <3>5
  <2>3. CASE how # "timeout"
    <3>1. failed' = failed /\ expired' = expired
      BY <2>3 DEF TaskEnds
    <3>. QED BY <1>1, <1>6, <2>1, <2>3, <3>1, PoolTyped
  <2>. QED BY <2>2, <2>3
<1>8. PoolTypes'
  BY <1>1, <1>5, <1>7, PoolTyped DEF PoolInv, PoolTypes, PoolTypeOK, TaskStates
<1>9. InBatch' = InBatch
  BY <1>1, <1>5 DEF InBatch
<1>10. Ended(i)' /\ \A k \in DOMAIN tasks : k # i => (Ended(k)' <=> Ended(k))
  BY <1>1, <1>3, <1>5 DEF Ended
<1>11. Occurs(i)' = Occurs(i) + late /\ \A k \in 1..MaxTasks : k # i => Occurs(k)' = Occurs(k)
  <2>1. completed' = completed /\ completed[i] \in Nat /\ failed[i] \in Nat /\ late \in Nat
    BY <1>1, <1>6, PoolTyped
  <2>. QED BY <1>1, <1>7, <2>1 DEF Occurs
<1>12. Accounts'
  <2>1. Unlisted(i)' /\ ~Unlisted(i)
    BY <1>1, <1>9, <1>10 DEF Unlisted
  <2>2. Lists(i, Occurs(i) + 1)'
    <3>1. Lists(i, Occurs(i))
      BY <2>1 DEF PoolInv, Accounts
    <3>2. PICK a \in Nat, b \in Nat, c \in Nat : a = executed[i] /\ b = expired[i] /\ c = Occurs(i)
      BY <1>1, PoolTyped
    <3>3. c <= a + b /\ (aborted = 0 => c = a + b)
      BY <3>1, <3>2 DEF Lists
    <3>4. late \in Nat /\ executed'[i] = a + 1 /\ expired'[i] = b + late /\ Occurs(i)' = c + late
          /\ aborted' = aborted
      BY <1>1, <1>6, <1>7, <1>11, <3>2
    <3>5. (c + late) + 1 <= (a + 1) + (b + late) /\ (aborted = 0 => (c + late) + 1 = (a + 1) + (b + late))
      BY <3>3, <3>4
    <3>. QED BY <3>4, <3>5 DEF Lists
  <2>3. ASSUME NEW k \in DOMAIN tasks, k # i
        PROVE  /\ Unlisted(k)' => Lists(k, Occurs(k) + 1)'
               /\ ~Unlisted(k)' => Lists(k, Occurs(k))'
               /\ \/ tasks'[k].status = "queued" \/ Occurs(k)' > 0 \/ aborted' > 0
                  \/ batch'.pc # "idle" /\ k \in InBatch'
    <3>1. Unlisted(k)' <=> Unlisted(k)
      BY <1>1, <1>9, <1>10, <2>3 DEF Unlisted
    <3>2. /\ Occurs(k)' = Occurs(k) /\ executed'[k] = executed[k] /\ expired'[k] = expired[k]
          /\ tasks'[k] = tasks[k] /\ aborted' = aborted
      BY <1>1, <1>5, <1>7, <1>11, <2>3, PoolTyped
    <3>3. (Lists(k, Occurs(k) + 1)' <=> Lists(k, Occurs(k) + 1)) /\ (Lists(k, Occurs(k))' <=> Lists(k, Occurs(k)))
      BY <3>2 DEF Lists
    <3>. QED BY <1>1, <1>9, <3>1, <3>2, <3>3 DEF PoolInv, Accounts
  <2>. QED BY <1>1, <1>5, <1>9, <2>1, <2>2, <2>3 DEF Accounts
<1>13. YieldedEnded'
  BY <1>1, <1>9, <1>10, PoolTyped DEF PoolInv, YieldedEnded
<1>14. NothingYet'
  <2>1. Len(tasks') = Len(tasks) /\ i <= Len(tasks)
    BY <1>5, PoolTyped
  <2>2. \A k \in 1..MaxTasks : k > Len(tasks) => k # i
    BY <2>1, PoolTyped
  <2>. QED BY <1>7, <1>11, <2>1, <2>2 DEF PoolInv, NothingYet
<1>. QED BY <1>1, <1>8, <1>12, <1>13, <1>14, JobsAside DEF PoolInv

(* as_completed() yields a task of the batch that has ended.               *)
LEMMA YieldKeeps ==
  ASSUME PoolInv, NEW i \in DOMAIN tasks, TaskYielded(i)
  PROVE  PoolInv'
<1>1. /\ yielded' = yielded \cup {i} /\ i \in InBatch /\ Ended(i) /\ batch.pc = "batch"
      /\ UNCHANGED <<tasks, batch, completed, failed, executed, expired, runs, aborted, job, results>>
  BY DEF TaskYielded
<1>2. PoolTypes'
  BY <1>1 DEF PoolInv, PoolTypes, PoolTypeOK
<1>3. Accounts' /\ NothingYet'
  BY <1>1 DEF PoolInv, Accounts, NothingYet, Lists, Unlisted, Occurs, InBatch, Ended
<1>4. YieldedEnded'
  BY <1>1 DEF PoolInv, YieldedEnded, InBatch, Ended
<1>. QED BY <1>1, <1>2, <1>3, <1>4, JobsAside DEF PoolInv

(* The end of a batch: each task of it is in one of the lists once more.    *)
LEMMA BatchEndsKeeps ==
  ASSUME PoolInv, BatchEnds
  PROVE  PoolInv'
<1>1. /\ batch.pc = "batch" /\ yielded = InBatch
      /\ UNCHANGED <<executed, expired, runs, aborted, job, results>>
  BY DEF BatchEnds
<1>2. PICK good : good = {i \in InBatch : tasks[i].status = "completed"}
  OBVIOUS
<1>3. PICK bad : bad = {i \in InBatch : tasks[i].status # "completed"}
  OBVIOUS
<1>4. completed' = Extended(completed, good) /\ failed' = Extended(failed, bad)
  BY <1>2, <1>3 DEF BatchEnds
<1>5. /\ completed' \in [1..MaxTasks -> Nat] /\ failed' \in [1..MaxTasks -> Nat]
      /\ \A i \in 1..MaxTasks : /\ completed'[i] = IF i \in good THEN completed[i] + 1 ELSE completed[i]
                               /\ failed'[i] = IF i \in bad THEN failed[i] + 1 ELSE failed[i]
  <2>1. completed \in [1..MaxTasks -> Nat] /\ failed \in [1..MaxTasks -> Nat]
    BY PoolTyped
  <2>2. /\ completed' \in [1..MaxTasks -> Nat]
        /\ \A i \in 1..MaxTasks : completed'[i] = IF i \in good THEN completed[i] + 1 ELSE completed[i]
    <3>1. PICK c : c = completed
      OBVIOUS
    <3>2. c \in [1..MaxTasks -> Nat]
      BY <2>1, <3>1
    <3>3. PICK e : e = Extended(c, good)
      OBVIOUS
    <3>4. e = [i \in 1..MaxTasks |-> IF i \in good THEN c[i] + 1 ELSE c[i]]
      BY <3>2, <3>3 DEF Extended
    <3>5. \A i \in 1..MaxTasks : (IF i \in good THEN c[i] + 1 ELSE c[i]) \in Nat
      BY <3>2
    <3>6. e \in [1..MaxTasks -> Nat] /\ \A i \in 1..MaxTasks : e[i] = IF i \in good THEN c[i] + 1 ELSE c[i]
      BY <3>4, <3>5
    <3>7. completed' = e
      BY <1>4, <3>1, <3>3
    <3>. QED BY <3>1, <3>6, <3>7
  <2>3. /\ failed' \in [1..MaxTasks -> Nat]
        /\ \A i \in 1..MaxTasks : failed'[i] = IF i \in bad THEN failed[i] + 1 ELSE failed[i]
    <3>1. PICK c : c = failed
      OBVIOUS
    <3>2. c \in [1..MaxTasks -> Nat]
      BY <2>1, <3>1
    <3>3. PICK e : e = Extended(c, bad)
      OBVIOUS
    <3>4. e = [i \in 1..MaxTasks |-> IF i \in bad THEN c[i] + 1 ELSE c[i]]
      BY <3>2, <3>3 DEF Extended
    <3>5. \A i \in 1..MaxTasks : (IF i \in bad THEN c[i] + 1 ELSE c[i]) \in Nat
      BY <3>2
    <3>6. e \in [1..MaxTasks -> Nat] /\ \A i \in 1..MaxTasks : e[i] = IF i \in bad THEN c[i] + 1 ELSE c[i]
      BY <3>4, <3>5
    <3>7. failed' = e
      BY <1>4, <3>1, <3>3
    <3>. QED BY <3>1, <3>6, <3>7
  <2>. QED BY <2>2, <2>3
<1>6. \A i \in 1..MaxTasks : Occurs(i)' = IF i \in InBatch THEN Occurs(i) + 1 ELSE Occurs(i)
  <2>. SUFFICES ASSUME NEW i \in 1..MaxTasks
                PROVE  Occurs(i)' = IF i \in InBatch THEN Occurs(i) + 1 ELSE Occurs(i)
    OBVIOUS
  <2>1. PICK a \in Nat, b \in Nat : a = completed[i] /\ b = failed[i]
    BY PoolTyped
  <2>2. Occurs(i) = a + b /\ Occurs(i)' = completed'[i] + failed'[i]
    BY <2>1 DEF Occurs
  <2>3. CASE i \in good
    <3>1. i \in InBatch /\ i \notin bad /\ completed'[i] = a + 1 /\ failed'[i] = b
      BY <1>2, <1>3, <1>5, <2>1, <2>3
    <3>. QED BY <2>2, <3>1
  <2>4. CASE i \in bad
    <3>1. i \in InBatch /\ i \notin good /\ completed'[i] = a /\ failed'[i] = b + 1
      BY <1>2, <1>3, <1>5, <2>1, <2>4
    <3>. QED BY <2>2, <3>1
  <2>5. CASE i \notin good \cup bad
    <3>1. i \notin InBatch /\ completed'[i] = a /\ failed'[i] = b
      BY <1>2, <1>3, <1>5, <2>1, <2>5
    <3>. QED BY <2>2, <3>1
  <2>. QED BY <2>3, <2>4, <2>5
<1>7. \A i \in InBatch : i \in DOMAIN tasks /\ Unlisted(i)
  BY <1>1 DEF PoolInv, YieldedEnded, Unlisted, InBatch
<1>8. \A i \in DOMAIN tasks :
        /\ Occurs(i)' <= executed[i] + expired[i]
        /\ aborted = 0 => Occurs(i)' = executed[i] + expired[i]
        /\ tasks[i].status = "queued" \/ Occurs(i)' > 0 \/ aborted > 0
  <2>. SUFFICES ASSUME NEW i \in DOMAIN tasks
                PROVE  /\ Occurs(i)' <= executed[i] + expired[i]
                       /\ aborted = 0 => Occurs(i)' = executed[i] + expired[i]
                       /\ tasks[i].status = "queued" \/ Occurs(i)' > 0 \/ aborted > 0
    OBVIOUS
  <2>1. i \in 1..MaxTasks /\ Occurs(i) \in Nat
    BY PoolTyped
  <2>2. CASE i \in InBatch
    <3>1. Lists(i, Occurs(i) + 1) /\ Occurs(i)' = Occurs(i) + 1
      BY <1>6, <1>7, <2>1, <2>2 DEF PoolInv, Accounts
    <3>2. Occurs(i)' > 0
      BY <2>1, <3>1
    <3>. QED BY <3>1, <3>2 DEF Lists
  <2>3. CASE i \notin InBatch
    <3>1. Lists(i, Occurs(i)) /\ Occurs(i)' = Occurs(i)
          /\ (tasks[i].status = "queued" \/ Occurs(i) > 0 \/ aborted > 0)
      BY <1>6, <2>1, <2>3 DEF PoolInv, Accounts, Unlisted
    <3>. QED BY <3>1 DEF Lists
  <2>. QED BY <2>2, <2>3
<1>9. \A i \in 1..MaxTasks : i > Len(tasks) => executed[i] = 0 /\ expired[i] = 0 /\ Occurs(i)' = 0
  <2>1. \A i \in 1..MaxTasks : i > Len(tasks) => i \notin InBatch
    BY PoolTyped DEF InBatch
  <2>. QED BY <1>6, <2>1 DEF PoolInv, NothingYet
<1>10. CASE batch.first + BatchSize <= Len(tasks)
  <2>1. PICK lead \in 1..MaxTasks : lead = batch.first + BatchSize
    BY <1>10, PoolTyped
  <2>2. Started(lead)
    BY <1>10, <2>1 DEF BatchEnds
  <2>3. /\ batch' \in [pc : {"idle", "batch", "late"}, first : 1..(MaxTasks + 1)]
        /\ batch'.pc = "batch" /\ batch'.first = lead /\ yielded' = {}
        /\ tasks' \in Seq([kind : Kinds, status : TaskStates]) /\ Len(tasks') = Len(tasks)
        /\ DOMAIN tasks' = DOMAIN tasks
        /\ \A i \in DOMAIN tasks : IF i \in InBatch' THEN tasks'[i].status = "running"
                                   ELSE tasks'[i] = tasks[i]
    BY <2>2, StartedTasks
  <2>4. PoolTypes'
    BY <1>1, <1>5, <2>3, PoolTyped DEF PoolInv, PoolTypes, PoolTypeOK, TaskStates
  <2>5. \A i \in DOMAIN tasks : ~Unlisted(i)'
    BY <2>3 DEF Unlisted, Ended
  <2>6. Accounts'
    <3>. SUFFICES ASSUME NEW i \in DOMAIN tasks
                  PROVE  /\ Lists(i, Occurs(i))'
                         /\ \/ tasks'[i].status = "queued" \/ Occurs(i)' > 0 \/ aborted' > 0
                            \/ batch'.pc # "idle" /\ i \in InBatch'
      BY <2>3, <2>5 DEF Accounts
    <3>1. Lists(i, Occurs(i))'
      BY <1>1, <1>8 DEF Lists
    <3>. QED BY <1>1, <1>8, <2>3, <3>1
  <2>7. YieldedEnded' /\ NothingYet'
    BY <1>1, <1>9, <2>3 DEF YieldedEnded, NothingYet
  <2>. QED BY <1>1, <2>4, <2>6, <2>7, JobsAside DEF PoolInv
<1>11. CASE ~(batch.first + BatchSize <= Len(tasks))
  <2>1. batch' = [pc |-> "idle", first |-> 1] /\ yielded' = {} /\ tasks' = tasks
    BY <1>11 DEF BatchEnds
  <2>2. PoolTypes'
    BY <1>1, <1>5, <2>1, PoolTyped DEF PoolInv, PoolTypes, PoolTypeOK, TaskStates
  <2>3. Accounts'
    <3>1. \A i : ~Unlisted(i)'
      BY <2>1 DEF Unlisted
    <3>2. \A i \in DOMAIN tasks : Lists(i, Occurs(i))'
      BY <1>1, <1>8 DEF Lists
    <3>. QED BY <1>1, <1>8, <2>1, <3>1, <3>2 DEF Accounts
  <2>4. YieldedEnded' /\ NothingYet'
    BY <1>1, <1>9, <2>1 DEF YieldedEnded, NothingYet
  <2>. QED BY <1>1, <2>2, <2>3, <2>4, JobsAside DEF PoolInv
<1>. QED BY <1>10, <1>11

(* The batch takes too long: what ended in it is lost.                      *)
LEMMA LateKeeps ==
  ASSUME PoolInv, BatchLate \/ BatchRaises
  PROVE  PoolInv'
<1>1. CASE BatchLate
  <2>1. /\ batch.pc = "batch"
        /\ UNCHANGED <<tasks, yielded, completed, failed, executed, expired, runs, aborted, job, results>>
    BY <1>1 DEF BatchLate
  <2>2. PICK lead \in 1..(MaxTasks + 1) : lead = batch.first
    BY PoolTyped
  <2>3. batch' \in [pc : {"idle", "batch", "late"}, first : 1..(MaxTasks + 1)]
        /\ batch'.pc = "late" /\ batch'.first = lead
    BY <1>1, <2>2, PoolTyped DEF BatchLate
  <2>4. PoolTypes'
    BY <2>1, <2>3 DEF PoolInv, PoolTypes, PoolTypeOK
  <2>5. InBatch' = InBatch
    BY <2>1, <2>2, <2>3 DEF InBatch
  <2>6. \A i : (Unlisted(i)' <=> Unlisted(i)) /\ Occurs(i)' = Occurs(i)
    BY <2>1, <2>3, <2>5 DEF Unlisted, Ended, Occurs
  <2>7. Accounts'
    <3>1. \A i : /\ Lists(i, Occurs(i) + 1)' <=> Lists(i, Occurs(i) + 1)
                 /\ Lists(i, Occurs(i))' <=> Lists(i, Occurs(i))
      BY <2>1, <2>6 DEF Lists
    <3>. QED BY <2>1, <2>3, <2>5, <2>6, <3>1 DEF PoolInv, Accounts
  <2>8. YieldedEnded' /\ NothingYet'
    BY <2>1, <2>5, <2>6 DEF PoolInv, YieldedEnded, NothingYet, Ended
  <2>. QED BY <2>1, <2>4, <2>7, <2>8, JobsAside DEF PoolInv
<1>2. CASE BatchRaises
  <2>1. /\ batch.pc = "late" /\ batch' = [pc |-> "idle", first |-> 1] /\ yielded' = {} /\ aborted' = aborted + 1
        /\ UNCHANGED <<tasks, completed, failed, executed, expired, runs, job, results>>
    BY <1>2 DEF BatchRaises
  <2>2. PoolTypes' /\ aborted' > 0
    BY <2>1, PoolTyped DEF PoolInv, PoolTypes, PoolTypeOK
  <2>3. Accounts'
    <3>. SUFFICES ASSUME NEW i \in DOMAIN tasks PROVE Occurs(i) <= executed[i] + expired[i]
      BY <2>1, <2>2 DEF Accounts, Unlisted, Lists, Occurs
    <3>1. PICK a \in Nat, b \in Nat, c \in Nat : a = executed[i] /\ b = expired[i] /\ c = Occurs(i)
      BY PoolTyped
    <3>2. c <= a + b \/ c + 1 <= a + b
      BY <3>1 DEF PoolInv, Accounts, Lists
    <3>. QED BY <3>1, <3>2
  <2>4. YieldedEnded' /\ NothingYet'
    BY <2>1 DEF PoolInv, YieldedEnded, NothingYet, Occurs
  <2>. QED BY <2>1, <2>2, <2>3, <2>4, JobsAside DEF PoolInv
<1>. QED BY <1>1, <1>2

(* A step of a job moves one job on.                                        *)
LEMMA JobMoves ==
  ASSUME PoolInv, NEW j \in PoolJobs, NEW state \in {"taken", "executing", "ended", "yielded"},
         job' = [job EXCEPT ![j] = state], UNCHANGED legacyVars,
         results' \in [{JobId[k] : k \in PoolJobs} -> PoolJobs \cup {NoTask}],
         state = "executing" =>
           job[j] # "executing" /\ (Backpressure = 0 \/ Cardinality(Being({"executing"})) < Backpressure),
         ResultsFit'
  PROVE  PoolInv'
<1>1. job \in [PoolJobs -> {"submitted", "taken", "executing", "ended", "yielded"}]
  BY DEF PoolInv, PoolTypes, PoolTypeOK
<1>2. PoolTypes'
  BY <1>1 DEF PoolInv, PoolTypes, PoolTypeOK, legacyVars
<1>3. Accounts' /\ NothingYet' /\ YieldedEnded'
  BY DEF PoolInv, Accounts, NothingYet, YieldedEnded, Lists, Unlisted, Occurs, InBatch, Ended, legacyVars
<1>4. Permits'
  <2>. SUFFICES ASSUME Backpressure > 0 PROVE Cardinality(Being({"executing"}))' <= Backpressure
    BY DEF Permits
  <2>1. PICK S : S = Being({"executing"})
    OBVIOUS
  <2>2. PICK T : T = Being({"executing"})'
    OBVIOUS
  <2>3. IsFiniteSet(S) /\ Cardinality(S) \in Nat /\ Cardinality(S) <= Backpressure /\ Backpressure \in Nat
    <3>1. S \in SUBSET PoolJobs
      BY <2>1 DEF Being
    <3>2. IsFiniteSet(S)
      BY <3>1, FS_Subset, PoolAssumption
    <3>. QED BY <2>1, <3>2, FS_CardinalityType, PoolAssumption DEF PoolInv, Permits
  <2>4. CASE state = "executing"
    <3>1. T = S \cup {j}
      BY <1>1, <2>1, <2>2, <2>4 DEF Being
    <3>2. j \notin S /\ Cardinality(S) < Backpressure
      BY <2>1, <2>4, PoolAssumption DEF Being
    <3>3. Cardinality(T) = Cardinality(S) + 1
      BY <2>3, <3>1, <3>2, FS_AddElement
    <3>. QED BY <2>2, <2>3, <3>2, <3>3
  <2>5. CASE state # "executing"
    <3>1. T \in SUBSET S
      BY <1>1, <2>1, <2>2, <2>5 DEF Being
    <3>2. Cardinality(T) <= Cardinality(S) /\ Cardinality(T) \in Nat
      BY <2>3, <3>1, FS_Subset, FS_CardinalityType
    <3>. QED BY <2>2, <2>3, <3>2
  <2>. QED BY <2>4, <2>5
<1>. QED BY <1>2, <1>3, <1>4 DEF PoolInv

(* The steps of run(): the semaphore is taken and given back, the result   *)
(* is filed under its id.                                                  *)
LEMMA JobsKeep ==
  ASSUME PoolInv, NEW j \in PoolJobs, JobTaken(j) \/ JobAcquires(j) \/ JobEnds(j) \/ JobYielded(j)
  PROVE  PoolInv'
<1>1. /\ job \in [PoolJobs -> {"submitted", "taken", "executing", "ended", "yielded"}]
      /\ results \in [{JobId[k] : k \in PoolJobs} -> PoolJobs \cup {NoTask}]
  BY DEF PoolInv, PoolTypes, PoolTypeOK
<1>2. ASSUME NEW state \in {"taken", "executing", "ended"}, job' = [job EXCEPT ![j] = state], results' = results
      PROVE  ResultsFit'
  <2>1. \A k \in PoolJobs : job'[k] = "yielded" => job[k] = "yielded"
    BY <1>1, <1>2
  <2>. QED BY <1>2, <2>1 DEF PoolInv, ResultsFit
<1>3. CASE JobTaken(j)
  BY <1>1, <1>2, <1>3, JobMoves DEF JobTaken
<1>4. CASE JobAcquires(j)
  BY <1>1, <1>2, <1>4, JobMoves DEF JobAcquires
<1>5. CASE JobEnds(j)
  BY <1>1, <1>2, <1>5, JobMoves DEF JobEnds
<1>6. CASE JobYielded(j)
  <2>1. job' = [job EXCEPT ![j] = "yielded"] /\ results' = [results EXCEPT ![JobId[j]] = j]
        /\ UNCHANGED legacyVars
    BY <1>6 DEF JobYielded
  <2>2. results' \in [{JobId[k] : k \in PoolJobs} -> PoolJobs \cup {NoTask}]
        /\ results'[JobId[j]] = j
        /\ \A k \in PoolJobs : JobId[k] # JobId[j] => results'[JobId[k]] = results[JobId[k]]
    BY <1>1, <2>1
  <2>3. ResultsFit'
    <3>. SUFFICES ASSUME NEW k \in PoolJobs, job'[k] = "yielded"
                  PROVE  \E m \in PoolJobs : results'[JobId[k]] = m /\ JobId[m] = JobId[k]
      BY DEF ResultsFit
    <3>1. CASE JobId[k] = JobId[j]
      BY <2>2, <3>1
    <3>2. CASE JobId[k] # JobId[j]
      <4>1. job[k] = "yielded"
        BY <1>1, <2>1, <3>2
      <4>. QED BY <2>2, <3>2, <4>1 DEF PoolInv, ResultsFit
    <3>. QED BY <3>1, <3>2
  <2>. QED BY <2>1, <2>2, <2>3, JobMoves
<1>. QED BY <1>3, <1>4, <1>5, <1>6

(* Every step of the pool preserves the invariant.                         *)
LEMMA PoolStep == ASSUME PoolInv, [PoolNext]_poolVars PROVE PoolInv'
<1>1. CASE UNCHANGED poolVars
  BY <1>1 DEF poolVars, PoolInv, PoolTypes, PoolTypeOK, Accounts, NothingYet, YieldedEnded, Lists, Unlisted,
              Occurs, InBatch, Ended, Permits, Being, ResultsFit
<1>2. CASE LegacyNext
  BY <1>2, AddTaskKeeps, RunBegins, TaskEndsKeeps, YieldKeeps, BatchEndsKeeps, LateKeeps DEF LegacyNext
<1>3. CASE JobsNext
  BY <1>3, JobsKeep DEF JobsNext
<1>. QED BY <1>1, <1>2, <1>3 DEF PoolNext

(* The invariant has what the pool promises.                               *)
LEMMA PoolInvSound == ASSUME PoolInv PROVE PoolSound
<1>1. ExecutionsAreListed
  <2>. SUFFICES ASSUME batch.pc = "idle", NEW i \in DOMAIN tasks
                PROVE  /\ Occurs(i) <= executed[i] + expired[i]
                       /\ aborted = 0 => Occurs(i) = executed[i] + expired[i]
                       /\ tasks[i].status = "queued" \/ Occurs(i) > 0 \/ aborted > 0
    BY DEF ExecutionsAreListed
  <2>. QED BY DEF PoolInv, Accounts, Unlisted, Lists
<1>2. JobsAreBounded
  <2>1. ASSUME Being({"yielded"}) = PoolJobs, NEW id \in DOMAIN results
        PROVE  \E j \in PoolJobs : results[id] = j /\ JobId[j] = id
    <3>1. PICK k \in PoolJobs : JobId[k] = id
      BY DEF PoolInv, PoolTypes, PoolTypeOK
    <3>2. job[k] = "yielded"
      BY <2>1 DEF Being
    <3>. QED BY <3>1, <3>2 DEF PoolInv, ResultsFit
  <2>. QED BY <2>1 DEF JobsAreBounded, PoolInv, Permits
<1>. QED BY <1>1, <1>2 DEF PoolSound, PoolInv, PoolTypes

(* The lists of a call account for every execution of its tasks, for any   *)
(* number of tasks, calls and threads: one entry for each execution and a  *)
(* second one for a time-out, fewer only if a call was aborted. run()      *)
(* executes no more jobs at once than the semaphore has permits, and       *)
(* gives every id the result of a job of that id.                          *)
THEOREM PoolAlwaysSound == PoolSpec => []PoolSound
BY PoolStart, PoolStep, PoolInvSound, PTL DEF PoolSpec

-----------------------------------------------------------------------------
(* dev_dispatch_tracker.py: the log, the topic and the tree.                *)

(* The entries of the log and the calls of done().                          *)
LogStates == {"running", "done"}
LogEntries == [id : Instants, parent : Instants \cup {Root}, status : LogStates]
Closings == [pc : {"open", "read", "write", "tell"}, id : Instants \cup {Root}, read : Seq(LogEntries),
             hit : BOOLEAN]

(* No two calls overlapped, nobody cleared the log and no writer died.      *)
Calm == losses \subseteq {"clash", "queue"}
IdsOf(entries) == {entries[i].id : i \in DOMAIN entries}

(* Whoever closes an entry is alone, and what it read or is about to write  *)
(* is the whole log.                                                        *)
CalmReaders ==
  Calm => /\ \A s, t \in Trackers : closing[s].pc # "open" /\ closing[t].pc # "open" => s = t
          /\ \A t \in Trackers : closing[t].pc = "read" => closing[t].read = log
          /\ \A t \in Trackers : closing[t].pc = "write" => log = << >> /\ added \subseteq IdsOf(closing[t].read)
          /\ (\A t \in Trackers : closing[t].pc # "write") => added \subseteq Ids

(* Who closes an entry knows its id.                                        *)
Named == \A t \in Trackers : closing[t].pc # "open" => closing[t].id \in Instants

(* In entries no id is twice, each was given out, and parents come first.   *)
Rooted(entries) ==
  /\ \A i, j \in DOMAIN entries : entries[i].id = entries[j].id => i = j
  /\ \A i \in DOMAIN entries : entries[i].id \in added
  /\ \A i \in DOMAIN entries : \/ entries[i].parent = Root
                               \/ \E j \in 1..(i - 1) : entries[j].id = entries[i].parent
(* What was closed was told, but for the one that is being closed.          *)
ToldOf(entries, but) ==
  \A i \in DOMAIN entries :
    entries[i].id \notin but => (entries[i].status # "running" <=> <<"done", entries[i].id>> \in told)
ClosedIn(entries, id) == \A i \in DOMAIN entries : entries[i].id = id => entries[i].status # "running"

(* As long as nothing is lost, log and topic tell the same at every step.   *)
EventsFit ==
  losses = {} =>
    /\ told \subseteq ({"start", "done"} \X added)
    /\ Rooted(log)
    /\ (\A t \in Trackers : closing[t].pc \in {"open", "read"}) => ToldOf(log, {})
    /\ \A t \in Trackers : closing[t].pc = "write" =>
         /\ Rooted(closing[t].read) /\ ToldOf(closing[t].read, {closing[t].id})
         /\ closing[t].hit => ClosedIn(closing[t].read, closing[t].id) /\ closing[t].id \in added
         /\ ~closing[t].hit => closing[t].id \notin IdsOf(closing[t].read)
    /\ \A t \in Trackers : closing[t].pc = "tell" =>
         /\ ToldOf(log, {closing[t].id}) /\ ClosedIn(log, closing[t].id) /\ closing[t].id \in added

TrackerInv == TrackerTypeOK /\ Named /\ CalmReaders /\ EventsFit

(* The types that the following proofs use.                                 *)
LEMMA TrackerTyped ==
  ASSUME TrackerInv
  PROVE  /\ log \in Seq(LogEntries) /\ Len(log) \in Nat /\ DOMAIN log = 1..Len(log)
         /\ closing \in [Trackers -> Closings]
         /\ told \in SUBSET ({"start", "done"} \X Instants) /\ added \in SUBSET Instants
         /\ losses \in SUBSET {"clash", "overlap", "clear", "death", "queue"}
<1>1. log \in Seq(LogEntries) /\ closing \in [Trackers -> Closings]
  BY DEF TrackerInv, TrackerTypeOK, LogEntries, LogStates, Closings
<1>2. Len(log) \in Nat /\ DOMAIN log = 1..Len(log)
  BY <1>1
<1>. QED BY <1>1, <1>2 DEF TrackerInv, TrackerTypeOK

(* The invariant holds at the beginning.                                    *)
LEMMA TrackerStart == ASSUME TrackerInit PROVE TrackerInv
<1>. USE DEF TrackerInit
<1>1. log \in Seq(LogEntries) /\ Open \in Closings /\ DOMAIN log = {}
  BY DEF Open, Closings
<1>2. TrackerTypeOK
  BY <1>1 DEF TrackerTypeOK, LogEntries, LogStates, Closings
<1>3. \A t \in Trackers : closing[t].pc = "open"
  BY DEF Open
<1>4. CalmReaders
  BY <1>3 DEF CalmReaders
<1>5. EventsFit
  BY <1>1, <1>3 DEF EventsFit, Rooted, ToldOf
<1>. QED BY <1>2, <1>3, <1>4, <1>5 DEF TrackerInv, Named

(* An event that is told reaches the topic, or the loss is counted.         *)
LEMMA TellKeeps ==
  ASSUME NEW kind \in {"start", "done"}, NEW id \in Instants,
         NEW blame \in SUBSET {"clash", "overlap"},
         told \in SUBSET ({"start", "done"} \X Instants),
         losses \in SUBSET {"clash", "overlap", "clear", "death", "queue"},
         Tell(<<kind, id>>, blame)
  PROVE  /\ told' \in SUBSET ({"start", "done"} \X Instants)
         /\ losses' \in SUBSET {"clash", "overlap", "clear", "death", "queue"}
         /\ losses \subseteq losses' /\ blame \subseteq losses'
         /\ losses' = {} => told' = told \cup {<<kind, id>>}
<1>1. CASE told' = told \cup {<<kind, id>>} /\ losses' = losses \cup blame
  BY <1>1
<1>2. CASE told' = told /\ losses' = losses \cup blame \cup {"queue"}
  BY <1>2
<1>. QED BY <1>1, <1>2 DEF Tell

(* add(): with nobody between reading and writing, an entry with a new id.  *)
LEMMA AddKeeps ==
  ASSUME TrackerInv, NEW id \in Instants, NEW parent \in Instants \cup {Root}, AddDispatch(id, parent)
  PROVE  TrackerInv'
<1>1. PICK e : e = LogEntry(id, parent)
  OBVIOUS
<1>2. e \in LogEntries /\ e.id = id /\ e.parent = parent /\ e.status = "running"
  BY <1>1 DEF LogEntry, LogEntries, LogStates
<1>3. PICK blame : blame = (IF id \in added THEN {"clash"} ELSE {}) \cup Overlap
  OBVIOUS
<1>4. /\ log' = Append(log, e) /\ Tell(<<"start", id>>, blame) /\ added' = added \cup {id}
      /\ closing' = closing /\ parent \in {Root} \cup Ids
  BY <1>1, <1>3 DEF AddDispatch
<1>5. PICK n \in Nat : n = Len(log) /\ DOMAIN log = 1..n
  BY TrackerTyped
<1>6. /\ log' \in Seq(LogEntries) /\ DOMAIN log' = 1..(n + 1) /\ log'[n + 1] = e
      /\ \A i \in 1..n : log'[i] = log[i]
  BY <1>2, <1>4, <1>5, TrackerTyped
<1>7. blame \in SUBSET {"clash", "overlap"}
  BY <1>3 DEF Overlap
<1>8. /\ told' \in SUBSET ({"start", "done"} \X Instants)
      /\ losses' \in SUBSET {"clash", "overlap", "clear", "death", "queue"}
      /\ losses \subseteq losses' /\ blame \subseteq losses'
      /\ losses' = {} => told' = told \cup {<<"start", id>>}
  BY <1>4, <1>7, TellKeeps, TrackerTyped
<1>9. Calm' => Calm /\ \A t \in Trackers : closing[t].pc = "open"
  BY <1>3, <1>8 DEF Calm, Overlap
<1>10. TrackerTypeOK'
  BY <1>4, <1>6, <1>8, TrackerTyped DEF TrackerTypeOK, LogEntries, LogStates, Closings
<1>11. CalmReaders'
  <2>1. ASSUME Calm' PROVE added' \subseteq Ids'
    <3>1. added \subseteq Ids
      BY <1>9, <2>1 DEF TrackerInv, CalmReaders
    <3>2. Ids' = {log'[i].id : i \in DOMAIN log'}
      BY DEF Ids
    <3>3. \A k \in Ids : k \in Ids'
      BY <1>5, <1>6, <3>2 DEF Ids
    <3>4. id \in Ids'
      BY <1>2, <1>6, <3>2
    <3>. QED BY <1>4, <3>1, <3>3, <3>4
  <2>. QED BY <1>4, <1>9, <2>1 DEF CalmReaders
<1>12. ASSUME losses' = {} PROVE EventsFit'
  <2>1. losses = {} /\ id \notin added /\ told' = told \cup {<<"start", id>>}
        /\ \A t \in Trackers : closing[t].pc = "open"
    BY <1>3, <1>8, <1>9, <1>12 DEF Calm
  <2>2. Rooted(log) /\ ToldOf(log, {}) /\ told \subseteq ({"start", "done"} \X added)
    BY <2>1 DEF TrackerInv, EventsFit
  <2>3. Rooted(log)'
    <3>1. \A i \in 1..n : log'[i].id \in added /\ log'[i].id # id
      BY <1>5, <1>6, <2>1, <2>2 DEF Rooted
    <3>2. \A i, j \in 1..(n + 1) : log'[i].id = log'[j].id => i = j
      <4>. SUFFICES ASSUME NEW i \in 1..(n + 1), NEW j \in 1..(n + 1), log'[i].id = log'[j].id
                    PROVE  i = j
        OBVIOUS
      <4>1. CASE i \in 1..n /\ j \in 1..n
        BY <1>5, <1>6, <2>2, <4>1 DEF Rooted
      <4>2. CASE i = n + 1 \/ j = n + 1
        BY <1>2, <1>6, <3>1, <4>2
      <4>. QED BY <4>1, <4>2
    <3>3. \A i \in 1..(n + 1) : log'[i].id \in added'
      BY <1>2, <1>4, <1>6, <3>1
    <3>4. \A i \in 1..(n + 1) : \/ log'[i].parent = Root
                                \/ \E j \in 1..(i - 1) : log'[j].id = log'[i].parent
      <4>. SUFFICES ASSUME NEW i \in 1..(n + 1), log'[i].parent # Root
                    PROVE  \E j \in 1..(i - 1) : log'[j].id = log'[i].parent
        OBVIOUS
      <4>1. CASE i \in 1..n
        <5>1. PICK j \in 1..(i - 1) : log[j].id = log[i].parent
          BY <1>5, <1>6, <2>2, <4>1 DEF Rooted
        <5>. QED BY <1>6, <4>1, <5>1
      <4>2. CASE i = n + 1
        <5>1. parent \in Ids
          BY <1>2, <1>4, <1>6, <4>2
        <5>2. PICK j \in 1..n : log[j].id = parent
          BY <1>5, <5>1 DEF Ids
        <5>. QED BY <1>2, <1>6, <4>2, <5>2
      <4>. QED BY <4>1, <4>2
    <3>. QED BY <1>6, <3>2, <3>3, <3>4 DEF Rooted
  <2>4. ToldOf(log, {})'
    <3>1. \A k : <<"done", k>> \in told' <=> <<"done", k>> \in told
      BY <2>1
    <3>2. <<"done", id>> \notin told
      BY <2>1, <2>2
    <3>3. \A i \in 1..n : log'[i].status # "running" <=> <<"done", log'[i].id>> \in told'
      BY <1>5, <1>6, <2>2, <3>1 DEF ToldOf
    <3>4. log'[n + 1].status # "running" <=> <<"done", log'[n + 1].id>> \in told'
      BY <1>2, <1>6, <3>1, <3>2
    <3>5. \A i \in 1..(n + 1) : i \in 1..n \/ i = n + 1
      BY <1>5
    <3>. QED BY <1>6, <3>3, <3>4, <3>5 DEF ToldOf
  <2>5. told' \subseteq ({"start", "done"} \X added')
    BY <1>4, <2>1, <2>2
  <2>. QED BY <1>4, <2>1, <2>3, <2>4, <2>5 DEF EventsFit
<1>13. Named'
  BY <1>4 DEF TrackerInv, Named
<1>. QED BY <1>10, <1>11, <1>12, <1>13 DEF TrackerInv, EventsFit

(* done() reads the log: with nobody else at it, all of it.                 *)
LEMMA ReadKeeps ==
  ASSUME TrackerInv, NEW t \in Trackers, NEW id \in Instants, ReadLog(t, id)
  PROVE  TrackerInv'
<1>1. PICK c : c = [pc |-> "read", id |-> id, read |-> log, hit |-> FALSE]
  OBVIOUS
<1>2. /\ closing[t].pc = "open" /\ closing' = [closing EXCEPT ![t] = c]
      /\ losses' = losses \cup Overlap /\ log' = log /\ told' = told /\ added' = added
  BY <1>1 DEF ReadLog
<1>3. c \in Closings /\ c.pc = "read" /\ c.id = id /\ c.read = log
  BY <1>1, TrackerTyped DEF Closings
<1>4. closing' \in [Trackers -> Closings] /\ closing'[t] = c
      /\ \A s \in Trackers : s # t => closing'[s] = closing[s]
  BY <1>2, <1>3, TrackerTyped
<1>5. losses' \in SUBSET {"clash", "overlap", "clear", "death", "queue"}
  BY <1>2, TrackerTyped DEF Overlap
<1>6. Calm' => Calm /\ \A s \in Trackers : closing[s].pc = "open"
  BY <1>2 DEF Calm, Overlap
<1>7. TrackerTypeOK'
  BY <1>2, <1>4, <1>5, TrackerTyped DEF TrackerTypeOK, LogEntries, LogStates, Closings
<1>8. ASSUME Calm' PROVE CalmReaders'
  <2>1. Calm /\ (\A s \in Trackers : s # t => closing'[s].pc = "open") /\ added \subseteq Ids
    BY <1>4, <1>6, <1>8 DEF TrackerInv, CalmReaders
  <2>2. Ids' = Ids
    BY <1>2 DEF Ids
  <2>3. \A s \in Trackers : closing'[s].pc = "read" => closing'[s].read = log'
    BY <1>2, <1>3, <1>4, <2>1
  <2>4. \A s \in Trackers : closing'[s].pc # "write"
    BY <1>3, <1>4, <2>1
  <2>. QED BY <1>2, <2>1, <2>2, <2>3, <2>4 DEF CalmReaders
<1>9. ASSUME losses' = {} PROVE EventsFit'
  <2>1. losses = {} /\ \A s \in Trackers : closing[s].pc = "open"
    BY <1>2, <1>6, <1>9 DEF Calm
  <2>2. \A s \in Trackers : closing'[s].pc \in {"open", "read"}
    BY <1>3, <1>4, <2>1
  <2>3. Rooted(log) /\ ToldOf(log, {}) /\ told \subseteq ({"start", "done"} \X added)
    BY <2>1 DEF TrackerInv, EventsFit
  <2>4. Rooted(log)' /\ ToldOf(log, {})'
    BY <1>2, <2>3 DEF Rooted, ToldOf
  <2>. QED BY <1>2, <2>2, <2>3, <2>4 DEF EventsFit
<1>10. Named'
  BY <1>3, <1>4 DEF TrackerInv, Named
<1>. QED BY <1>7, <1>8, <1>9, <1>10 DEF TrackerInv, EventsFit, CalmReaders


(* What the rewriting changes: the status of the first entry of the id.     *)
LEMMA ShutEntries ==
  ASSUME NEW entries \in Seq(LogEntries), NEW id, NEW shut, shut = Shut(entries, id)
  PROVE  /\ shut \in Seq(LogEntries) /\ DOMAIN shut = DOMAIN entries
         /\ \A i \in DOMAIN entries :
              /\ shut[i].id = entries[i].id /\ shut[i].parent = entries[i].parent
              /\ i \in FirstOf(entries, id) => shut[i].status = "done"
              /\ i \notin FirstOf(entries, id) => shut[i].status = entries[i].status
<1>1. PICK n \in Nat : n = Len(entries) /\ DOMAIN entries = 1..n
  OBVIOUS
<1>2. PICK hits : hits = FirstOf(entries, id)
  OBVIOUS
<1>3. shut = [i \in 1..n |-> IF i \in hits THEN [entries[i] EXCEPT !.status = "done"] ELSE entries[i]]
  BY <1>1, <1>2 DEF Shut
<1>4. ASSUME NEW i \in 1..n
      PROVE  /\ shut[i] \in LogEntries
             /\ shut[i].id = entries[i].id /\ shut[i].parent = entries[i].parent
             /\ i \in hits => shut[i].status = "done"
             /\ i \notin hits => shut[i].status = entries[i].status
  <2>1. entries[i] \in LogEntries
    BY <1>1
  <2>2. CASE i \in hits
    <3>1. shut[i] = [entries[i] EXCEPT !.status = "done"]
      BY <1>3, <2>2
    <3>. QED BY <2>1, <2>2, <3>1 DEF LogEntries, LogStates
  <2>3. CASE i \notin hits
    <3>1. shut[i] = entries[i]
      BY <1>3, <2>3
    <3>. QED BY <2>1, <2>3, <3>1
  <2>. QED BY <2>2, <2>3
<1>5. DOMAIN shut = 1..n /\ shut \in [1..n -> LogEntries]
  BY <1>3, <1>4
<1>6. shut \in Seq(LogEntries)
  BY <1>5
<1>. QED BY <1>1, <1>2, <1>4, <1>5, <1>6

(* While nobody overlaps, whoever truncates the log has read all of it.     *)
LEMMA TruncateKeeps ==
  ASSUME TrackerInv, NEW t \in Trackers, TruncateLog(t)
  PROVE  TrackerInv'
<1>1. PICK id, entries : id = closing[t].id /\ entries = closing[t].read
  OBVIOUS
<1>2. PICK shut : shut = Shut(entries, id)
  OBVIOUS
<1>3. PICK hits : hits = FirstOf(entries, id)
  OBVIOUS
<1>4. PICK c : c = [pc |-> "write", id |-> id, read |-> shut, hit |-> hits # {}]
  OBVIOUS
<1>5. /\ closing[t].pc = "read" /\ log' = << >> /\ closing' = [closing EXCEPT ![t] = c]
      /\ losses' = losses /\ told' = told /\ added' = added
  BY <1>1, <1>2, <1>3, <1>4 DEF TruncateLog
<1>6. id \in Instants \cup {Root} /\ entries \in Seq(LogEntries)
  BY <1>1, TrackerTyped DEF Closings
<1>7. /\ shut \in Seq(LogEntries) /\ DOMAIN shut = DOMAIN entries
      /\ \A i \in DOMAIN entries :
           /\ shut[i].id = entries[i].id /\ shut[i].parent = entries[i].parent
           /\ i \in hits => shut[i].status = "done"
           /\ i \notin hits => shut[i].status = entries[i].status
  BY <1>2, <1>3, <1>6, ShutEntries
<1>8. c \in Closings /\ c.pc = "write" /\ c.id = id /\ c.read = shut /\ (c.hit <=> hits # {})
  BY <1>4, <1>6, <1>7 DEF Closings
<1>9. closing' \in [Trackers -> Closings] /\ closing'[t] = c
      /\ \A s \in Trackers : s # t => closing'[s] = closing[s]
  BY <1>5, <1>8, TrackerTyped
<1>10. log' \in Seq(LogEntries) /\ DOMAIN log' = {} /\ log' = << >>
  BY <1>5
<1>11. TrackerTypeOK'
  BY <1>5, <1>9, <1>10, TrackerTyped DEF TrackerTypeOK, LogEntries, LogStates, Closings
<1>12. ASSUME Calm
       PROVE  /\ entries = log /\ added \subseteq Ids
              /\ \A s \in Trackers : s # t => closing[s].pc = "open"
  BY <1>1, <1>5, <1>12 DEF TrackerInv, CalmReaders
<1>13. ASSUME Calm' PROVE CalmReaders'
  <2>1. Calm
    BY <1>5, <1>13 DEF Calm
  <2>2. \A s \in Trackers : s # t => closing'[s].pc = "open"
    BY <1>9, <1>12, <2>1
  <2>3. IdsOf(shut) = Ids
    BY <1>7, <1>12, <2>1 DEF IdsOf, Ids
  <2>4. \A s \in Trackers : closing'[s].pc = "write" => log' = << >> /\ added' \subseteq IdsOf(closing'[s].read)
    BY <1>5, <1>8, <1>9, <1>12, <2>1, <2>2, <2>3
  <2>5. \A s \in Trackers : closing'[s].pc # "read"
    BY <1>8, <1>9, <2>2
  <2>6. \E s \in Trackers : closing'[s].pc = "write"
    BY <1>8, <1>9
  <2>. QED BY <2>2, <2>4, <2>5, <2>6 DEF CalmReaders
<1>14. ASSUME losses' = {} PROVE EventsFit'
  <2>1. losses = {} /\ Calm
    BY <1>5, <1>14 DEF Calm
  <2>2. \A s \in Trackers : s # t => closing[s].pc = "open" /\ closing'[s].pc = "open"
    BY <1>9, <1>12, <2>1
  <2>3. Rooted(entries) /\ ToldOf(entries, {}) /\ told \subseteq ({"start", "done"} \X added)
    <3>1. \A s \in Trackers : closing[s].pc \in {"open", "read"}
      BY <1>5, <2>2
    <3>. QED BY <1>12, <2>1, <3>1 DEF TrackerInv, EventsFit
  <2>4. Rooted(log)'
    BY <1>10 DEF Rooted
  <2>5. Rooted(shut)'
    <3>1. \A i, j \in DOMAIN shut : shut[i].id = shut[j].id => i = j
      BY <1>7, <2>3 DEF Rooted
    <3>2. \A i \in DOMAIN shut : shut[i].id \in added'
      BY <1>5, <1>7, <2>3 DEF Rooted
    <3>3. ASSUME NEW i \in DOMAIN shut, shut[i].parent # Root
          PROVE  \E j \in 1..(i - 1) : shut[j].id = shut[i].parent
      <4>1. i \in DOMAIN entries /\ DOMAIN entries = 1..Len(entries) /\ Len(entries) \in Nat
        BY <1>6, <1>7, <3>3
      <4>2. PICK j \in 1..(i - 1) : entries[j].id = entries[i].parent
        BY <1>7, <2>3, <3>3, <4>1 DEF Rooted
      <4>3. j \in DOMAIN entries
        BY <4>1, <4>2
      <4>. QED BY <1>7, <4>1, <4>2, <4>3
    <3>. QED BY <3>1, <3>2, <3>3 DEF Rooted
  <2>6. \A i \in hits : i \in DOMAIN entries /\ entries[i].id = id
    BY <1>3 DEF FirstOf
  <2>7. \A i \in DOMAIN entries : entries[i].id = id => i \in hits
    <3>. SUFFICES ASSUME NEW i \in DOMAIN entries, entries[i].id = id
                  PROVE  \A j \in 1..(i - 1) : entries[j].id # id
      BY <1>3 DEF FirstOf
    <3>1. DOMAIN entries = 1..Len(entries) /\ Len(entries) \in Nat
      BY <1>6
    <3>. QED BY <2>3, <3>1 DEF Rooted
  <2>8. ToldOf(shut, {id})'
    <3>. SUFFICES ASSUME NEW i \in DOMAIN shut, shut[i].id # id
                  PROVE  shut[i].status # "running" <=> <<"done", shut[i].id>> \in told'
      BY DEF ToldOf
    <3>1. i \in DOMAIN entries /\ i \notin hits
      BY <1>7, <2>6
    <3>2. entries[i].status # "running" <=> <<"done", entries[i].id>> \in told
      BY <2>3, <3>1 DEF ToldOf
    <3>. QED BY <1>5, <1>7, <3>1, <3>2
  <2>9. ASSUME hits # {} PROVE ClosedIn(shut, id) /\ id \in added'
    <3>1. \A i \in DOMAIN shut : shut[i].id = id => shut[i].status = "done"
      BY <1>7, <2>7
    <3>2. PICK i \in DOMAIN entries : entries[i].id = id
      BY <2>6, <2>9
    <3>. QED BY <1>5, <2>3, <3>1, <3>2 DEF ClosedIn, Rooted
  <2>10. ASSUME hits = {} PROVE id \notin IdsOf(shut)
    BY <1>7, <2>7, <2>10 DEF IdsOf
  <2>11. \A s \in Trackers : closing'[s].pc = "write" => s = t
    BY <2>2
  <2>12. \A s \in Trackers : closing'[s].pc # "tell"
    BY <1>8, <1>9, <2>2
  <2>13. closing'[t].pc \notin {"open", "read"}
    BY <1>8, <1>9
  <2>14. closing'[t].read = shut /\ closing'[t].id = id /\ (closing'[t].hit <=> hits # {})
    BY <1>8, <1>9
  <2>. QED
    BY <1>5, <2>3, <2>4, <2>5, <2>8, <2>9, <2>10, <2>11, <2>12, <2>13, <2>14 DEF EventsFit
<1>15. Named'
  BY <1>1, <1>5, <1>8, <1>9 DEF TrackerInv, Named
<1>. QED BY <1>11, <1>13, <1>14, <1>15 DEF TrackerInv, EventsFit, CalmReaders


(* A writer overwrites the beginning; without an overlap there is no rest.  *)
LEMMA Overwritten ==
  ASSUME NEW old \in Seq(LogEntries), NEW new \in Seq(LogEntries), NEW all,
         all = new \o SubSeq(old, Len(new) + 1, Len(old))
  PROVE  all \in Seq(LogEntries) /\ (old = << >> => all = new)
<1>1. PICK n \in Nat, m \in Nat : n = Len(new) /\ m = Len(old) /\ DOMAIN old = 1..m
  OBVIOUS
<1>2. PICK rest : rest = SubSeq(old, n + 1, m)
  OBVIOUS
<1>3. \A i \in (n + 1)..m : old[i] \in LogEntries
  BY <1>1
<1>4. rest \in Seq(LogEntries)
  BY <1>1, <1>2, <1>3, SubSeqProperties
<1>5. ASSUME old = << >> PROVE rest = << >>
  <2>1. m = 0
    BY <1>1, <1>5
  <2>. QED BY <1>1, <1>2, <2>1, SubSeqEmpty
<1>6. all = new \o rest
  BY <1>1, <1>2
<1>. QED BY <1>4, <1>5, <1>6

(* done() writes what it read, and is alone with the file or was counted.   *)
LEMMA WriteLogKeeps ==
  ASSUME TrackerInv, NEW t \in Trackers, WriteLog(t)
  PROVE  TrackerInv'
<1>1. PICK id, entries : id = closing[t].id /\ entries = closing[t].read
  OBVIOUS
<1>2. PICK c : c = IF closing[t].hit THEN [closing[t] EXCEPT !.pc = "tell"] ELSE Open
  OBVIOUS
<1>3. /\ closing[t].pc = "write" /\ log' = entries \o SubSeq(log, Len(entries) + 1, Len(log))
      /\ closing' = [closing EXCEPT ![t] = c] /\ losses' = losses /\ told' = told /\ added' = added
  BY <1>1, <1>2 DEF WriteLog
<1>4. closing[t] \in Closings /\ entries \in Seq(LogEntries) /\ log \in Seq(LogEntries)
  BY <1>1, TrackerTyped DEF Closings
<1>5. log' \in Seq(LogEntries) /\ (log = << >> => log' = entries)
  BY <1>3, <1>4, Overwritten
<1>6. /\ c \in Closings
      /\ closing[t].hit => c.pc = "tell" /\ c.id = id
      /\ ~closing[t].hit => c.pc = "open"
  <2>1. Open \in Closings /\ Open.pc = "open"
    BY DEF Open, Closings
  <2>2. CASE closing[t].hit
    BY <1>1, <1>2, <1>4, <2>2 DEF Closings
  <2>3. CASE ~closing[t].hit
    BY <1>2, <2>1, <2>3
  <2>. QED BY <2>2, <2>3
<1>7. closing' \in [Trackers -> Closings] /\ closing'[t] = c
      /\ \A s \in Trackers : s # t => closing'[s] = closing[s]
  BY <1>3, <1>6, TrackerTyped
<1>8. TrackerTypeOK'
  BY <1>3, <1>5, <1>7, TrackerTyped DEF TrackerTypeOK, LogEntries, LogStates, Closings
<1>9. ASSUME Calm
      PROVE  /\ log' = entries /\ added \subseteq IdsOf(entries)
             /\ \A s \in Trackers : s # t => closing[s].pc = "open" /\ closing'[s].pc = "open"
  <2>1. log = << >> /\ added \subseteq IdsOf(entries)
    BY <1>1, <1>3, <1>9 DEF TrackerInv, CalmReaders
  <2>2. \A s \in Trackers : s # t => closing[s].pc = "open"
    BY <1>3, <1>9 DEF TrackerInv, CalmReaders
  <2>. QED BY <1>5, <1>7, <2>1, <2>2
<1>10. closing'[t].pc \in {"tell", "open"}
  BY <1>6, <1>7
<1>11. ASSUME Calm' PROVE CalmReaders'
  <2>1. Calm
    BY <1>3, <1>11 DEF Calm
  <2>2. Ids' = IdsOf(entries)
    BY <1>9, <2>1 DEF Ids, IdsOf
  <2>. QED BY <1>3, <1>9, <1>10, <2>1, <2>2 DEF CalmReaders
<1>12. ASSUME losses' = {} PROVE EventsFit'
  <2>1. losses = {} /\ Calm /\ log' = entries
    BY <1>3, <1>9, <1>12 DEF Calm
  <2>2. /\ told \subseteq ({"start", "done"} \X added)
        /\ Rooted(entries) /\ ToldOf(entries, {id})
        /\ closing[t].hit => ClosedIn(entries, id) /\ id \in added
        /\ ~closing[t].hit => id \notin IdsOf(entries)
    BY <1>1, <1>3, <2>1 DEF TrackerInv, EventsFit
  <2>3. Rooted(log)' /\ ToldOf(log, {id})' /\ (ClosedIn(entries, id) => ClosedIn(log, id)')
    BY <1>3, <2>1, <2>2 DEF Rooted, ToldOf, ClosedIn
  <2>4. \A s \in Trackers : s # t => closing'[s].pc = "open"
    BY <1>9, <2>1
  <2>5. CASE closing[t].hit
    <3>1. closing'[t].pc = "tell" /\ closing'[t].id = id
      BY <1>6, <1>7, <2>5
    <3>2. ToldOf(log, {closing[t].id})' /\ ClosedIn(log, closing[t].id)' /\ closing'[t].id \in added'
      BY <1>3, <2>2, <2>3, <2>5, <3>1 DEF ToldOf, ClosedIn
    <3>3. \A s \in Trackers : closing'[s].pc = "tell" => s = t
      BY <2>4
    <3>4. \A s \in Trackers : closing'[s].pc # "write"
      BY <2>4, <3>1
    <3>. QED BY <1>3, <2>2, <2>3, <3>1, <3>2, <3>3, <3>4 DEF EventsFit
  <2>6. CASE ~closing[t].hit
    <3>1. \A s \in Trackers : closing'[s].pc = "open"
      BY <1>6, <1>7, <2>4, <2>6
    <3>2. \A i \in DOMAIN entries : entries[i].id # id
      BY <2>2, <2>6 DEF IdsOf
    <3>3. ToldOf(log, {})'
      BY <1>3, <2>1, <2>2, <3>2 DEF ToldOf
    <3>. QED BY <1>3, <2>2, <2>3, <3>1, <3>3 DEF EventsFit
  <2>. QED BY <2>5, <2>6
<1>13. Named'
  BY <1>1, <1>3, <1>6, <1>7 DEF TrackerInv, Named
<1>. QED BY <1>8, <1>11, <1>12, <1>13 DEF TrackerInv, EventsFit, CalmReaders

(* done() tells what it closed: from here on log and topic agree again.     *)
LEMMA TellClosedKeeps ==
  ASSUME TrackerInv, NEW t \in Trackers, TellClosed(t)
  PROVE  TrackerInv'
<1>1. PICK id : id = closing[t].id
  OBVIOUS
<1>2. /\ closing[t].pc = "tell" /\ closing' = [closing EXCEPT ![t] = Open]
      /\ Tell(<<"done", id>>, {}) /\ log' = log /\ added' = added
  BY <1>1 DEF TellClosed
<1>3. id \in Instants
  BY <1>1, <1>2 DEF TrackerInv, Named
<1>4. /\ told' \in SUBSET ({"start", "done"} \X Instants)
      /\ losses' \in SUBSET {"clash", "overlap", "clear", "death", "queue"}
      /\ losses \subseteq losses'
      /\ losses' = {} => told' = told \cup {<<"done", id>>}
  <2>1. {} \in SUBSET {"clash", "overlap"}
    OBVIOUS
  <2>. QED BY <1>2, <1>3, <2>1, TellKeeps, TrackerTyped
<1>5. Open \in Closings /\ Open.pc = "open"
  BY DEF Open, Closings
<1>6. closing' \in [Trackers -> Closings] /\ closing'[t].pc = "open"
      /\ \A s \in Trackers : s # t => closing'[s] = closing[s]
  BY <1>2, <1>5, TrackerTyped
<1>7. TrackerTypeOK'
  BY <1>2, <1>4, <1>6, TrackerTyped DEF TrackerTypeOK, LogEntries, LogStates, Closings
<1>8. Named'
  BY <1>6 DEF TrackerInv, Named
<1>9. ASSUME Calm
      PROVE  /\ added \subseteq Ids
             /\ \A s \in Trackers : s # t => closing[s].pc = "open"
             /\ \A s \in Trackers : closing'[s].pc = "open"
  <2>1. \A s \in Trackers : s # t => closing[s].pc = "open"
    BY <1>2, <1>9 DEF TrackerInv, CalmReaders
  <2>2. \A s \in Trackers : closing[s].pc # "write"
    BY <1>2, <2>1
  <2>3. \A s \in Trackers : closing'[s].pc = "open"
    BY <1>6, <2>1
  <2>. QED BY <1>9, <2>1, <2>2, <2>3 DEF TrackerInv, CalmReaders
<1>10. ASSUME Calm' PROVE CalmReaders'
  <2>1. Calm
    BY <1>4, <1>10 DEF Calm
  <2>2. Ids' = Ids
    BY <1>2 DEF Ids
  <2>. QED BY <1>2, <1>9, <2>1, <2>2 DEF CalmReaders
<1>11. ASSUME losses' = {} PROVE EventsFit'
  <2>1. losses = {} /\ Calm /\ told' = told \cup {<<"done", id>>}
    BY <1>4, <1>11 DEF Calm
  <2>2. /\ told \subseteq ({"start", "done"} \X added) /\ Rooted(log)
        /\ ToldOf(log, {id}) /\ ClosedIn(log, id) /\ id \in added
    BY <1>1, <1>2, <2>1 DEF TrackerInv, EventsFit
  <2>3. Rooted(log)'
    BY <1>2, <2>2 DEF Rooted
  <2>4. \A k : k # id => (<<"done", k>> \in told' <=> <<"done", k>> \in told)
    BY <2>1
  <2>5. <<"done", id>> \in told'
    BY <2>1
  <2>6. ToldOf(log, {})'
    <3>. SUFFICES ASSUME NEW i \in DOMAIN log
                  PROVE  log[i].status # "running" <=> <<"done", log[i].id>> \in told'
      BY <1>2 DEF ToldOf
    <3>1. CASE log[i].id = id
      BY <2>2, <2>5, <3>1 DEF ClosedIn
    <3>2. CASE log[i].id # id
      BY <2>2, <2>4, <3>2 DEF ToldOf
    <3>. QED BY <3>1, <3>2
  <2>7. told' \subseteq ({"start", "done"} \X added')
    BY <1>2, <2>1, <2>2
  <2>8. \A s \in Trackers : closing'[s].pc = "open"
    BY <1>9, <2>1
  <2>. QED BY <1>2, <2>3, <2>6, <2>7, <2>8 DEF EventsFit
<1>. QED BY <1>7, <1>8, <1>10, <1>11 DEF TrackerInv, EventsFit, CalmReaders

(* --clear loses what is there, which is counted.                           *)
LEMMA ClearKeeps == ASSUME TrackerInv, ClearLog PROVE TrackerInv'
<1>1. /\ log' = << >> /\ losses' = losses \cup {"clear"} /\ told' = told /\ added' = added
      /\ closing' = [t \in Trackers |->
            IF closing[t].pc = "write" THEN [closing[t] EXCEPT !.read = << >>] ELSE closing[t]]
  BY DEF ClearLog
<1>2. ASSUME NEW t \in Trackers
      PROVE  closing'[t] \in Closings /\ closing'[t].pc = closing[t].pc /\ closing'[t].id = closing[t].id
  <2>1. closing[t] \in Closings /\ << >> \in Seq(LogEntries)
    BY TrackerTyped
  <2>2. CASE closing[t].pc = "write"
    <3>1. closing'[t] = [closing[t] EXCEPT !.read = << >>]
      BY <1>1, <2>2
    <3>. QED BY <2>1, <3>1 DEF Closings
  <2>3. CASE closing[t].pc # "write"
    <3>1. closing'[t] = closing[t]
      BY <1>1, <2>3
    <3>. QED BY <2>1, <3>1
  <2>. QED BY <2>2, <2>3
<1>3. closing' \in [Trackers -> Closings]
  BY <1>1, <1>2
<1>4. losses' \in SUBSET {"clash", "overlap", "clear", "death", "queue"} /\ log' \in Seq(LogEntries)
  BY <1>1, TrackerTyped
<1>5. TrackerTypeOK'
  BY <1>1, <1>3, <1>4, TrackerTyped DEF TrackerTypeOK, LogEntries, LogStates, Closings
<1>6. Named'
  BY <1>2 DEF TrackerInv, Named
<1>7. ~Calm' /\ losses' # {}
  BY <1>1 DEF Calm
<1>. QED BY <1>5, <1>6, <1>7 DEF TrackerInv, CalmReaders, EventsFit

(* A death before the log is opened loses nothing, a later one is counted.  *)
LEMMA DiesKeeps ==
  ASSUME TrackerInv, NEW t \in Trackers, TrackerDies(t)
  PROVE  TrackerInv'
<1>1. /\ closing[t].pc # "open" /\ closing' = [closing EXCEPT ![t] = Open]
      /\ losses' = IF closing[t].pc \in {"write", "tell"} THEN losses \cup {"death"} ELSE losses
      /\ log' = log /\ told' = told /\ added' = added
  BY DEF TrackerDies
<1>2. Open \in Closings /\ Open.pc = "open"
  BY DEF Open, Closings
<1>3. closing' \in [Trackers -> Closings] /\ closing'[t].pc = "open"
      /\ \A s \in Trackers : s # t => closing'[s] = closing[s]
  BY <1>1, <1>2, TrackerTyped
<1>4. losses' \in SUBSET {"clash", "overlap", "clear", "death", "queue"} /\ losses \subseteq losses'
  BY <1>1, TrackerTyped
<1>5. TrackerTypeOK'
  BY <1>1, <1>3, <1>4, TrackerTyped DEF TrackerTypeOK, LogEntries, LogStates, Closings
<1>6. Named'
  BY <1>3 DEF TrackerInv, Named
<1>7. ASSUME Calm'
      PROVE  Calm /\ closing[t].pc = "read" /\ \A s \in Trackers : s # t => closing[s].pc = "open"
  <2>1. "death" \notin losses' /\ Calm
    BY <1>4, <1>7 DEF Calm
  <2>2. closing[t].pc \in {"open", "read", "write", "tell"}
    BY TrackerTyped DEF Closings
  <2>3. closing[t].pc = "read"
    BY <1>1, <2>1, <2>2
  <2>. QED BY <1>1, <2>1, <2>3 DEF TrackerInv, CalmReaders
<1>8. ASSUME Calm' PROVE CalmReaders'
  <2>1. added \subseteq Ids
    <3>1. \A s \in Trackers : closing[s].pc # "write"
      BY <1>7, <1>8
    <3>. QED BY <1>7, <1>8, <3>1 DEF TrackerInv, CalmReaders
  <2>2. Ids' = Ids
    BY <1>1 DEF Ids
  <2>3. \A s \in Trackers : closing'[s].pc = "open"
    BY <1>3, <1>7, <1>8
  <2>. QED BY <1>1, <2>1, <2>2, <2>3 DEF CalmReaders
<1>9. ASSUME losses' = {} PROVE EventsFit'
  <2>1. Calm' /\ losses = {}
    BY <1>4, <1>9 DEF Calm
  <2>2. \A s \in Trackers : closing[s].pc \in {"open", "read"} /\ closing'[s].pc = "open"
    BY <1>3, <1>7, <2>1
  <2>3. Rooted(log) /\ ToldOf(log, {}) /\ told \subseteq ({"start", "done"} \X added)
    BY <2>1, <2>2 DEF TrackerInv, EventsFit
  <2>4. Rooted(log)' /\ ToldOf(log, {})'
    BY <1>1, <2>3 DEF Rooted, ToldOf
  <2>. QED BY <1>1, <2>2, <2>3, <2>4 DEF EventsFit
<1>. QED BY <1>5, <1>6, <1>8, <1>9 DEF TrackerInv, EventsFit, CalmReaders

(* Every step of a tracker, of --clear or of a death keeps the invariant.   *)
LEMMA TrackerStep == ASSUME TrackerInv, [TrackerNext]_trackerVars PROVE TrackerInv'
<1>1. CASE UNCHANGED trackerVars
  <2>. USE <1>1 DEF trackerVars
  <2>1. TrackerTypeOK' /\ Named'
    BY DEF TrackerInv, TrackerTypeOK, Named
  <2>2. CalmReaders'
    BY DEF TrackerInv, CalmReaders, Calm, Ids
  <2>3. EventsFit'
    BY DEF TrackerInv, EventsFit, Rooted, ToldOf, ClosedIn
  <2>. QED BY <2>1, <2>2, <2>3 DEF TrackerInv
<1>2. CASE \E id \in Instants, parent \in Instants \cup {Root} : AddDispatch(id, parent)
  BY <1>2, AddKeeps
<1>3. CASE \E t \in Trackers, id \in Instants : ReadLog(t, id)
  BY <1>3, ReadKeeps
<1>4. CASE \E t \in Trackers : TruncateLog(t)
  BY <1>4, TruncateKeeps
<1>5. CASE \E t \in Trackers : WriteLog(t)
  BY <1>5, WriteLogKeeps
<1>6. CASE \E t \in Trackers : TellClosed(t)
  BY <1>6, TellClosedKeeps
<1>7. CASE ClearLog
  BY <1>7, ClearKeeps
<1>8. CASE \E t \in Trackers : TrackerDies(t)
  BY <1>8, DiesKeeps
<1>. QED BY <1>1, <1>2, <1>3, <1>4, <1>5, <1>6, <1>7, <1>8 DEF TrackerNext

(* If parents come first, going down from the roots reaches every entry:    *)
(* the first one that is not reached would have a parent that is.           *)
LEMMA TreeShowsAll ==
  ASSUME NEW w \in Seq(LogEntries), Rooted(w)
  PROVE  Printed(w) = DOMAIN w
<1>1. PICK n \in Nat : n = Len(w) /\ DOMAIN w = 1..n
  OBVIOUS
<1>2. ASSUME NEW S \in SUBSET DOMAIN w, Downward(w, S)
      PROVE  DOMAIN w \subseteq S
  <2>. SUFFICES ASSUME DOMAIN w \ S # {}
                PROVE  FALSE
    OBVIOUS
  <2>1. DOMAIN w \ S \in SUBSET Nat
    BY <1>1
  <2>2. PICK m \in DOMAIN w \ S : \A k \in DOMAIN w \ S : m <= k
    BY <2>1, LeastNatural
  <2>3. CASE w[m].parent = Root
    BY <1>2, <2>2, <2>3 DEF Downward, TreeRoots
  <2>4. CASE w[m].parent # Root
    <3>1. PICK j \in 1..(m - 1) : w[j].id = w[m].parent
      BY <2>2, <2>4 DEF Rooted
    <3>2. j \in DOMAIN w /\ j < m
      BY <1>1, <2>2, <3>1
    <3>3. j \in S
      BY <1>1, <2>2, <3>2
    <3>4. m \in ChildrenOf(w, j)
      BY <2>2, <3>1 DEF ChildrenOf
    <3>. QED BY <1>2, <2>2, <3>3, <3>4 DEF Downward
  <2>. QED BY <2>3, <2>4
<1>. QED BY <1>2 DEF Printed

(* The invariant has what the tracker promises.                             *)
LEMMA TrackerInvSound == ASSUME TrackerInv PROVE TrackerSound
<1>1. EntriesKept
  <2>. SUFFICES ASSUME losses \subseteq {"clash", "queue"}, \A t \in Trackers : closing[t].pc # "write"
                PROVE  added \subseteq Ids
    BY DEF EntriesKept
  <2>. QED BY DEF TrackerInv, CalmReaders, Calm
<1>2. ASSUME losses = {}, NEW i \in DOMAIN log,
             \A t \in Trackers : closing[t].pc # "tell" \/ closing[t].id # log[i].id
      PROVE  log[i].status # "running" <=> <<"done", log[i].id>> \in told
  <2>1. Calm
    BY <1>2 DEF Calm
  <2>2. CASE \E t \in Trackers : closing[t].pc = "write"
    <3>1. log = << >>
      BY <2>1, <2>2 DEF TrackerInv, CalmReaders
    <3>. QED BY <1>2, <3>1
  <2>3. CASE \E t \in Trackers : closing[t].pc = "tell"
    <3>1. PICK t \in Trackers : closing[t].pc = "tell"
      BY <2>3
    <3>2. ToldOf(log, {closing[t].id}) /\ log[i].id # closing[t].id
      BY <1>2, <3>1 DEF TrackerInv, EventsFit
    <3>. QED BY <3>2 DEF ToldOf
  <2>4. CASE \A t \in Trackers : closing[t].pc \notin {"write", "tell"}
    <3>1. \A t \in Trackers : closing[t].pc \in {"open", "read"}
      BY <2>4, TrackerTyped DEF Closings
    <3>2. ToldOf(log, {})
      BY <1>2, <3>1 DEF TrackerInv, EventsFit
    <3>. QED BY <3>2 DEF ToldOf
  <2>. QED BY <2>2, <2>3, <2>4
<1>3. ASSUME losses = {}, Len(log) <= MaxShown
      PROVE  Printed(TreeWindow) = DOMAIN log
  <2>1. PICK n \in Nat : n = Len(log)
    BY TrackerTyped
  <2>2. TreeWindow = SubSeq(log, 1, n)
    <3>1. (IF Len(log) > MaxShown THEN Len(log) - MaxShown + 1 ELSE 1) = 1
      BY <1>3, <2>1, TrackerAssumption
    <3>. QED BY <2>1, <3>1 DEF TreeWindow
  <2>3. TreeWindow = log
    BY <2>1, <2>2, TrackerTyped
  <2>4. Rooted(log)
    BY <1>3 DEF TrackerInv, EventsFit
  <2>. QED BY <2>3, <2>4, TrackerTyped, TreeShowsAll
<1>4. losses = {} => told \subseteq ({"start", "done"} \X added)
  BY DEF TrackerInv, EventsFit
<1>5. TreeAgrees
  BY <1>2, <1>3, <1>4 DEF TreeAgrees
<1>. QED BY <1>1, <1>5 DEF TrackerSound, TrackerInv

(* For any number of trackers, instants and calls, with --clear and a death *)
(* at any step: the log loses an entry only for a named cause, and while    *)
(* nothing went wrong the log, the queue and the tree tell the same.        *)
THEOREM TrackerAlwaysSound == TrackerSpec => []TrackerSound
BY TrackerStart, TrackerStep, TrackerInvSound, PTL DEF TrackerSpec
=============================================================================
