------------------------- MODULE Gatekeeper_proofs --------------------------
(***************************************************************************)
(* Proof that the gate keeps its promise for any number of gates, requests *)
(* and delegations, however the audit log, the confirmation and the        *)
(* checkpoints change between the rules.                                   *)
(***************************************************************************)
EXTENDS Gatekeeper, FiniteSetTheorems, TLAPS

Stages == {"idle", "R01", "R18", "R19", "R10", "R05", "verdict", "execute"}
Lines == Delegations \cup {Nobody, Blocked}
Keepers == [at : Stages, request : Requests \cup {Closed.request}, line : Lines, ok : BOOLEAN]
Executing == {p \in Gates : keeper[p].at = "execute"}

GateTypeOK ==
  /\ lastLine \in Lines /\ delegations \in 0..MaxDelegations
  /\ approved \in Nat /\ performed \in Nat
  /\ keeper \in [Gates -> Keepers]
  /\ used \in [Gates -> [Delegations -> Nat]]

\* Only delegations that were made are in the log, with a gate, or spent.
Made ==
  /\ lastLine <= delegations
  /\ \A p \in Gates : keeper[p].line <= delegations
  /\ \A p \in Gates, d \in Delegations : used[p][d] > 0 => d <= delegations

\* A delegation that a gate has spent, or is about to, is not the last line.
Spent ==
  \A p \in Gates :
    /\ keeper[p].at = "execute" => keeper[p].ok /\ lastLine # keeper[p].line
    /\ \A d \in Delegations : used[p][d] > 0 => lastLine # d

\* A gate that has passed R19 serves a request R19 allows.
Allowed ==
  \A p \in Gates :
    /\ keeper[p].at # "idle" => keeper[p].request \in Requests
    /\ keeper[p].at \in {"R10", "R05", "verdict", "execute"} /\ keeper[p].ok =>
         Request19(keeper[p].request)

GateInv == GateTypeOK /\ Made /\ Spent /\ Allowed /\ GateSound

-----------------------------------------------------------------------------
\* A closed gate is idle and has found no line.
LEMMA ClosedIsKeeper == Closed \in Keepers /\ Closed.at = "idle" /\ Closed.line = Nobody /\ Closed.ok = TRUE
BY DEF Closed, Keepers, Stages, Lines

Moved(k, a, b, l) == [k EXCEPT !.at = a, !.ok = b, !.line = l]

\* A gate that moves on keeps its request.
LEMMA KeeperMoves ==
  ASSUME NEW k \in Keepers, NEW a \in Stages, NEW b \in BOOLEAN, NEW l \in Lines
  PROVE  /\ Moved(k, a, b, l) \in Keepers
         /\ Moved(k, a, b, l).at = a /\ Moved(k, a, b, l).request = k.request
         /\ Moved(k, a, b, l).ok = b /\ Moved(k, a, b, l).line = l
BY DEF Keepers, Moved

\* Lines of the log are numbers, and no delegation is a missing one.
LEMMA LinesAreIntegers == Lines \subseteq Int /\ Delegations \subseteq Nat /\ Nobody \notin Delegations /\ Blocked \notin Delegations
BY GateAssumption DEF Lines, Delegations, Nobody, Blocked

\* Gates that execute are counted when one of them begins or ends.
LEMMA ExecutingFinite == IsFiniteSet(Executing) /\ Cardinality(Executing) \in Nat
<1>1. IsFiniteSet(Gates) /\ Executing \subseteq Gates
  BY GateAssumption DEF Executing
<1>. QED BY <1>1, FS_Subset, FS_CardinalityType

\* Closed gates and an empty log satisfy the invariant.
LEMMA GateInitInv == ASSUME GateInit PROVE GateInv
<1>1. Executing = {} /\ Cardinality({}) = 0
  BY ClosedIsKeeper, FS_EmptySet DEF GateInit, Executing
<1>2. GateTypeOK
  BY ClosedIsKeeper, GateAssumption DEF GateInit, GateTypeOK, Lines
<1>3. Made /\ Spent /\ Allowed
  BY ClosedIsKeeper, LinesAreIntegers DEF GateInit, Made, Spent, Allowed, Nobody
<1>4. OneCommandEach /\ OpenedBeforeLogged /\ DeletesAreSeen
  BY ClosedIsKeeper DEF GateInit, OneCommandEach, OpenedBeforeLogged, DeletesAreSeen
<1>5. LoggedBefore
  BY <1>1 DEF GateInit, LoggedBefore, Executing
<1>. QED BY <1>2, <1>3, <1>4, <1>5 DEF GateInv, GateSound

\* While nobody begins or ends to execute, the log runs ahead as before.
LEMMA SameExecuting ==
  ASSUME LoggedBefore, approved' = approved, performed' = performed,
         \A p \in Gates : keeper'[p].at = "execute" <=> keeper[p].at = "execute"
  PROVE  LoggedBefore'
<1>1. Executing' = Executing
  BY DEF Executing
<1>. QED BY <1>1 DEF LoggedBefore, Executing

\* Opening a gate keeps the invariant.
LEMMA OpenGateStep == ASSUME GateInv, NEW p \in Gates, OpenGate(p) PROVE GateInv'
<1>1. PICK r \in Requests : keeper' = [keeper EXCEPT ![p] = [Closed EXCEPT !.at = "R01", !.request = r]]
  BY DEF OpenGate
<1>. DEFINE opened == [Closed EXCEPT !.at = "R01", !.request = r]
<1>2. opened \in Keepers /\ opened.at = "R01" /\ opened.request = r /\ opened.line = Nobody
  BY ClosedIsKeeper DEF Keepers, Stages
<1>3. \A q \in Gates : keeper'[q] = IF q = p THEN opened ELSE keeper[q]
  BY <1>1 DEF GateInv, GateTypeOK
<1>4. keeper[p].at = "idle"
  BY DEF OpenGate
<1>. HIDE DEF opened
<1>5. GateTypeOK'
  BY <1>2, <1>3, <1>1 DEF GateInv, GateTypeOK, OpenGate, opened
<1>9. UNCHANGED <<lastLine, used, delegations>>
  BY DEF OpenGate
<1>10. Made'
  <2>1. Nobody <= delegations
    BY GateAssumption DEF GateInv, GateTypeOK, Nobody
  <2>. QED BY <2>1, <1>2, <1>3, <1>9 DEF GateInv, Made
<1>11. Spent'
  BY <1>2, <1>3, <1>9 DEF GateInv, Spent
<1>12. Allowed'
  BY <1>2, <1>3 DEF GateInv, Allowed
<1>6. Made' /\ Spent' /\ Allowed'
  BY <1>10, <1>11, <1>12
<1>7. OneCommandEach' /\ OpenedBeforeLogged' /\ DeletesAreSeen'
  BY <1>2, <1>3 DEF GateInv, GateSound, OneCommandEach, OpenedBeforeLogged, DeletesAreSeen, OpenGate
<1>8. LoggedBefore'
  BY <1>2, <1>3, <1>4, SameExecuting DEF GateInv, GateSound, OpenGate
<1>. QED BY <1>5, <1>6, <1>7, <1>8 DEF GateInv, GateSound

\* A rule that is checked keeps the invariant.
LEMMA CheckRuleStep == ASSUME GateInv, NEW p \in Gates, CheckRule(p) PROVE GateInv'
<1>. DEFINE rule == keeper[p].at
            ok == Holds(rule, p)
            now == [keeper[p] EXCEPT !.at = Following[rule], !.ok = @ /\ ok,
                                     !.line = IF rule = "R18" THEN lastLine ELSE @]
<1>1. keeper[p] \in Keepers /\ rule \in {"R01", "R18", "R19", "R10", "R05"}
  BY DEF GateInv, GateTypeOK, CheckRule, Following
<1>2. keeper' = [keeper EXCEPT ![p] = now] /\ lastLine' = IF ok THEN lastLine ELSE Blocked
  BY DEF CheckRule
<1>3. now \in Keepers /\ now.at = Following[rule] /\ now.request = keeper[p].request
      /\ now.ok = (keeper[p].ok /\ ok) /\ now.line = IF rule = "R18" THEN lastLine ELSE keeper[p].line
  <2>1. PICK b \in BOOLEAN : b = (keeper[p].ok /\ ok)
    OBVIOUS
  <2>. DEFINE a == Following[rule]
              l == IF rule = "R18" THEN lastLine ELSE keeper[p].line
  <2>2. a \in Stages /\ l \in Lines
    BY <1>1 DEF Stages, Following, GateInv, GateTypeOK, Keepers
  <2>3. b \in BOOLEAN /\ keeper[p] \in Keepers
    BY <1>1, <2>1
  <2>4. now = Moved(keeper[p], a, b, l)
    BY <2>1 DEF Moved
  <2>. HIDE DEF now, a, l
  <2>5. /\ now \in Keepers
        /\ now.at = a /\ now.request = keeper[p].request /\ now.ok = b /\ now.line = l
    BY <2>2, <2>3, <2>4, KeeperMoves
  <2>. QED BY <2>1, <2>5 DEF a, l
<1>4. \A q \in Gates : keeper'[q] = IF q = p THEN now ELSE keeper[q]
  BY <1>2 DEF GateInv, GateTypeOK
<1>5. now.at # "execute" /\ keeper[p].at # "execute"
  BY <1>1, <1>3 DEF Following
<1>6. rule = "R18" /\ ok => lastLine \in Delegations
  BY DEF Holds
<1>7. rule = "R19" /\ ok => Request19(keeper[p].request)
  BY DEF Holds
<1>8. now.at \in {"R10", "R05", "verdict", "execute"} => rule \in {"R19", "R10", "R05"}
  BY <1>1, <1>3 DEF Following
<1>9. now.at = "R19" <=> rule = "R18"
  BY <1>1, <1>3 DEF Following
<1>10. now.at \in {"R19", "R10", "R05", "verdict", "execute"} => rule \in {"R18", "R19", "R10", "R05"}
  BY <1>1, <1>3 DEF Following
<1>11. UNCHANGED <<approved, performed, used, reached, delegations>>
  BY DEF CheckRule
<1>12. rule = keeper[p].at /\ lastLine' \in {lastLine, Blocked} /\ lastLine' \in Lines
  BY <1>2 DEF GateInv, GateTypeOK, Lines
<1>. HIDE DEF now, rule, ok
<1>13. GateTypeOK'
  BY <1>2, <1>3, <1>11, <1>12 DEF GateInv, GateTypeOK
<1>14. Made'
  <2>1. lastLine' <= delegations
    BY <1>12, LinesAreIntegers, GateAssumption DEF GateInv, GateTypeOK, Made, Blocked
  <2>2. \A q \in Gates : keeper'[q].line <= delegations
    BY <1>3, <1>4 DEF GateInv, Made
  <2>. QED BY <2>1, <2>2, <1>11 DEF GateInv, Made
<1>15. Spent'
  <2>1. ASSUME NEW q \in Gates, keeper'[q].at = "execute"
        PROVE  keeper'[q].ok /\ lastLine' # keeper'[q].line
    <3>1. keeper'[q] = keeper[q] /\ keeper[q].ok /\ lastLine # keeper[q].line
      BY <2>1, <1>4, <1>5 DEF GateInv, Spent
    <3>2. keeper[q].line \in Delegations
      BY <3>1, <2>1 DEF GateInv, GateSound, OpenedBeforeLogged
    <3>. QED BY <3>1, <3>2, <1>12, LinesAreIntegers
  <2>2. \A q \in Gates, d \in Delegations : used[q][d] > 0 => lastLine' # d
    BY <1>12, LinesAreIntegers DEF GateInv, Spent
  <2>. QED BY <2>1, <2>2, <1>11 DEF Spent
<1>16. Allowed'
  BY <1>1, <1>3, <1>4, <1>7, <1>8, <1>12 DEF GateInv, Allowed
<1>17. OpenedBeforeLogged'
  <2>1. ASSUME NEW q \in Gates, keeper'[q].at \in {"R19", "R10", "R05", "verdict", "execute"}, keeper'[q].ok
        PROVE  keeper'[q].line \in Delegations /\ used[q][keeper'[q].line] = 0
    <3>1. CASE q # p
      BY <3>1, <2>1, <1>4 DEF GateInv, GateSound, OpenedBeforeLogged
    <3>2. CASE q = p /\ rule = "R18"
      <4>1. lastLine \in Delegations /\ keeper'[q].line = lastLine
        BY <3>2, <2>1, <1>3, <1>4, <1>6
      <4>2. used[q][lastLine] \in Nat /\ ~(used[q][lastLine] > 0)
        BY <4>1 DEF GateInv, GateTypeOK, Spent
      <4>. QED BY <4>1, <4>2
    <3>3. CASE q = p /\ rule # "R18"
      BY <3>3, <2>1, <1>3, <1>4, <1>10, <1>12 DEF GateInv, GateSound, OpenedBeforeLogged
    <3>. QED BY <3>1, <3>2, <3>3
  <2>. QED BY <2>1, <1>11 DEF OpenedBeforeLogged
<1>18. OneCommandEach' /\ DeletesAreSeen'
  BY <1>11 DEF GateInv, GateSound, OneCommandEach, DeletesAreSeen
<1>19. LoggedBefore'
  BY <1>4, <1>5, <1>11, SameExecuting DEF GateInv, GateSound
<1>. QED BY <1>13, <1>14, <1>15, <1>16, <1>17, <1>18, <1>19 DEF GateInv, GateSound

\* A refusal keeps the invariant.
LEMMA RefuseStep == ASSUME GateInv, NEW p \in Gates, Refuse(p) PROVE GateInv'
<1>1. \A q \in Gates : keeper'[q] = IF q = p THEN Closed ELSE keeper[q]
  BY DEF Refuse, GateInv, GateTypeOK
<1>2. keeper[p].at # "execute" /\ keeper' = [keeper EXCEPT ![p] = Closed]
      /\ UNCHANGED <<lastLine, approved, performed, used, reached, delegations>>
  BY DEF Refuse
<1>3. GateTypeOK'
  BY <1>2, ClosedIsKeeper DEF GateInv, GateTypeOK
<1>4. Made'
  <2>1. Nobody <= delegations
    BY GateAssumption DEF GateInv, GateTypeOK, Nobody
  <2>. QED BY <2>1, <1>1, <1>2, ClosedIsKeeper DEF GateInv, Made
<1>5. Spent' /\ Allowed' /\ OneCommandEach' /\ OpenedBeforeLogged' /\ DeletesAreSeen'
  BY <1>1, <1>2, ClosedIsKeeper
     DEF GateInv, GateSound, Spent, Allowed, OneCommandEach, OpenedBeforeLogged, DeletesAreSeen
<1>6. LoggedBefore'
  BY <1>1, <1>2, ClosedIsKeeper, SameExecuting DEF GateInv, GateSound
<1>. QED BY <1>3, <1>4, <1>5, <1>6 DEF GateInv, GateSound

\* The approval is logged in the step in which the gate begins to execute.
LEMMA ApproveStep == ASSUME GateInv, NEW p \in Gates, Approve(p) PROVE GateInv'
<1>. DEFINE now == [keeper[p] EXCEPT !.at = "execute"]
<1>1. keeper[p] \in Keepers /\ keeper[p].at = "verdict" /\ keeper[p].ok
  BY DEF GateInv, GateTypeOK, Approve
<1>2. now \in Keepers /\ now.at = "execute" /\ now.request = keeper[p].request
      /\ now.line = keeper[p].line /\ now.ok = keeper[p].ok
  BY <1>1 DEF Keepers, Stages
<1>3. /\ keeper' = [keeper EXCEPT ![p] = now] /\ lastLine' = Blocked /\ approved' = approved + 1
      /\ UNCHANGED <<performed, used, reached, delegations>>
  BY DEF Approve
<1>. HIDE DEF now
<1>4. \A q \in Gates : keeper'[q] = IF q = p THEN now ELSE keeper[q]
  BY <1>3 DEF GateInv, GateTypeOK
<1>5. GateTypeOK'
  BY <1>2, <1>3 DEF GateInv, GateTypeOK, Lines
<1>6. Made'
  <2>1. Blocked <= delegations
    BY GateAssumption DEF GateInv, GateTypeOK, Blocked
  <2>2. \A q \in Gates : keeper'[q].line = keeper[q].line
    BY <1>2, <1>4
  <2>. QED BY <2>1, <2>2, <1>3 DEF GateInv, Made
<1>7. Allowed' /\ OpenedBeforeLogged'
  BY <1>1, <1>2, <1>3, <1>4 DEF GateInv, GateSound, Allowed, OpenedBeforeLogged
<1>8. Spent'
  <2>1. ASSUME NEW q \in Gates, keeper'[q].at = "execute"
        PROVE  keeper'[q].ok /\ lastLine' # keeper'[q].line
    <3>1. keeper'[q].ok
      BY <2>1, <1>1, <1>2, <1>4 DEF GateInv, Spent
    <3>2. keeper'[q].line \in Delegations
      BY <3>1, <2>1, <1>7 DEF OpenedBeforeLogged
    <3>. QED BY <3>1, <3>2, <1>3, LinesAreIntegers
  <2>2. \A q \in Gates, d \in Delegations : lastLine' # d
    BY <1>3, LinesAreIntegers
  <2>. QED BY <2>1, <2>2 DEF Spent
<1>9. LoggedBefore'
  <2>1. Executing' = Executing \cup {p} /\ p \notin Executing
    BY <1>1, <1>2, <1>4 DEF Executing
  <2>2. Cardinality(Executing') = Cardinality(Executing) + 1
    BY <2>1, ExecutingFinite, FS_AddElement
  <2>3. performed + Cardinality(Executing) <= approved
    BY DEF GateInv, GateSound, LoggedBefore, Executing
  <2>4. performed \in Nat /\ approved \in Nat
    BY DEF GateInv, GateTypeOK
  <2>5. performed' + Cardinality(Executing') <= approved'
    BY <1>3, <2>2, <2>3, <2>4, ExecutingFinite
  <2>. QED BY <2>5 DEF LoggedBefore, Executing
<1>10. OneCommandEach' /\ DeletesAreSeen'
  BY <1>3 DEF GateInv, GateSound, OneCommandEach, DeletesAreSeen
<1>. QED BY <1>5, <1>6, <1>7, <1>8, <1>9, <1>10 DEF GateInv, GateSound

\* The delegation is spent: it is no longer the last line, and no gate has it twice.
LEMMA ExecuteStep == ASSUME GateInv, NEW p \in Gates, Execute(p) PROVE GateInv'
<1>. DEFINE d == keeper[p].line
            r == keeper[p].request
<1>1. keeper[p].at = "execute" /\ keeper[p].ok /\ r \in Requests /\ Request19(r) /\ lastLine # d
  BY DEF Execute, GateInv, Spent, Allowed
<1>2. d \in Delegations /\ used[p][d] = 0
  BY <1>1 DEF GateInv, GateSound, OpenedBeforeLogged
<1>3. keeper' = [keeper EXCEPT ![p] = Closed] /\ UNCHANGED <<lastLine, approved, delegations>>
  BY DEF Execute
<1>4. \/ /\ performed' = performed + 1 /\ used' = [used EXCEPT ![p][d] = @ + 1]
         /\ reached' = IF r.type = "delete" THEN reached \cup {r} ELSE reached
      \/ UNCHANGED <<performed, used, reached>>
  BY DEF Execute
<1>. HIDE DEF d, r
<1>5. \A q \in Gates : keeper'[q] = IF q = p THEN Closed ELSE keeper[q]
  BY <1>3 DEF GateInv, GateTypeOK
<1>6. used' \in [Gates -> [Delegations -> Nat]]
  <2>1. used \in [Gates -> [Delegations -> Nat]] /\ used[p] \in [Delegations -> Nat]
    BY DEF GateInv, GateTypeOK
  <2>2. [used[p] EXCEPT ![d] = @ + 1] \in [Delegations -> Nat]
    BY <2>1, <1>2
  <2>3. [used EXCEPT ![p] = [used[p] EXCEPT ![d] = @ + 1]] \in [Gates -> [Delegations -> Nat]]
    BY <2>1, <2>2
  <2>. QED BY <2>1, <2>3, <1>4
<1>7. \A q \in Gates, e \in Delegations :
        used'[q][e] = used[q][e] \/ (q = p /\ e = d /\ used'[q][e] = 1)
  BY <1>2, <1>4 DEF GateInv, GateTypeOK
<1>8. GateTypeOK'
  <2>1. keeper' \in [Gates -> Keepers]
    BY <1>3, ClosedIsKeeper DEF GateInv, GateTypeOK
  <2>2. performed' \in Nat
    BY <1>4 DEF GateInv, GateTypeOK
  <2>. QED BY <1>3, <1>6, <2>1, <2>2 DEF GateInv, GateTypeOK
<1>9. Made'
  <2>1. Nobody <= delegations
    BY GateAssumption DEF GateInv, GateTypeOK, Nobody
  <2>2. d <= delegations
    BY DEF GateInv, Made, d
  <2>. QED BY <2>1, <2>2, <1>3, <1>5, <1>7, ClosedIsKeeper DEF GateInv, Made
<1>10. Spent'
  <2>1. \A q \in Gates : keeper'[q].at = "execute" => keeper'[q].ok /\ lastLine' # keeper'[q].line
    BY <1>3, <1>5, ClosedIsKeeper DEF GateInv, Spent
  <2>2. \A q \in Gates, e \in Delegations : used'[q][e] > 0 => lastLine' # e
    BY <1>1, <1>3, <1>7 DEF GateInv, Spent, d
  <2>. QED BY <2>1, <2>2 DEF Spent
<1>11. Allowed'
  BY <1>5, ClosedIsKeeper DEF GateInv, Allowed
<1>12. OpenedBeforeLogged'
  BY <1>5, <1>7, ClosedIsKeeper DEF GateInv, GateSound, OpenedBeforeLogged
<1>13. OneCommandEach'
  BY <1>7 DEF GateInv, GateSound, OneCommandEach
<1>14. DeletesAreSeen'
  <2>1. r.type = "delete" /\ r.target \in {"home", "git"} => r.lastWord # r.target
    BY <1>1 DEF Request19
  <2>. QED BY <2>1, <1>4 DEF GateInv, GateSound, DeletesAreSeen
<1>15. LoggedBefore'
  <2>1. Executing' = Executing \ {p} /\ p \in Executing
    BY <1>1, <1>5, ClosedIsKeeper DEF Executing
  <2>2. Cardinality(Executing') = Cardinality(Executing) - 1
    BY <2>1, ExecutingFinite, FS_RemoveElement
  <2>3. performed + Cardinality(Executing) <= approved
    BY DEF GateInv, GateSound, LoggedBefore, Executing
  <2>4. performed \in Nat /\ approved \in Nat
    BY DEF GateInv, GateTypeOK
  <2>5. performed' + Cardinality(Executing') <= approved'
    BY <1>3, <1>4, <2>2, <2>3, <2>4, ExecutingFinite
  <2>. QED BY <2>5 DEF LoggedBefore, Executing
<1>. QED BY <1>8, <1>9, <1>10, <1>11, <1>12, <1>13, <1>14, <1>15 DEF GateInv, GateSound

\* A new delegation is later than all that gates have passed or spent.
LEMMA DelegateStep == ASSUME GateInv, Delegate PROVE GateInv'
<1>1. /\ delegations < MaxDelegations /\ delegations' = delegations + 1 /\ lastLine' = delegations + 1
      /\ UNCHANGED <<approved, performed, keeper, used, reached>>
  BY DEF Delegate
<1>2. GateTypeOK'
  BY <1>1, GateAssumption DEF GateInv, GateTypeOK, Lines, Delegations
<1>3. delegations \in Nat /\ \A p \in Gates : keeper[p].line \in Int
  <2>1. \A p \in Gates : keeper[p].line \in Lines
    BY DEF GateInv, GateTypeOK, Keepers
  <2>2. delegations \in Nat
    BY GateAssumption DEF GateInv, GateTypeOK
  <2>. QED BY <2>1, <2>2, LinesAreIntegers
<1>4. Made'
  <2>1. \A p \in Gates : keeper'[p].line <= delegations'
    BY <1>1, <1>3 DEF GateInv, Made
  <2>2. \A p \in Gates, d \in Delegations : used'[p][d] > 0 => d <= delegations'
    BY <1>1, <1>3, LinesAreIntegers DEF GateInv, Made
  <2>. QED BY <2>1, <2>2, <1>1, <1>3 DEF Made
<1>5. Spent'
  <2>1. \A p \in Gates : lastLine' # keeper[p].line
    BY <1>1, <1>3 DEF GateInv, Made
  <2>2. \A p \in Gates, d \in Delegations : used[p][d] > 0 => lastLine' # d
    BY <1>1, <1>3, LinesAreIntegers DEF GateInv, Made
  <2>. QED BY <2>1, <2>2, <1>1 DEF GateInv, Spent
<1>6. Allowed' /\ OneCommandEach' /\ OpenedBeforeLogged' /\ DeletesAreSeen'
  BY <1>1 DEF GateInv, GateSound, Allowed, OneCommandEach, OpenedBeforeLogged, DeletesAreSeen
<1>7. LoggedBefore'
  BY <1>1, SameExecuting DEF GateInv, GateSound
<1>. QED BY <1>2, <1>4, <1>5, <1>6, <1>7 DEF GateInv, GateSound

\* Every step of the gates keeps the invariant.
LEMMA GateNextInv == ASSUME GateInv, [GateNext]_gateVars PROVE GateInv'
<1>1. ASSUME UNCHANGED <<lastLine, approved, performed, keeper, used, reached, delegations>> PROVE GateInv'
  BY <1>1 DEF GateInv, GateTypeOK, Made, Spent, Allowed, GateSound, OneCommandEach,
              OpenedBeforeLogged, LoggedBefore, DeletesAreSeen
<1>2. CASE Outside
  BY <1>1, <1>2 DEF Outside
<1>3. CASE UNCHANGED gateVars
  BY <1>1, <1>3 DEF gateVars
<1>. QED BY <1>2, <1>3, OpenGateStep, CheckRuleStep, RefuseStep, ApproveStep, ExecuteStep, DelegateStep
         DEF GateNext

-----------------------------------------------------------------------------
\* A gate performs at most one command on a delegation, and only one that it
\* logged before; a gate that looks late finds a delegation that is still open;
\* a delete reaches .git/ or another home only beside a last word that does not.
\* This holds whatever the log, the confirmation, the checkpoints and the lock
\* become between two rules.
THEOREM GateIsSound == GateSpec => []GateSound
<1>1. GateInv => GateSound
  BY DEF GateInv
<1>. QED BY <1>1, GateInitInv, GateNextInv, PTL DEF GateSpec
=============================================================================
