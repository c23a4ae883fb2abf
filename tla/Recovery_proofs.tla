--------------------------- MODULE Recovery_proofs ---------------------------
(***************************************************************************)
(* Proofs that a degraded recovery is logged and escalated (Recovery), for *)
(* any number of requests, checks, levels, retries and faults, that the    *)
(* runner keeps the order of its steps (WorkflowRunner), and that it       *)
(* implements a Schedule, for any workflows and nested processes.          *)
(***************************************************************************)
EXTENDS WorkflowRunner, Recovery, FiniteSetTheorems, SequenceTheorems, WellFoundedInduction, TLAPS

-----------------------------------------------------------------------------
Reports == [status : {"ok", "degraded"}, passed : Nat, bad : SUBSET Nat]
Bodies ==
  Reports \cup
  [from : {"persister", "monitor"}, cmd : DefibCommands \cup {"PHOENIX_DEGRADED"},
   problem : BOOLEAN, summary : Summaries \cup {NoSummary}]
Letters ==
  [topic : {Completed, Degraded}, req : Requests \cup Checks,
   key : {NoOne} \cup ((Requests \cup Checks) \X {"phoenix-completion", "monitor"}),
   body : Bodies,
   st : {"pending", "leased", "done", "dead"}, tries : Nat]
Logs == [status : {"none", "torn", "ok", "degraded"}, bad : SUBSET Nat, attention : BOOLEAN,
         esc : Nat \cup {NoOne}]

Processes == [st : {"idle", "levels", "exited"}, nth : Nat, levels : Seq(BOOLEAN),
              exit : {NoOne, 0, 1, 2}]
Standings == [st : {"idle", "got", "writing", "logged", "escalated", "rewriting", "dispatched",
                    "returned"},
              msg : Nat \cup {NoOne}, esc : Nat \cup {NoOne}]

RecoveryTypes ==
  /\ runs \in [Requests -> Processes]
  /\ mail \in Seq(Letters)
  /\ worker \in [Workers -> Standings]
  /\ phoenixLog \in [Requests -> Logs]
  /\ faults \in Nat
  /\ \A i \in DOMAIN mail : mail[i].topic = Completed =>
       mail[i].req \in Requests /\ mail[i].body \in Reports

(* What a worker holds is leased to it, and is of its topic.                *)
HeldIsLeased ==
  \A w \in Workers : worker[w].st # "idle" =>
    /\ worker[w].msg \in DOMAIN mail
    /\ mail[worker[w].msg].topic = Topic[w] /\ mail[worker[w].msg].st = "leased"

(* How far the persister is with the completion it holds.                   *)
PersisterKept ==
  LET p == worker["persister"]
      m == mail[p.msg]
  IN  /\ p.st \in {"logged", "escalated", "rewriting", "returned"} =>
           phoenixLog[m.req].status # "none"
      /\ p.st \in {"escalated", "rewriting"} => p.esc \in Escalations(m.req)
      /\ p.st = "returned" /\ NeedsAttention(m.body) =>
           Escalations(m.req) # {} \/ m.req \in unsent

Completions(r) == {i \in DOMAIN mail : mail[i].topic = Completed /\ mail[i].req = r}
Handled(r) ==
  {i \in Completions(r) :
     mail[i].st = "done" \/ /\ worker["persister"].st \in {"escalated", "rewriting", "returned"}
                            /\ worker["persister"].msg = i}

(* A run sends one completion at its end.                                   *)
OneCompletionPerRun ==
  \A r \in Requests :
    Cardinality(Completions(r)) + (IF runs[r].st = "levels" THEN 1 ELSE 0) <= runs[r].nth

(* Without a fault a lease has its holder and no message is given up, so    *)
(* that every completion is handled once.                                   *)
HandledOnce ==
  faults = 0 =>
    /\ \A i \in DOMAIN mail :
         /\ mail[i].st # "dead"
         /\ mail[i].st = "leased" => \E w \in Workers : worker[w].st # "idle" /\ worker[w].msg = i
    /\ \A r \in Requests : Cardinality(Escalations(r)) <= Cardinality(Handled(r))

RecoveryInv ==
  /\ RecoveryTypes /\ HeldIsLeased /\ PersisterKept /\ OneCompletionPerRun /\ HandledOnce
  /\ DegradedIsEscalated /\ LoggedEscalationExists

-----------------------------------------------------------------------------
(* The mail.                                                                *)

(* Letters stay and keep what they tell; only their standing changes.       *)
MailKept ==
  /\ mail' \in Seq(Letters)
  /\ DOMAIN mail \subseteq DOMAIN mail'
  /\ \A i \in DOMAIN mail : /\ mail'[i].topic = mail[i].topic /\ mail'[i].req = mail[i].req
                            /\ mail'[i].body = mail[i].body

SameMail == MailKept /\ DOMAIN mail' = DOMAIN mail

(* A letter is added at the end.                                            *)
LEMMA MailAppended ==
  ASSUME RecoveryTypes, NEW m \in Letters, mail' = Append(mail, m)
  PROVE  /\ MailKept /\ Len(mail) + 1 \notin DOMAIN mail
         /\ DOMAIN mail' = DOMAIN mail \cup {Len(mail) + 1}
         /\ mail'[Len(mail) + 1] = m
         /\ \A i \in DOMAIN mail : mail'[i] = mail[i]
<1>1. mail \in Seq(Letters)  BY DEF RecoveryTypes
<1>2. /\ mail' \in Seq(Letters) /\ Len(mail') = Len(mail) + 1 /\ mail'[Len(mail) + 1] = m
      /\ \A i \in 1..Len(mail) : mail'[i] = mail[i]
  BY <1>1
<1>3. Len(mail) \in Nat /\ DOMAIN mail = 1..Len(mail) /\ DOMAIN mail' = 1..Len(mail')
  BY <1>1, <1>2
<1>4. DOMAIN mail' = DOMAIN mail \cup {Len(mail) + 1} /\ Len(mail) + 1 \notin DOMAIN mail
  BY <1>2, <1>3
<1> QED  BY <1>2, <1>3, <1>4 DEF MailKept

(* A letter changes its standing.                                           *)
LEMMA LetterMoved ==
  ASSUME RecoveryTypes, NEW i \in DOMAIN mail, NEW s \in {"pending", "leased", "done", "dead"},
         NEW n \in Nat,
         mail' = [mail EXCEPT ![i] = [topic |-> mail[i].topic, req |-> mail[i].req,
                                      key |-> mail[i].key, body |-> mail[i].body,
                                      st |-> s, tries |-> n]]
  PROVE  /\ SameMail /\ mail'[i].st = s
         /\ \A j \in DOMAIN mail \ {i} : mail'[j] = mail[j]
<1>1. mail \in Seq(Letters) /\ DOMAIN mail = 1..Len(mail) /\ Len(mail) \in Nat
  BY DEF RecoveryTypes
<1>2. PICK m : m = [topic |-> mail[i].topic, req |-> mail[i].req, key |-> mail[i].key,
                    body |-> mail[i].body, st |-> s, tries |-> n]
  OBVIOUS
<1>3. mail[i] \in Letters  BY <1>1
<1>4. m \in Letters  BY <1>2, <1>3 DEF Letters
<1>5. mail' = [mail EXCEPT ![i] = m]  BY <1>2
<1>6. /\ mail' \in Seq(Letters) /\ DOMAIN mail' = DOMAIN mail /\ mail'[i] = m
      /\ \A j \in DOMAIN mail \ {i} : mail'[j] = mail[j]
  BY <1>1, <1>4, <1>5
<1>7. /\ m.topic = mail[i].topic /\ m.req = mail[i].req /\ m.body = mail[i].body /\ m.st = s
  BY <1>2
<1>8. \A j \in DOMAIN mail : /\ mail'[j].topic = mail[j].topic /\ mail'[j].req = mail[j].req
                             /\ mail'[j].body = mail[j].body
  <2> TAKE j \in DOMAIN mail
  <2>1. CASE j = i  BY <2>1, <1>6, <1>7
  <2>2. CASE j # i  BY <2>2, <1>6
  <2> QED  BY <2>1, <2>2
<1> QED  BY <1>6, <1>7, <1>8 DEF SameMail, MailKept

(* GivenUp() puts back the letters it is given.                             *)
LEMMA LettersGivenUp ==
  ASSUME RecoveryTypes, NEW ms, mail' = GivenUp(ms)
  PROVE  /\ SameMail
         /\ \A i \in DOMAIN mail : IF i \in ms THEN mail'[i].st = "pending" ELSE mail'[i] = mail[i]
<1>1. mail \in Seq(Letters) /\ DOMAIN mail = 1..Len(mail) /\ Len(mail) \in Nat
  BY DEF RecoveryTypes
<1>2. mail' = [i \in 1..Len(mail) |-> IF i \in ms THEN [mail[i] EXCEPT !.st = "pending"] ELSE mail[i]]
  BY <1>1 DEF GivenUp
<1>3. \A i \in 1..Len(mail) :
        /\ mail'[i] \in Letters
        /\ IF i \in ms THEN mail'[i].st = "pending" ELSE mail'[i] = mail[i]
        /\ mail'[i].topic = mail[i].topic /\ mail'[i].req = mail[i].req
        /\ mail'[i].body = mail[i].body
  <2> TAKE i \in 1..Len(mail)
  <2>1. PICK m \in Letters : m = mail[i]  BY <1>1
  <2>2. mail'[i] = IF i \in ms THEN [m EXCEPT !.st = "pending"] ELSE m  BY <1>2, <2>1
  <2>3. PICK n : n = [m EXCEPT !.st = "pending"]  OBVIOUS
  <2>4. /\ n \in Letters /\ n.st = "pending" /\ n.topic = m.topic /\ n.req = m.req
        /\ n.body = m.body
    BY <2>3 DEF Letters
  <2>5. CASE i \in ms
    <3>1. mail'[i] = n  BY <2>2, <2>3, <2>5
    <3> QED  BY <3>1, <2>1, <2>4, <2>5
  <2>6. CASE i \notin ms
    <3>1. mail'[i] = m  BY <2>2, <2>6
    <3> QED  BY <3>1, <2>1, <2>6
  <2> QED  BY <2>5, <2>6
<1>4. mail' \in Seq(Letters) /\ DOMAIN mail' = 1..Len(mail)
  <2>1. mail' \in [1..Len(mail) -> Letters]  BY <1>2, <1>3
  <2> QED  BY <2>1, <1>1
<1> QED  BY <1>1, <1>3, <1>4 DEF SameMail, MailKept

(* Escalations stay, and are the same as long as no letter is added.        *)
LEMMA EscalationsStay ==
  ASSUME MailKept, NEW r
  PROVE  /\ Escalations(r) \subseteq Escalations(r)'
         /\ Completions(r) \subseteq Completions(r)'
         /\ SameMail => Escalations(r)' = Escalations(r) /\ Completions(r)' = Completions(r)
BY DEF MailKept, SameMail, Escalations, Completions

(* All that is counted is finite.                                           *)
LEMMA MailFinite ==
  ASSUME RecoveryTypes, NEW r
  PROVE  /\ IsFiniteSet(Escalations(r)) /\ Cardinality(Escalations(r)) \in Nat
         /\ IsFiniteSet(Completions(r)) /\ Cardinality(Completions(r)) \in Nat
         /\ IsFiniteSet(Handled(r)) /\ Cardinality(Handled(r)) \in Nat
         /\ Cardinality(Handled(r)) <= Cardinality(Completions(r))
<1>1. DOMAIN mail = 1..Len(mail) /\ Len(mail) \in Nat  BY DEF RecoveryTypes
<1>2. IsFiniteSet(DOMAIN mail)  BY <1>1, FS_Interval
<1>3. IsFiniteSet(Escalations(r))  BY <1>2, FS_Subset DEF Escalations
<1>4. IsFiniteSet(Completions(r))  BY <1>2, FS_Subset DEF Completions
<1>5. Handled(r) \subseteq Completions(r)  BY DEF Handled
<1>6. IsFiniteSet(Handled(r)) /\ Cardinality(Handled(r)) <= Cardinality(Completions(r))
  BY <1>4, <1>5, FS_Subset
<1> QED  BY <1>3, <1>4, <1>6, FS_CardinalityType

(* A step that sends nothing leaves the completions as they are.            *)
LEMMA CompletionsStand ==
  ASSUME RecoveryTypes, OneCompletionPerRun, SameMail, runs' = runs
  PROVE  OneCompletionPerRun'
<1>1. \A r \in Requests : Completions(r)' = Completions(r)  BY EscalationsStay DEF SameMail
<1> QED  BY <1>1 DEF OneCompletionPerRun

(* Without a fault nothing that was handled is counted out.                 *)
LEMMA HandledStays ==
  ASSUME RecoveryTypes, HandledOnce, SameMail, RecoveryTypes', faults' = 0 => faults = 0,
         faults' = 0 =>
           /\ \A i \in DOMAIN mail :
                /\ mail'[i].st # "dead"
                /\ mail'[i].st = "leased" =>
                     \E w \in Workers : worker'[w].st # "idle" /\ worker'[w].msg = i
           /\ \A r \in Requests : Handled(r) \subseteq Handled(r)'
  PROVE  HandledOnce'
<1> SUFFICES ASSUME faults' = 0 PROVE
      /\ \A i \in DOMAIN mail' :
           /\ mail'[i].st # "dead"
           /\ mail'[i].st = "leased" =>
                \E w \in Workers : worker'[w].st # "idle" /\ worker'[w].msg = i
      /\ \A r \in Requests : Cardinality(Escalations(r)') <= Cardinality(Handled(r)')
  BY DEF HandledOnce
<1>1. \A r \in Requests : Cardinality(Escalations(r)') <= Cardinality(Handled(r)')
  <2> TAKE r \in Requests
  <2>1. Escalations(r)' = Escalations(r)  BY EscalationsStay DEF SameMail
  <2>2. Cardinality(Escalations(r)) <= Cardinality(Handled(r))  BY DEF HandledOnce
  <2>3. IsFiniteSet(Handled(r)') /\ Cardinality(Handled(r)') \in Nat
    <3>1. IsFiniteSet(DOMAIN mail)
      <4>1. DOMAIN mail = 1..Len(mail) /\ Len(mail) \in Nat  BY DEF RecoveryTypes
      <4> QED  BY <4>1, FS_Interval
    <3>2. Handled(r)' \subseteq DOMAIN mail  BY DEF SameMail, Handled, Completions
    <3> QED  BY <3>1, <3>2, FS_Subset, FS_CardinalityType
  <2>4. Cardinality(Handled(r)) <= Cardinality(Handled(r)')  BY <2>3, FS_Subset
  <2>5. PICK i \in Nat, j \in Nat, k \in Nat :
          i = Cardinality(Escalations(r)) /\ j = Cardinality(Handled(r)) /\ k = Cardinality(Handled(r)')
    BY <2>3, MailFinite
  <2>6. i <= k  BY <2>2, <2>4, <2>5
  <2> QED  BY <2>1, <2>5, <2>6
<1> QED  BY <1>1 DEF SameMail

-----------------------------------------------------------------------------
(* The log of a request stays, and names only escalations.                  *)
LogKept ==
  /\ phoenixLog' \in [Requests -> Logs]
  /\ \A r \in Requests : /\ phoenixLog[r].status # "none" => phoenixLog'[r].status # "none"
                         /\ phoenixLog'[r].esc = NoOne \/ phoenixLog'[r].esc \in Escalations(r)

(* A step that only moves letters and workers, or writes the log.           *)
LEMMA MovesKeep ==
  ASSUME RecoveryInv, SameMail, runs' = runs, LogKept, unsent \subseteq unsent',
         worker' \in [Workers -> Standings], faults' \in Nat, faults' = 0 => faults = 0,
         HeldIsLeased', PersisterKept',
         \A i \in DOMAIN mail : mail'[i].st = "done" =>
           \/ mail[i].st = "done"
           \/ mail[i].topic = Completed /\ NeedsAttention(mail[i].body) =>
                /\ phoenixLog[mail[i].req].status # "none"
                /\ Escalations(mail[i].req) # {} \/ mail[i].req \in unsent,
         faults' = 0 =>
           /\ \A i \in DOMAIN mail :
                /\ mail'[i].st # "dead"
                /\ mail'[i].st = "leased" =>
                     \E w \in Workers : worker'[w].st # "idle" /\ worker'[w].msg = i
           /\ \A r \in Requests : Handled(r) \subseteq Handled(r)'
  PROVE  RecoveryInv'
<1>0. /\ RecoveryTypes /\ OneCompletionPerRun /\ HandledOnce
      /\ DegradedIsEscalated /\ LoggedEscalationExists
  BY DEF RecoveryInv
<1>1. /\ MailKept /\ mail' \in Seq(Letters) /\ DOMAIN mail' = DOMAIN mail
      /\ \A i \in DOMAIN mail : /\ mail'[i].topic = mail[i].topic /\ mail'[i].req = mail[i].req
                                /\ mail'[i].body = mail[i].body
  BY DEF SameMail, MailKept
<1>2. RecoveryTypes'
  <2>1. \A i \in DOMAIN mail' : mail'[i].topic = Completed =>
          mail'[i].req \in Requests /\ mail'[i].body \in Reports
    BY <1>0, <1>1 DEF RecoveryTypes
  <2> QED  BY <2>1, <1>0, <1>1 DEF RecoveryTypes, LogKept
<1>3. OneCompletionPerRun'  BY <1>0, CompletionsStand
<1>4. HandledOnce'  BY <1>0, <1>2, HandledStays
<1>5. \A r : Escalations(r)' = Escalations(r)  BY <1>1, EscalationsStay
<1>6. DegradedIsEscalated'
  <2>1. ASSUME NEW i \in DOMAIN mail, NEW r, r = mail[i].req, mail'[i].topic = Completed,
               mail'[i].st = "done", NeedsAttention(mail'[i].body)
        PROVE  phoenixLog'[r].status # "none" /\ (Escalations(r)' # {} \/ r \in unsent')
    <3>1. mail[i].topic = Completed /\ NeedsAttention(mail[i].body)  BY <1>1, <2>1
    <3>2. phoenixLog[r].status # "none" /\ (Escalations(r) # {} \/ r \in unsent)
      BY <2>1, <3>1, <1>0 DEF DegradedIsEscalated
    <3>3. r \in Requests  BY <2>1, <3>1, <1>0 DEF RecoveryTypes
    <3>4. phoenixLog'[r].status # "none"  BY <3>2, <3>3 DEF LogKept
    <3> QED  BY <3>2, <3>4, <1>5
  <2>2. \A i \in DOMAIN mail' :
          mail'[i].topic = Completed /\ mail'[i].st = "done" /\ mail'[i].body.status # "ok" =>
            /\ phoenixLog'[mail'[i].req].status # "none"
            /\ \E r : r = mail'[i].req /\ (Escalations(r)' # {} \/ r \in unsent')
    <3> TAKE i \in DOMAIN mail'
    <3> HAVE mail'[i].topic = Completed /\ mail'[i].st = "done" /\ mail'[i].body.status # "ok"
    <3>1. PICK r : r = mail[i].req /\ r = mail'[i].req  BY <1>1
    <3>2. NeedsAttention(mail'[i].body)  BY DEF NeedsAttention
    <3>3. phoenixLog'[r].status # "none" /\ (Escalations(r)' # {} \/ r \in unsent')
      BY <1>1, <2>1, <3>1, <3>2
    <3> QED  BY <3>1, <3>3
  <2> QED  BY <2>2 DEF DegradedIsEscalated, NeedsAttention, Escalations
<1>7. LoggedEscalationExists'  BY <1>5 DEF LoggedEscalationExists, LogKept
<1> QED  BY <1>2, <1>3, <1>4, <1>6, <1>7 DEF RecoveryInv

(* A step of a publisher that at most sends a letter, no escalation.        *)
LEMMA SendKeeps ==
  ASSUME RecoveryInv, RecoveryTypes', OneCompletionPerRun', faults' = 0 => faults = 0,
         worker' = worker, phoenixLog' = phoenixLog, unsent' = unsent,
         NEW m, \/ mail' = mail
                \/ /\ mail' = Append(mail, m) /\ m \in Letters /\ m.st = "pending"
                   /\ ~(m.topic = Degraded /\ m.body.from = "persister")
  PROVE  RecoveryInv'
<1>0. /\ RecoveryTypes /\ HeldIsLeased /\ PersisterKept /\ HandledOnce
      /\ DegradedIsEscalated /\ LoggedEscalationExists
  BY DEF RecoveryInv
<1>1. CASE mail' = mail
  <2>1. HeldIsLeased'  BY <1>0, <1>1 DEF HeldIsLeased
  <2>2. PersisterKept'  BY <1>0, <1>1 DEF PersisterKept, Escalations, NeedsAttention
  <2>3. HandledOnce'  BY <1>0, <1>1 DEF HandledOnce, Escalations, Handled, Completions
  <2>4. DegradedIsEscalated'
    BY <1>0, <1>1 DEF DegradedIsEscalated, Escalations, NeedsAttention
  <2>5. LoggedEscalationExists'  BY <1>0, <1>1 DEF LoggedEscalationExists, Escalations
  <2> QED  BY <2>1, <2>2, <2>3, <2>4, <2>5 DEF RecoveryInv
<1>2. CASE /\ mail' = Append(mail, m) /\ m \in Letters /\ m.st = "pending"
           /\ ~(m.topic = Degraded /\ m.body.from = "persister")
  <2>1. /\ MailKept /\ Len(mail) + 1 \notin DOMAIN mail
        /\ DOMAIN mail' = DOMAIN mail \cup {Len(mail) + 1}
        /\ mail'[Len(mail) + 1] = m
        /\ \A i \in DOMAIN mail : mail'[i] = mail[i]
    BY <1>0, <1>2, MailAppended
  <2>2. PICK n : n = Len(mail) + 1  OBVIOUS
  <2>3. \A r : Escalations(r)' = Escalations(r)
    <3> TAKE r
    <3>1. n \notin Escalations(r)'  BY <1>2, <2>1, <2>2 DEF Escalations
    <3>2. \A i \in DOMAIN mail : i \in Escalations(r)' <=> i \in Escalations(r)
      BY <2>1 DEF Escalations
    <3>3. Escalations(r) \subseteq DOMAIN mail /\ Escalations(r)' \subseteq DOMAIN mail \cup {n}
      BY <2>1, <2>2 DEF Escalations
    <3> QED  BY <3>1, <3>2, <3>3
  <2>4. \A r : Handled(r)' = Handled(r)
    <3> TAKE r
    <3>0. \A w \in Workers : worker[w].st # "idle" => worker[w].msg \in DOMAIN mail
      BY <1>0 DEF HeldIsLeased
    <3>1. n \notin Handled(r)'  BY <1>2, <2>1, <2>2, <3>0 DEF Handled, Workers
    <3>2. \A i \in DOMAIN mail : i \in Handled(r)' <=> i \in Handled(r)
      BY <2>1 DEF Handled, Completions
    <3>3. Handled(r) \subseteq DOMAIN mail /\ Handled(r)' \subseteq DOMAIN mail \cup {n}
      BY <2>1, <2>2 DEF Handled, Completions
    <3> QED  BY <3>1, <3>2, <3>3
  <2>5. HeldIsLeased'  BY <1>0, <2>1 DEF HeldIsLeased
  <2>6. PersisterKept'
    <3>1. CASE worker["persister"].st = "idle"  BY <3>1 DEF PersisterKept
    <3>2. CASE worker["persister"].st # "idle"
      <4>1. worker["persister"].msg \in DOMAIN mail  BY <1>0, <3>2 DEF HeldIsLeased, Workers
      <4>2. mail'[worker["persister"].msg] = mail[worker["persister"].msg]  BY <2>1, <4>1
      <4>3. PICK r : r = mail[worker["persister"].msg].req  OBVIOUS
      <4>4. Escalations(r)' = Escalations(r)  BY <2>3
      <4>5. /\ worker["persister"].st \in {"logged", "escalated", "rewriting", "returned"} =>
                 phoenixLog[r].status # "none"
            /\ worker["persister"].st \in {"escalated", "rewriting"} => worker["persister"].esc \in Escalations(r)
            /\ worker["persister"].st = "returned"
                 /\ NeedsAttention(mail[worker["persister"].msg].body) =>
                 Escalations(r) # {} \/ r \in unsent
        BY <1>0, <4>3 DEF PersisterKept
      <4>6. r = mail'[worker'["persister"].msg].req
            /\ mail'[worker'["persister"].msg].body = mail[worker["persister"].msg].body
        BY <4>2, <4>3
      <4> QED  BY <4>4, <4>5, <4>6 DEF PersisterKept, NeedsAttention, Escalations
    <3> QED  BY <3>1, <3>2
  <2>7. HandledOnce'
    <3> SUFFICES ASSUME faults' = 0
                 PROVE  /\ \A i \in DOMAIN mail' :
                             /\ mail'[i].st # "dead"
                             /\ mail'[i].st = "leased" =>
                                  \E w \in Workers : worker'[w].st # "idle" /\ worker'[w].msg = i
                        /\ \A r \in Requests : Cardinality(Escalations(r)') <= Cardinality(Handled(r)')
      BY DEF HandledOnce
    <3>1. \A i \in DOMAIN mail :
             /\ mail[i].st # "dead"
             /\ mail[i].st = "leased" => \E w \in Workers : worker[w].st # "idle" /\ worker[w].msg = i
      BY <1>0 DEF HandledOnce
    <3>2. \A i \in DOMAIN mail' :
             /\ mail'[i].st # "dead"
             /\ mail'[i].st = "leased" =>
                  \E w \in Workers : worker'[w].st # "idle" /\ worker'[w].msg = i
      BY <1>2, <2>1, <3>1
    <3>3. \A r \in Requests : Cardinality(Escalations(r)') <= Cardinality(Handled(r)')
      BY <1>0, <2>3, <2>4 DEF HandledOnce
    <3> QED  BY <3>2, <3>3
  <2>8. DegradedIsEscalated'
    <3>1. ASSUME NEW i \in DOMAIN mail', mail'[i].topic = Completed, mail'[i].st = "done",
                 mail'[i].body.status # "ok"
          PROVE  /\ phoenixLog'[mail'[i].req].status # "none"
                 /\ \E r : r = mail'[i].req /\ (Escalations(r)' # {} \/ r \in unsent')
      <4>1. i \in DOMAIN mail /\ mail'[i] = mail[i]  BY <1>2, <2>1, <3>1
      <4>2. PICK r : r = mail[i].req  OBVIOUS
      <4>3. phoenixLog[r].status # "none" /\ (Escalations(r) # {} \/ r \in unsent)
        BY <1>0, <3>1, <4>1, <4>2 DEF DegradedIsEscalated, NeedsAttention
      <4> QED  BY <2>3, <4>1, <4>2, <4>3
    <3> QED  BY <3>1 DEF DegradedIsEscalated, NeedsAttention, Escalations
  <2>9. LoggedEscalationExists'  BY <1>0, <2>3 DEF LoggedEscalationExists
  <2> QED  BY <2>5, <2>6, <2>7, <2>8, <2>9 DEF RecoveryInv
<1> QED  BY <1>1, <1>2

(* A publisher's process goes on by itself, without a letter.               *)
LEMMA ProcessKeeps ==
  ASSUME RecoveryInv, NEW r \in Requests, NEW c \in Processes, runs' = [runs EXCEPT ![r] = c],
         c.nth + (IF runs[r].st = "levels" THEN 1 ELSE 0) >= runs[r].nth + (IF c.st = "levels" THEN 1 ELSE 0),
         UNCHANGED <<mail, worker, phoenixLog, unsent>>, faults' \in Nat, faults' = 0 => faults = 0
  PROVE  RecoveryInv'
<1>0. RecoveryTypes /\ OneCompletionPerRun  BY DEF RecoveryInv
<1>1. /\ mail' = mail /\ worker' = worker /\ phoenixLog' = phoenixLog /\ unsent' = unsent
  OBVIOUS
<1>2. /\ runs' \in [Requests -> Processes] /\ runs'[r] = c
      /\ \A q \in Requests \ {r} : runs'[q] = runs[q]
  BY <1>0 DEF RecoveryTypes
<1>3. RecoveryTypes'  BY <1>0, <1>1, <1>2 DEF RecoveryTypes
<1>4. OneCompletionPerRun'
  <2>1. \A q : Completions(q)' = Completions(q)  BY <1>1 DEF Completions
  <2>2. \A q \in Requests : Cardinality(Completions(q)) + (IF runs'[q].st = "levels" THEN 1 ELSE 0)
                              <= runs'[q].nth
    <3> TAKE q \in Requests
    <3>1. Cardinality(Completions(q)) + (IF runs[q].st = "levels" THEN 1 ELSE 0) <= runs[q].nth
      BY <1>0 DEF OneCompletionPerRun
    <3>2. CASE q = r
      <4>1. PICK k \in Nat, n \in Nat, l \in Nat :
              k = Cardinality(Completions(r)) /\ n = runs[r].nth /\ l = c.nth
        BY <1>0, MailFinite DEF RecoveryTypes, Processes
      <4>2. PICK a \in {0, 1}, b \in {0, 1} :
              /\ a = IF runs[r].st = "levels" THEN 1 ELSE 0
              /\ b = IF c.st = "levels" THEN 1 ELSE 0
        OBVIOUS
      <4>3. k + a <= n  BY <3>1, <3>2, <4>1, <4>2
      <4>4. l + a >= n + b  BY <4>1, <4>2
      <4>5. k + b <= l  BY <4>3, <4>4
      <4> QED  BY <3>2, <4>1, <4>2, <4>5, <1>2
    <3>3. CASE q # r  BY <3>1, <3>3, <1>2
    <3> QED  BY <3>2, <3>3
  <2> QED  BY <2>1, <2>2 DEF OneCompletionPerRun
<1> QED  BY <1>1, <1>3, <1>4, SendKeeps

(* A process that begins or runs a level has sent nothing yet.              *)
LEMMA RunAgainStep ==
  ASSUME RecoveryInv, NEW r \in Requests, RunAgain(r)
  PROVE  RecoveryInv'
<1>0. RecoveryTypes  BY DEF RecoveryInv
<1>1. PICK n \in Nat : n = runs[r].nth  BY <1>0 DEF RecoveryTypes, Processes
<1>2. PICK c : c = [st |-> "levels", nth |-> n + 1, levels |-> <<>>, exit |-> NoOne]  OBVIOUS
<1>3. c \in Processes /\ c.nth = n + 1 /\ c.st = "levels"  BY <1>2 DEF Processes
<1>4. [NoRun EXCEPT !.st = "levels", !.nth = runs[r].nth + 1] = c
  <2>1. PICK m : m = [NoRun EXCEPT !.st = "levels"]  OBVIOUS
  <2>2. m = [st |-> "levels", nth |-> 0, levels |-> <<>>, exit |-> NoOne]  BY <2>1 DEF NoRun
  <2>3. [m EXCEPT !.nth = n + 1] = c  BY <2>2, <1>2
  <2> QED  BY <2>1, <2>3, <1>1
<1>5. /\ runs' = [runs EXCEPT ![r] = c] /\ runs[r].st # "levels"
      /\ UNCHANGED <<mail, worker, phoenixLog, unsent>> /\ faults' = faults
  BY <1>4 DEF RunAgain
<1>6. c.nth + (IF runs[r].st = "levels" THEN 1 ELSE 0) >= runs[r].nth + (IF c.st = "levels" THEN 1 ELSE 0)
  <2>1. c.nth + 0 >= n + 1  BY <1>3
  <2> QED  BY <2>1, <1>1, <1>3, <1>5
<1>7. faults' \in Nat  BY <1>0, <1>5 DEF RecoveryTypes
<1> QED  BY <1>3, <1>5, <1>6, <1>7, ProcessKeeps

(* The same for a level that has run.                                       *)
LEMMA RunLevelStep ==
  ASSUME RecoveryInv, NEW r \in Requests, RunLevel(r)
  PROVE  RecoveryInv'
<1>0. RecoveryTypes  BY DEF RecoveryInv
<1>1. PICK came : runs' = [runs EXCEPT ![r].levels = Append(@, LevelOk(came))]  BY DEF RunLevel
<1>2. runs \in [Requests -> Processes] /\ runs[r] \in Processes  BY <1>0 DEF RecoveryTypes
<1>3. PICK ls : ls = Append(runs[r].levels, LevelOk(came))  OBVIOUS
<1>4. ls \in Seq(BOOLEAN)
  <2>1. LevelOk(came) \in BOOLEAN  BY DEF LevelOk
  <2> QED  BY <2>1, <1>2, <1>3 DEF Processes
<1>5. PICK c : c = [st |-> runs[r].st, nth |-> runs[r].nth, levels |-> ls, exit |-> runs[r].exit]
  OBVIOUS
<1>6. c \in Processes /\ c.nth = runs[r].nth /\ c.st = runs[r].st  BY <1>2, <1>4, <1>5 DEF Processes
<1>7. [runs[r] EXCEPT !.levels = ls] = c  BY <1>2, <1>5 DEF Processes
<1>8. runs' = [runs EXCEPT ![r] = c]  BY <1>1, <1>2, <1>3, <1>7
<1>9. c.nth + (IF runs[r].st = "levels" THEN 1 ELSE 0) >= runs[r].nth + (IF c.st = "levels" THEN 1 ELSE 0)
  <2>1. PICK n \in Nat : n = runs[r].nth  BY <1>2 DEF Processes
  <2>2. n + 1 >= n + 1 /\ n + 0 >= n + 0  OBVIOUS
  <2> QED  BY <2>1, <2>2, <1>6
<1>10. UNCHANGED <<mail, worker, phoenixLog, unsent>> /\ faults' = faults  BY DEF RunLevel
<1>11. faults' \in Nat  BY <1>0, <1>10 DEF RecoveryTypes
<1> QED  BY <1>6, <1>8, <1>9, <1>10, <1>11, ProcessKeeps

(* The process that ends has sent one completion more, or none.             *)
LEMMA PublishStep ==
  ASSUME RecoveryInv, NEW r \in Requests, Publish(r)
  PROVE  RecoveryInv'
<1>0. RecoveryTypes /\ OneCompletionPerRun  BY DEF RecoveryInv
<1>1. runs \in [Requests -> Processes] /\ runs[r] \in Processes  BY <1>0 DEF RecoveryTypes
<1>2. PICK ls \in Seq(BOOLEAN) : ls = runs[r].levels  BY <1>1 DEF Processes
<1>3. PICK body : body = [status |-> FinalStatus(ls), passed |-> Passed(ls),
                          bad |-> {i \in DOMAIN ls : ~ls[i]}]
  OBVIOUS
<1>4. PICK m : m = Message(Completed, r, <<r, "phoenix-completion">>, body)  OBVIOUS
<1>4a. body \in Reports
  <2>1. Passed(ls) \in Nat
    <3>1. DOMAIN ls = 1..Len(ls) /\ Len(ls) \in Nat  OBVIOUS
    <3>2. IsFiniteSet(1..Len(ls))  BY <3>1, FS_Interval
    <3>3. PICK ok : ok = {i \in DOMAIN ls : ls[i]}  OBVIOUS
    <3>4. ok \subseteq 1..Len(ls)  BY <3>1, <3>3
    <3>5. IsFiniteSet(ok)  BY <3>2, <3>4, FS_Subset
    <3> QED  BY <3>3, <3>5, FS_CardinalityType DEF Passed
  <2>2. {i \in DOMAIN ls : ~ls[i]} \in SUBSET Nat  OBVIOUS
  <2>3. FinalStatus(ls) \in {"ok", "degraded"}  BY DEF FinalStatus
  <2> QED  BY <1>3, <2>1, <2>2, <2>3 DEF Reports
<1>5. m \in Letters /\ m.topic = Completed /\ m.req = r /\ m.st = "pending" /\ m.body = body
  <2>5. body \in Bodies  BY <1>4a DEF Bodies
  <2>6. m = [topic |-> Completed, req |-> r, key |-> <<r, "phoenix-completion">>, body |-> body,
             st |-> "pending", tries |-> 0]
    BY <1>4 DEF Message
  <2>7. <<r, "phoenix-completion">> 
          \in (Requests \cup Checks) \X {"phoenix-completion", "monitor"}
    OBVIOUS
  <2>8. m.topic = Completed /\ m.req = r /\ m.st = "pending" /\ m.body = body  BY <2>6
  <2> QED  BY <2>5, <2>6, <2>7, <2>8 DEF Letters
<1>7. /\ runs[r].st = "levels"
      /\ worker' = worker /\ phoenixLog' = phoenixLog /\ unsent' = unsent
  BY DEF Publish
<1>8. mail' = mail \/ mail' = Append(mail, m)
  <2>1. Enqueued(m) = mail \/ Enqueued(m) = Append(mail, m)  BY DEF Enqueued
  <2>2. mail' = mail \/ mail' = Enqueued(m)  BY <1>2, <1>3, <1>4 DEF Publish
  <2> QED  BY <2>1, <2>2
<1>9. faults' \in Nat /\ (faults' = 0 => faults = 0)
  <2>1. faults' = faults \/ faults' = faults + 1  BY DEF Publish, Fault
  <2>2. faults \in Nat  BY <1>0 DEF RecoveryTypes
  <2> QED  BY <2>1, <2>2
<1>10. PICK code \in {0, 1, 2} : runs' = Exited(r, code)  BY DEF Publish
<1>11. PICK c : c = [st |-> "exited", nth |-> runs[r].nth, levels |-> <<>>, exit |-> code]
  OBVIOUS
<1>12. c \in Processes /\ c.nth = runs[r].nth /\ c.st = "exited"  BY <1>1, <1>11 DEF Processes
<1>13. runs' = [runs EXCEPT ![r] = c]
  <2>1. PICK k : k = [runs[r] EXCEPT !.st = "exited"]  OBVIOUS
  <2>2. k = [st |-> "exited", nth |-> runs[r].nth, levels |-> runs[r].levels,
             exit |-> runs[r].exit]
    BY <1>1, <2>1 DEF Processes
  <2>3. PICK l : l = [k EXCEPT !.levels = <<>>]  OBVIOUS
  <2>4. l = [st |-> "exited", nth |-> runs[r].nth, levels |-> <<>>, exit |-> runs[r].exit]
    BY <2>2, <2>3
  <2>5. [l EXCEPT !.exit = code] = c  BY <1>11, <2>4
  <2>6. runs' = [runs EXCEPT ![r].st = "exited", ![r].levels = <<>>, ![r].exit = code]
    BY <1>10 DEF Exited
  <2> QED  BY <1>1, <2>1, <2>3, <2>5, <2>6
<1>14. CASE mail' = mail
  <2>1. c.nth + (IF runs[r].st = "levels" THEN 1 ELSE 0)
          >= runs[r].nth + (IF c.st = "levels" THEN 1 ELSE 0)
    <3>1. PICK n \in Nat : n = runs[r].nth  BY <1>1 DEF Processes
    <3>2. n + 1 >= n + 0  OBVIOUS
    <3> QED  BY <3>1, <3>2, <1>7, <1>12
  <2> QED  BY <1>7, <1>9, <1>12, <1>13, <1>14, <2>1, ProcessKeeps
<1>15. CASE mail' = Append(mail, m)
  <2>1. /\ MailKept /\ Len(mail) + 1 \notin DOMAIN mail
        /\ DOMAIN mail' = DOMAIN mail \cup {Len(mail) + 1}
        /\ mail'[Len(mail) + 1] = m
        /\ \A i \in DOMAIN mail : mail'[i] = mail[i]
    BY <1>0, <1>5, <1>15, MailAppended
  <2>2. /\ runs' \in [Requests -> Processes] /\ runs'[r] = c
        /\ \A q \in Requests \ {r} : runs'[q] = runs[q]
    BY <1>1, <1>12, <1>13
  <2>3. RecoveryTypes'
    <3>1. \A i \in DOMAIN mail' : mail'[i].topic = Completed =>
            mail'[i].req \in Requests /\ mail'[i].body \in Reports
      BY <2>1, <1>0, <1>5, <1>4a DEF RecoveryTypes
    <3> QED  BY <3>1, <2>1, <2>2, <1>0, <1>7, <1>9 DEF RecoveryTypes, MailKept
  <2>4. OneCompletionPerRun'
    <3> SUFFICES ASSUME NEW q \in Requests
                 PROVE  Cardinality(Completions(q)') + (IF runs'[q].st = "levels" THEN 1 ELSE 0)
                          <= runs'[q].nth
      BY DEF OneCompletionPerRun
    <3>1. Cardinality(Completions(q)) + (IF runs[q].st = "levels" THEN 1 ELSE 0) <= runs[q].nth
      BY <1>0 DEF OneCompletionPerRun
    <3>2. PICK n : n = Len(mail) + 1  OBVIOUS
    <3>3. CASE q = r
      <4>1. Completions(r)' = Completions(r) \cup {n}  BY <1>5, <2>1, <3>2 DEF Completions
      <4>2. n \notin Completions(r)  BY <2>1, <3>2 DEF Completions
      <4>3. Cardinality(Completions(r)') = Cardinality(Completions(r)) + 1
        BY <4>1, <4>2, <1>0, MailFinite, FS_AddElement
      <4>4. PICK k \in Nat, j \in Nat : k = Cardinality(Completions(r)) /\ j = runs[r].nth
        BY <1>0, <1>1, MailFinite DEF Processes
      <4>5. k + 1 <= j  BY <3>1, <3>3, <4>4, <1>7
      <4>6. k + 1 + 0 <= j  BY <4>4, <4>5
      <4> QED  BY <3>3, <4>3, <4>4, <4>6, <2>2, <1>12
    <3>4. CASE q # r
      <4>1. Completions(q)' = Completions(q)  BY <3>4, <1>5, <2>1 DEF Completions
      <4> QED  BY <3>1, <3>4, <4>1, <2>2
    <3> QED  BY <3>3, <3>4
  <2>5. ~(m.topic = Degraded /\ m.body.from = "persister")
    BY <1>5 DEF Completed, Degraded
  <2> QED  BY <1>5, <1>7, <1>9, <1>15, <2>3, <2>4, <2>5, SendKeeps
<1> QED  BY <1>8, <1>14, <1>15

(* What the monitor sends is neither a completion nor an escalation.        *)
LEMMA MonitorStep ==
  ASSUME RecoveryInv, NEW r \in Checks, Monitor(r)
  PROVE  RecoveryInv'
<1>0. RecoveryTypes /\ OneCompletionPerRun  BY DEF RecoveryInv
<1>1. /\ runs' = runs /\ worker' = worker /\ phoenixLog' = phoenixLog /\ unsent' = unsent
  BY DEF Monitor
<1>2. PICK c \in DefibCommands, s \in Summaries, problem \in BOOLEAN :
        LET m == Message(Degraded, r, <<r, "monitor">>,
                         [from |-> "monitor", cmd |-> c, problem |-> problem, summary |-> s])
        IN  mail' = mail \/ mail' = Enqueued(m)
  <2>1. PICK c \in DefibCommands, mode \in {"always", "on-degraded", "never"}, s \in Summaries :
          \E found \in Finds(c) :
            LET problem == found \/ c = "UNKNOWN"
                m == Message(Degraded, r, <<r, "monitor">>,
                             [from |-> "monitor", cmd |-> c, problem |-> problem, summary |-> s])
            IN  mail' = mail \/ mail' = Enqueued(m)
    BY DEF Monitor
  <2>2. PICK found \in Finds(c) :
          LET problem == found \/ c = "UNKNOWN"
              m == Message(Degraded, r, <<r, "monitor">>,
                           [from |-> "monitor", cmd |-> c, problem |-> problem, summary |-> s])
          IN  mail' = mail \/ mail' = Enqueued(m)
    BY <2>1
  <2>3. (found \/ c = "UNKNOWN") \in BOOLEAN  OBVIOUS
  <2> QED  BY <2>2, <2>3
<1>3. PICK body : body = [from |-> "monitor", cmd |-> c, problem |-> problem, summary |-> s]
  OBVIOUS
<1>4. PICK m : m = Message(Degraded, r, <<r, "monitor">>, body)  OBVIOUS
<1>5. m \in Letters /\ m.topic = Degraded /\ m.st = "pending" /\ m.body.from = "monitor"
  <2>1. body \in Bodies  BY <1>3 DEF Bodies
  <2>2. m = [topic |-> Degraded, req |-> r, key |-> <<r, "monitor">>, body |-> body,
             st |-> "pending", tries |-> 0]
    BY <1>4 DEF Message
  <2>3. <<r, "monitor">> 
          \in (Requests \cup Checks) \X {"phoenix-completion", "monitor"}
    OBVIOUS
  <2>4. m.topic = Degraded /\ m.st = "pending" /\ m.body.from = "monitor"  BY <1>3, <2>2
  <2> QED  BY <2>1, <2>2, <2>3, <2>4 DEF Letters
<1>6. mail' = mail \/ mail' = Append(mail, m)
  <2>1. Enqueued(m) = mail \/ Enqueued(m) = Append(mail, m)  BY DEF Enqueued
  <2>2. mail' = mail \/ mail' = Enqueued(m)  BY <1>2, <1>3, <1>4
  <2> QED  BY <2>1, <2>2
<1>7. faults' \in Nat /\ (faults' = 0 => faults = 0)
  <2>1. faults' = faults \/ faults' = faults + 1
    <3>1. UNCHANGED <<mail, faults>> \/ UNCHANGED faults \/ Fault  BY DEF Monitor
    <3> QED  BY <3>1 DEF Fault
  <2>2. faults \in Nat  BY <1>0 DEF RecoveryTypes
  <2> QED  BY <2>1, <2>2
<1>8. /\ mail' \in Seq(Letters)
      /\ \A i \in DOMAIN mail' : mail'[i].topic = Completed => i \in DOMAIN mail /\ mail'[i] = mail[i]
      /\ \A q : Completions(q)' = Completions(q)
  <2>1. CASE mail' = mail  BY <2>1, <1>0 DEF RecoveryTypes, Completions
  <2>2. CASE mail' = Append(mail, m)
    <3>1. /\ MailKept /\ Len(mail) + 1 \notin DOMAIN mail
          /\ DOMAIN mail' = DOMAIN mail \cup {Len(mail) + 1}
          /\ mail'[Len(mail) + 1] = m
          /\ \A i \in DOMAIN mail : mail'[i] = mail[i]
      BY <1>0, <1>5, <2>2, MailAppended
    <3>2. Completed # Degraded  BY DEF Completed, Degraded
    <3>3. \A i \in DOMAIN mail' : mail'[i].topic = Completed => i \in DOMAIN mail /\ mail'[i] = mail[i]
      BY <1>5, <3>1, <3>2
    <3>4. \A q : Completions(q)' = Completions(q)  BY <3>1, <3>3 DEF Completions
    <3> QED  BY <3>1, <3>3, <3>4 DEF MailKept
  <2> QED  BY <1>6, <2>1, <2>2
<1>9. RecoveryTypes'
  <2>1. \A i \in DOMAIN mail' : mail'[i].topic = Completed =>
          mail'[i].req \in Requests /\ mail'[i].body \in Reports
    BY <1>0, <1>8 DEF RecoveryTypes
  <2> QED  BY <2>1, <1>0, <1>1, <1>7, <1>8 DEF RecoveryTypes
<1>10. OneCompletionPerRun'  BY <1>0, <1>1, <1>8 DEF OneCompletionPerRun
<1>11. ~(m.topic = Degraded /\ m.body.from = "persister")  BY <1>5
<1> QED  BY <1>1, <1>5, <1>6, <1>7, <1>9, <1>10, <1>11, SendKeeps

-----------------------------------------------------------------------------
(* The consumers.                                                           *)

(* A log that is not written is kept.                                       *)
LEMMA LogStands ==
  ASSUME RecoveryInv, phoenixLog' = phoenixLog
  PROVE  LogKept
BY DEF RecoveryInv, RecoveryTypes, LoggedEscalationExists, LogKept

(* Mail that does not change is kept.                                       *)
LEMMA MailStands ==
  ASSUME RecoveryTypes, mail' = mail
  PROVE  SameMail
BY DEF RecoveryTypes, SameMail, MailKept

(* The consumers never hold the same letter: their topics differ.           *)
LEMMA HeldApart ==
  ASSUME HeldIsLeased, NEW v \in Workers, NEW w \in Workers, v # w,
         worker[v].st # "idle", worker[w].st # "idle"
  PROVE  worker[v].msg # worker[w].msg
<1>1. Topic[v] # Topic[w]  BY DEF Topic, Workers, Completed, Degraded
<1> QED  BY <1>1 DEF HeldIsLeased

(* A worker that goes on.                                                   *)
LEMMA WorkerSet ==
  ASSUME RecoveryTypes, NEW w \in Workers, NEW c \in Standings, worker' = [worker EXCEPT ![w] = c]
  PROVE  /\ worker' \in [Workers -> Standings] /\ worker'[w] = c
         /\ \A v \in Workers \ {w} : worker'[v] = worker[v]
BY DEF RecoveryTypes

(* While the persister rests on its letter, what it knows of it stays true. *)
LEMMA PersisterStands ==
  ASSUME RecoveryInv, SameMail, LogKept, unsent \subseteq unsent',
         worker'["persister"] = worker["persister"]
  PROVE  PersisterKept'
<1>0. RecoveryTypes /\ HeldIsLeased /\ PersisterKept  BY DEF RecoveryInv
<1>1. CASE worker["persister"].st = "idle"  BY <1>1 DEF PersisterKept
<1>2. CASE worker["persister"].st # "idle"
  <2>1. PICK i \in DOMAIN mail : /\ i = worker["persister"].msg /\ i = worker'["persister"].msg
                                 /\ mail[i].topic = Completed
    BY <1>0, <1>2 DEF HeldIsLeased, Workers, Topic
  <2>2. PICK r : r = mail[i].req /\ r = mail'[i].req  BY <2>1 DEF SameMail, MailKept
  <2>3. r \in Requests /\ mail'[i].body = mail[i].body
    BY <1>0, <2>1, <2>2 DEF RecoveryTypes, SameMail, MailKept
  <2>4. Escalations(r)' = Escalations(r)  BY EscalationsStay DEF SameMail
  <2>5. /\ worker["persister"].st \in {"logged", "escalated", "rewriting", "returned"} =>
             phoenixLog[r].status # "none"
        /\ worker["persister"].st \in {"escalated", "rewriting"} => worker["persister"].esc \in Escalations(r)
        /\ worker["persister"].st = "returned" /\ NeedsAttention(mail[i].body) =>
             Escalations(r) # {} \/ r \in unsent
    BY <1>0, <2>1, <2>2 DEF PersisterKept
  <2>6. phoenixLog[r].status # "none" => phoenixLog'[r].status # "none"
    BY <2>3 DEF LogKept
  <2> QED  BY <2>1, <2>2, <2>3, <2>4, <2>5, <2>6 DEF PersisterKept, NeedsAttention, Escalations
<1> QED  BY <1>1, <1>2

(* What is done stays done; the persister keeps what it has escalated, or   *)
(* acknowledges it.                                                         *)
LEMMA HandledGrows ==
  ASSUME SameMail, \A i \in DOMAIN mail : mail[i].st = "done" => mail'[i].st = "done",
         worker["persister"].st \in {"escalated", "rewriting", "returned"} =>
           \/ /\ worker'["persister"].st \in {"escalated", "rewriting", "returned"}
              /\ worker'["persister"].msg = worker["persister"].msg
           \/ mail'[worker["persister"].msg].st = "done"
  PROVE  \A r \in Requests : Handled(r) \subseteq Handled(r)'
<1> TAKE r \in Requests
<1>1. Completions(r)' = Completions(r)  BY EscalationsStay DEF SameMail
<1>2. Completions(r) \subseteq DOMAIN mail  BY DEF Completions
<1>3. ASSUME NEW i \in Handled(r) PROVE i \in Handled(r)'
  <2>1. i \in Completions(r)' /\ i \in DOMAIN mail  BY <1>1, <1>2 DEF Handled
  <2>2. CASE mail[i].st = "done"
    <3>1. mail'[i].st = "done"  BY <2>1, <2>2
    <3> QED  BY <2>1, <3>1 DEF Handled
  <2>3. CASE worker["persister"].st \in {"escalated", "rewriting", "returned"} /\ worker["persister"].msg = i
    BY <2>1, <2>3 DEF Handled
  <2> QED  BY <2>2, <2>3 DEF Handled
<1> QED  BY <1>3

(* A letter that is taken is held by whoever takes it.                      *)
LEMMA TakeStep ==
  ASSUME RecoveryInv, NEW w \in Workers, Take(w)
  PROVE  RecoveryInv'
<1>0. RecoveryTypes /\ HeldIsLeased /\ HandledOnce  BY DEF RecoveryInv
<1>1. PICK i \in DOMAIN mail :
        /\ mail[i].topic = Topic[w] /\ mail[i].st = "pending"
        /\ mail' = [mail EXCEPT ![i].st = "leased"]
        /\ worker' = [worker EXCEPT ![w] = [st |-> "got", msg |-> i, esc |-> NoOne]]
  BY DEF Take
<1>2. /\ worker[w].st = "idle" /\ runs' = runs /\ phoenixLog' = phoenixLog /\ unsent' = unsent
      /\ faults' = faults
  BY DEF Take
<1>3. mail \in Seq(Letters) /\ DOMAIN mail = 1..Len(mail)  BY <1>0 DEF RecoveryTypes
<1>4. PICK n \in Nat : n = mail[i].tries
  <2>1. mail[i] \in Letters  BY <1>3
  <2> QED  BY <2>1 DEF Letters
<1>5. mail' = [mail EXCEPT ![i] = [topic |-> mail[i].topic, req |-> mail[i].req,
                                   key |-> mail[i].key, body |-> mail[i].body,
                                   st |-> "leased", tries |-> n]]
  <2>1. mail[i] \in Letters  BY <1>3
  <2>2. [mail[i] EXCEPT !.st = "leased"]
          = [topic |-> mail[i].topic, req |-> mail[i].req, key |-> mail[i].key,
             body |-> mail[i].body, st |-> "leased", tries |-> n]
    BY <2>1, <1>4 DEF Letters
  <2> QED  BY <1>1, <1>3, <2>2
<1>6. SameMail /\ mail'[i].st = "leased" /\ \A j \in DOMAIN mail \ {i} : mail'[j] = mail[j]
  BY <1>0, <1>5, LetterMoved
<1>7. PICK c : c = [st |-> "got", msg |-> i, esc |-> NoOne]  OBVIOUS
<1>8. c \in Standings /\ c.st = "got" /\ c.msg = i  BY <1>3, <1>7 DEF Standings
<1>9. /\ worker' \in [Workers -> Standings] /\ worker'[w] = c
      /\ \A v \in Workers \ {w} : worker'[v] = worker[v]
  BY <1>0, <1>1, <1>7, <1>8, WorkerSet
<1>10. HeldIsLeased'
  <2> SUFFICES ASSUME NEW v \in Workers, worker'[v].st # "idle"
               PROVE  /\ worker'[v].msg \in DOMAIN mail'
                      /\ mail'[worker'[v].msg].topic = Topic[v]
                      /\ mail'[worker'[v].msg].st = "leased"
    BY DEF HeldIsLeased
  <2>1. CASE v = w  BY <2>1, <1>1, <1>6, <1>8, <1>9 DEF SameMail, MailKept
  <2>2. CASE v # w
    <3>1. worker'[v] = worker[v]  BY <2>2, <1>9
    <3>2. /\ worker[v].msg \in DOMAIN mail /\ mail[worker[v].msg].topic = Topic[v]
          /\ mail[worker[v].msg].st = "leased"
      BY <3>1, <1>0 DEF HeldIsLeased
    <3>3. worker[v].msg # i  BY <3>2, <1>1
    <3> QED  BY <3>1, <3>2, <3>3, <1>6 DEF SameMail
  <2> QED  BY <2>1, <2>2
<1>11. LogKept  BY <1>2, LogStands
<1>12. PersisterKept'
  <2>1. CASE w = "persister"  BY <2>1, <1>8, <1>9 DEF PersisterKept
  <2>2. CASE w # "persister"
    <3>1. worker'["persister"] = worker["persister"]  BY <2>2, <1>9 DEF Workers
    <3> QED  BY <3>1, <1>2, <1>6, <1>11, PersisterStands
  <2> QED  BY <2>1, <2>2
<1>13. \A j \in DOMAIN mail : mail'[j].st = "done" <=> mail[j].st = "done"
  <2> TAKE j \in DOMAIN mail
  <2>1. CASE j = i  BY <2>1, <1>1, <1>6
  <2>2. CASE j # i  BY <2>2, <1>6
  <2> QED  BY <2>1, <2>2
<1>14. \A r \in Requests : Handled(r) \subseteq Handled(r)'
  <2>1. worker["persister"].st \in {"escalated", "rewriting", "returned"} =>
           /\ worker'["persister"].st \in {"escalated", "rewriting", "returned"}
           /\ worker'["persister"].msg = worker["persister"].msg
    <3>1. CASE w = "persister"  BY <3>1, <1>2
    <3>2. CASE w # "persister"
      <4>1. worker'["persister"] = worker["persister"]  BY <3>2, <1>9 DEF Workers
      <4> QED  BY <4>1
    <3> QED  BY <3>1, <3>2
  <2> QED  BY <2>1, <1>6, <1>13, HandledGrows
<1>15. faults' = 0 =>
         \A j \in DOMAIN mail :
           /\ mail'[j].st # "dead"
           /\ mail'[j].st = "leased" => \E v \in Workers : worker'[v].st # "idle" /\ worker'[v].msg = j
  <2> SUFFICES ASSUME faults = 0, NEW j \in DOMAIN mail
               PROVE  /\ mail'[j].st # "dead"
                      /\ mail'[j].st = "leased" =>
                           \E v \in Workers : worker'[v].st # "idle" /\ worker'[v].msg = j
    BY <1>2
  <2>1. CASE j = i  BY <2>1, <1>6, <1>8, <1>9
  <2>2. CASE j # i
    <3>1. mail'[j] = mail[j]  BY <2>2, <1>6
    <3>2. /\ mail[j].st # "dead"
          /\ mail[j].st = "leased" => \E v \in Workers : worker[v].st # "idle" /\ worker[v].msg = j
      BY <1>0 DEF HandledOnce
    <3>3. \A v \in Workers : worker[v].st # "idle" => worker'[v] = worker[v]  BY <1>2, <1>9
    <3> QED  BY <3>1, <3>2, <3>3
  <2> QED  BY <2>1, <2>2
<1>16. faults' \in Nat  BY <1>0, <1>2 DEF RecoveryTypes
<1> QED  BY <1>2, <1>6, <1>9, <1>10, <1>11, <1>12, <1>13, <1>14, <1>15, <1>16, MovesKeep

(* Whoever comes to rest leaves the others what they hold, as long as the   *)
(* letters it does not hold keep their standing.                            *)
LEMMA RestKeeps ==
  ASSUME RecoveryInv, SameMail, NEW w \in Workers, worker[w].st # "idle",
         worker' = [worker EXCEPT ![w] = Resting],
         \A j \in DOMAIN mail : j # worker[w].msg => mail'[j] = mail[j]
  PROVE  /\ worker' \in [Workers -> Standings] /\ HeldIsLeased'
         /\ \A v \in Workers : v # w => worker'[v] = worker[v]
         /\ worker'[w].st = "idle" /\ worker[w].msg \in DOMAIN mail
<1>0. RecoveryTypes /\ HeldIsLeased  BY DEF RecoveryInv
<1>1. Resting \in Standings /\ Resting.st = "idle"  BY DEF Resting, Standings
<1>2. /\ worker' \in [Workers -> Standings] /\ worker'[w] = Resting
      /\ \A v \in Workers \ {w} : worker'[v] = worker[v]
  BY <1>0, <1>1, WorkerSet
<1>3. HeldIsLeased'
  <2> SUFFICES ASSUME NEW v \in Workers, worker'[v].st # "idle"
               PROVE  /\ worker'[v].msg \in DOMAIN mail'
                      /\ mail'[worker'[v].msg].topic = Topic[v]
                      /\ mail'[worker'[v].msg].st = "leased"
    BY DEF HeldIsLeased
  <2>1. v # w /\ worker'[v] = worker[v]  BY <1>1, <1>2
  <2>2. worker[v].msg # worker[w].msg  BY <1>0, <2>1, HeldApart
  <2>3. /\ worker[v].msg \in DOMAIN mail /\ mail[worker[v].msg].topic = Topic[v]
        /\ mail[worker[v].msg].st = "leased"
    BY <2>1, <1>0 DEF HeldIsLeased
  <2>4. mail'[worker[v].msg] = mail[worker[v].msg]  BY <2>2, <2>3
  <2> QED  BY <2>1, <2>3, <2>4 DEF SameMail
<1>4. worker[w].msg \in DOMAIN mail  BY <1>0 DEF HeldIsLeased
<1> QED  BY <1>1, <1>2, <1>3, <1>4

(* The persister's knowledge, when someone comes to rest.                   *)
LEMMA RestPersister ==
  ASSUME RecoveryInv, SameMail, LogKept, unsent' = unsent, NEW w \in Workers,
         \A v \in Workers : v # w => worker'[v] = worker[v], worker'[w].st = "idle"
  PROVE  PersisterKept'
<1>1. CASE w = "persister"  BY <1>1 DEF PersisterKept
<1>2. CASE w # "persister"
  <2>1. worker'["persister"] = worker["persister"]  BY <1>2 DEF Workers
  <2> QED  BY <2>1, PersisterStands
<1> QED  BY <1>1, <1>2

(* A completion that is acknowledged was logged and escalated.              *)
LEMMA AckStep ==
  ASSUME RecoveryInv, NEW w \in Workers, Ack(w)
  PROVE  RecoveryInv'
<1>0. RecoveryTypes /\ HeldIsLeased /\ PersisterKept /\ HandledOnce  BY DEF RecoveryInv
<1>1. PICK i \in DOMAIN mail : /\ i = worker[w].msg /\ mail[i].topic = Topic[w]
                               /\ mail[i].st = "leased"
  BY <1>0 DEF Ack, HeldIsLeased
<1>2. /\ worker[w].st = "returned" /\ mail' = [mail EXCEPT ![i].st = "done"]
      /\ worker' = [worker EXCEPT ![w] = Resting]
      /\ runs' = runs /\ phoenixLog' = phoenixLog /\ unsent' = unsent /\ faults' = faults
  BY <1>1 DEF Ack
<1>3. mail \in Seq(Letters) /\ mail[i] \in Letters  BY <1>0 DEF RecoveryTypes
<1>4. PICK n \in Nat : n = mail[i].tries  BY <1>3 DEF Letters
<1>5. mail' = [mail EXCEPT ![i] = [topic |-> mail[i].topic, req |-> mail[i].req,
                                   key |-> mail[i].key, body |-> mail[i].body,
                                   st |-> "done", tries |-> n]]
  <2>1. [mail[i] EXCEPT !.st = "done"]
          = [topic |-> mail[i].topic, req |-> mail[i].req, key |-> mail[i].key,
             body |-> mail[i].body, st |-> "done", tries |-> n]
    BY <1>3, <1>4 DEF Letters
  <2> QED  BY <1>2, <1>3, <2>1
<1>6. SameMail /\ mail'[i].st = "done" /\ \A j \in DOMAIN mail \ {i} : mail'[j] = mail[j]
  BY <1>0, <1>5, LetterMoved
<1>7. /\ worker' \in [Workers -> Standings] /\ HeldIsLeased'
      /\ \A v \in Workers : v # w => worker'[v] = worker[v]
      /\ worker'[w].st = "idle"
  BY <1>1, <1>2, <1>6, RestKeeps
<1>8. LogKept  BY <1>2, LogStands
<1>9. PersisterKept'  BY <1>2, <1>6, <1>7, <1>8, RestPersister
<1>10. \A j \in DOMAIN mail : mail[j].st = "done" => mail'[j].st = "done"
  <2> TAKE j \in DOMAIN mail
  <2>1. CASE j = i  BY <2>1, <1>6
  <2>2. CASE j # i  BY <2>2, <1>6
  <2> QED  BY <2>1, <2>2
<1>11. \A j \in DOMAIN mail : mail'[j].st = "done" =>
         \/ mail[j].st = "done"
         \/ mail[j].topic = Completed /\ NeedsAttention(mail[j].body) =>
              /\ phoenixLog[mail[j].req].status # "none"
              /\ Escalations(mail[j].req) # {} \/ mail[j].req \in unsent
  <2> TAKE j \in DOMAIN mail
  <2>1. CASE j # i  BY <2>1, <1>6
  <2>2. CASE j = i /\ mail[i].topic # Completed  BY <2>2
  <2>3. CASE j = i /\ mail[i].topic = Completed
    <3>1. w = "persister"  BY <2>3, <1>1 DEF Topic, Workers, Completed, Degraded
    <3>2. /\ phoenixLog[mail[i].req].status # "none"
          /\ NeedsAttention(mail[i].body) => Escalations(mail[i].req) # {} \/ mail[i].req \in unsent
      BY <3>1, <1>0, <1>1, <1>2 DEF PersisterKept
    <3> QED  BY <2>3, <3>2
  <2> QED  BY <2>1, <2>2, <2>3
<1>12. \A r \in Requests : Handled(r) \subseteq Handled(r)'
  <2>1. worker["persister"].st \in {"escalated", "rewriting", "returned"} =>
          \/ /\ worker'["persister"].st \in {"escalated", "rewriting", "returned"}
             /\ worker'["persister"].msg = worker["persister"].msg
          \/ mail'[worker["persister"].msg].st = "done"
    <3>1. CASE w = "persister"  BY <3>1, <1>1, <1>6
    <3>2. CASE w # "persister"
      <4>1. worker'["persister"] = worker["persister"]  BY <3>2, <1>7 DEF Workers
      <4> QED  BY <4>1
    <3> QED  BY <3>1, <3>2
  <2> QED  BY <2>1, <1>6, <1>10, HandledGrows
<1>13. faults' = 0 =>
         \A j \in DOMAIN mail :
           /\ mail'[j].st # "dead"
           /\ mail'[j].st = "leased" => \E v \in Workers : worker'[v].st # "idle" /\ worker'[v].msg = j
  <2> SUFFICES ASSUME faults = 0, NEW j \in DOMAIN mail
               PROVE  /\ mail'[j].st # "dead"
                      /\ mail'[j].st = "leased" =>
                           \E v \in Workers : worker'[v].st # "idle" /\ worker'[v].msg = j
    BY <1>2
  <2>1. CASE j = i  BY <2>1, <1>6
  <2>2. CASE j # i
    <3>1. mail'[j] = mail[j]  BY <2>2, <1>6
    <3>2. /\ mail[j].st # "dead"
          /\ mail[j].st = "leased" => \E v \in Workers : worker[v].st # "idle" /\ worker[v].msg = j
      BY <1>0 DEF HandledOnce
    <3>3. \A v \in Workers : worker[v].msg = j => worker'[v] = worker[v]  BY <1>1, <1>7, <2>2
    <3> QED  BY <3>1, <3>2, <3>3
  <2> QED  BY <2>1, <2>2
<1>14. faults' \in Nat  BY <1>0, <1>2 DEF RecoveryTypes
<1> QED  BY <1>2, <1>6, <1>7, <1>8, <1>9, <1>11, <1>12, <1>13, <1>14, MovesKeep

(* A processor that raises gives its letter back: a fault.                  *)
LEMMA RaiseStep ==
  ASSUME RecoveryInv, NEW w \in Workers, Raise(w)
  PROVE  RecoveryInv'
<1>0. RecoveryTypes /\ HeldIsLeased  BY DEF RecoveryInv
<1>1. PICK i \in DOMAIN mail : /\ i = worker[w].msg /\ mail[i].topic = Topic[w]
                               /\ mail[i].st = "leased"
  BY <1>0 DEF Raise, HeldIsLeased
<1>2. mail \in Seq(Letters) /\ mail[i] \in Letters  BY <1>0 DEF RecoveryTypes
<1>3. PICK n \in Nat : n = mail[i].tries  BY <1>2 DEF Letters
<1>4. PICK s \in {"dead", "pending"} : s = IF n + 1 >= MaxRetries THEN "dead" ELSE "pending"
  OBVIOUS
<1>5. /\ worker[w].st # "idle" /\ Fault /\ worker' = [worker EXCEPT ![w] = Resting]
      /\ mail' = [mail EXCEPT ![i] = [mail[i] EXCEPT !.tries = @ + 1, !.st = s]]
      /\ runs' = runs /\ phoenixLog' = phoenixLog /\ unsent' = unsent
  BY <1>1, <1>3, <1>4 DEF Raise, Held
<1>6. mail' = [mail EXCEPT ![i] = [topic |-> mail[i].topic, req |-> mail[i].req,
                                   key |-> mail[i].key, body |-> mail[i].body,
                                   st |-> s, tries |-> n + 1]]
  <2>1. PICK k : k = [mail[i] EXCEPT !.tries = n + 1]  OBVIOUS
  <2>2. k = [topic |-> mail[i].topic, req |-> mail[i].req, key |-> mail[i].key,
             body |-> mail[i].body, st |-> mail[i].st, tries |-> n + 1]
    BY <1>2, <2>1 DEF Letters
  <2>3. [k EXCEPT !.st = s]
          = [topic |-> mail[i].topic, req |-> mail[i].req, key |-> mail[i].key,
             body |-> mail[i].body, st |-> s, tries |-> n + 1]
    BY <2>2
  <2>4. [mail[i] EXCEPT !.tries = @ + 1, !.st = s] = [k EXCEPT !.st = s]  BY <1>3, <2>1
  <2>5. mail' = [mail EXCEPT ![i] = [mail[i] EXCEPT !.tries = @ + 1, !.st = s]]  BY <1>5
  <2> QED  BY <2>3, <2>4, <2>5
<1>7. SameMail /\ mail'[i].st = s /\ \A j \in DOMAIN mail \ {i} : mail'[j] = mail[j]
  <2>1. n + 1 \in Nat  OBVIOUS
  <2> QED  BY <1>0, <1>4, <1>6, <2>1, LetterMoved
<1>8. /\ worker' \in [Workers -> Standings] /\ HeldIsLeased'
      /\ \A v \in Workers : v # w => worker'[v] = worker[v]
      /\ worker'[w].st = "idle"
  BY <1>1, <1>5, <1>7, RestKeeps
<1>9. LogKept  BY <1>5, LogStands
<1>10. PersisterKept'  BY <1>5, <1>7, <1>8, <1>9, RestPersister
<1>11. \A j \in DOMAIN mail : mail'[j].st = "done" => mail[j].st = "done"
  <2> TAKE j \in DOMAIN mail
  <2>1. CASE j = i  BY <2>1, <1>4, <1>7
  <2>2. CASE j # i  BY <2>2, <1>7
  <2> QED  BY <2>1, <2>2
<1>12. faults' \in Nat /\ faults' # 0
  <2>1. faults \in Nat  BY <1>0 DEF RecoveryTypes
  <2> QED  BY <2>1, <1>5 DEF Fault
<1> QED  BY <1>5, <1>7, <1>8, <1>9, <1>10, <1>11, <1>12, MovesKeep

(* A consumer that dies leaves its letter leased: a fault.                  *)
LEMMA CrashStep ==
  ASSUME RecoveryInv, NEW w \in Workers, Crash(w)
  PROVE  RecoveryInv'
<1>0. RecoveryTypes  BY DEF RecoveryInv
<1>1. /\ worker[w].st # "idle" /\ Fault /\ worker' = [worker EXCEPT ![w] = Resting]
      /\ runs' = runs /\ mail' = mail /\ phoenixLog' = phoenixLog /\ unsent' = unsent
  BY DEF Crash
<1>2. SameMail  BY <1>0, <1>1, MailStands
<1>3. /\ worker' \in [Workers -> Standings] /\ HeldIsLeased'
      /\ \A v \in Workers : v # w => worker'[v] = worker[v]
      /\ worker'[w].st = "idle"
  BY <1>1, <1>2, RestKeeps
<1>4. LogKept  BY <1>1, LogStands
<1>5. PersisterKept'  BY <1>1, <1>2, <1>3, <1>4, RestPersister
<1>6. faults' \in Nat /\ faults' # 0
  <2>1. faults \in Nat  BY <1>0 DEF RecoveryTypes
  <2> QED  BY <2>1, <1>1 DEF Fault
<1> QED  BY <1>1, <1>2, <1>3, <1>4, <1>5, <1>6, MovesKeep

(* Letters that nobody holds, or that are dead, may be given up: without a  *)
(* fault there are none.                                                    *)
LEMMA GivenUpKeeps ==
  ASSUME RecoveryInv, NEW ms, mail' = GivenUp(ms),
         \A i \in ms : i \in DOMAIN mail /\ (Abandoned(i) \/ mail[i].st = "dead"),
         runs' = runs, phoenixLog' = phoenixLog, unsent' = unsent, faults' = faults,
         NEW w \in Workers, worker' \in [Workers -> Standings],
         \A v \in Workers : v # w => worker'[v] = worker[v],
         worker'["persister"] = worker["persister"],
         worker'[w].st # "idle" => worker[w].st # "idle" /\ worker'[w].msg = worker[w].msg,
         worker[w].st # "idle" => worker'[w].st # "idle"
  PROVE  RecoveryInv'
<1>0. RecoveryTypes /\ HeldIsLeased /\ HandledOnce  BY DEF RecoveryInv
<1>1. /\ SameMail
      /\ \A i \in DOMAIN mail : IF i \in ms THEN mail'[i].st = "pending" ELSE mail'[i] = mail[i]
  BY <1>0, LettersGivenUp
<1>2. \A v \in Workers : worker'[v].st # "idle" =>
        worker[v].st # "idle" /\ worker'[v].msg = worker[v].msg
  OBVIOUS
<1>3. HeldIsLeased'
  <2> SUFFICES ASSUME NEW v \in Workers, worker'[v].st # "idle"
               PROVE  /\ worker'[v].msg \in DOMAIN mail'
                      /\ mail'[worker'[v].msg].topic = Topic[v]
                      /\ mail'[worker'[v].msg].st = "leased"
    BY DEF HeldIsLeased
  <2>1. worker'[v].msg = worker[v].msg  BY <1>2
  <2>2. /\ worker[v].msg \in DOMAIN mail /\ mail[worker[v].msg].topic = Topic[v]
        /\ mail[worker[v].msg].st = "leased"
    BY <1>0, <1>2 DEF HeldIsLeased
  <2>3. worker[v].msg \notin ms  BY <2>2 DEF Abandoned
  <2>4. mail'[worker[v].msg] = mail[worker[v].msg]  BY <1>1, <2>2, <2>3
  <2> QED  BY <2>1, <2>2, <2>4, <1>1 DEF SameMail
<1>4. LogKept  BY LogStands
<1>5. PersisterKept'  BY <1>1, <1>4, PersisterStands
<1>6. \A i \in DOMAIN mail : mail'[i].st = "done" <=> mail[i].st = "done"
  <2> TAKE i \in DOMAIN mail
  <2>1. CASE i \in ms  BY <2>1, <1>1 DEF Abandoned
  <2>2. CASE i \notin ms  BY <2>2, <1>1
  <2> QED  BY <2>1, <2>2
<1>7. \A r \in Requests : Handled(r) \subseteq Handled(r)'  BY <1>1, <1>6, HandledGrows
<1>8. faults' = 0 =>
        \A i \in DOMAIN mail :
          /\ mail'[i].st # "dead"
          /\ mail'[i].st = "leased" => \E v \in Workers : worker'[v].st # "idle" /\ worker'[v].msg = i
  <2> SUFFICES ASSUME faults = 0, NEW i \in DOMAIN mail
               PROVE  /\ mail'[i].st # "dead"
                      /\ mail'[i].st = "leased" =>
                           \E v \in Workers : worker'[v].st # "idle" /\ worker'[v].msg = i
    OBVIOUS
  <2>1. /\ mail[i].st # "dead"
        /\ mail[i].st = "leased" => \E v \in Workers : worker[v].st # "idle" /\ worker[v].msg = i
    BY <1>0 DEF HandledOnce
  <2>2. mail'[i] = mail[i]  BY <1>1, <2>1 DEF Abandoned
  <2>3. \A v \in Workers : worker[v].st # "idle" => worker'[v].st # "idle" /\ worker'[v].msg = worker[v].msg
    OBVIOUS
  <2> QED  BY <2>1, <2>2, <2>3
<1>9. faults' \in Nat  BY <1>0 DEF RecoveryTypes
<1> QED  BY <1>1, <1>3, <1>4, <1>5, <1>6, <1>7, <1>8, <1>9, MovesKeep

(* A lease is given up only when its holder is gone.                        *)
LEMMA LeaseGivenUpStep ==
  ASSUME RecoveryInv, LeaseGivenUp
  PROVE  RecoveryInv'
<1>1. PICK i \in DOMAIN mail : Abandoned(i) /\ mail' = GivenUp({i})  BY DEF LeaseGivenUp
<1>2. /\ runs' = runs /\ worker' = worker /\ phoenixLog' = phoenixLog /\ unsent' = unsent
      /\ faults' = faults
  BY DEF LeaseGivenUp
<1>3. \A j \in {i} : j \in DOMAIN mail /\ (Abandoned(j) \/ mail[j].st = "dead")  BY <1>1
<1>4. worker' \in [Workers -> Standings]  BY <1>2 DEF RecoveryInv, RecoveryTypes
<1>5. "defib" \in Workers  BY DEF Workers
<1> QED  BY <1>1, <1>2, <1>3, <1>4, <1>5, GivenUpKeeps

(* The defibrillator goes on with the letter it holds.                      *)
LEMMA DefibGoes ==
  ASSUME RecoveryInv, NEW s \in {"dispatched", "returned"}, worker["defib"].st # "idle",
         worker' = [worker EXCEPT !["defib"].st = s]
  PROVE  /\ worker' \in [Workers -> Standings]
         /\ \A v \in Workers : v # "defib" => worker'[v] = worker[v]
         /\ worker'["persister"] = worker["persister"] /\ "defib" \in Workers
         /\ worker'["defib"].st # "idle" /\ worker'["defib"].msg = worker["defib"].msg
<1>0. RecoveryTypes  BY DEF RecoveryInv
<1>1. "defib" \in Workers /\ "persister" \in Workers  BY DEF Workers
<1>2. worker["defib"] \in Standings  BY <1>0, <1>1 DEF RecoveryTypes
<1>3. PICK c : c = [st |-> s, msg |-> worker["defib"].msg, esc |-> worker["defib"].esc]
  OBVIOUS
<1>4. c \in Standings /\ c.st = s /\ c.msg = worker["defib"].msg  BY <1>2, <1>3 DEF Standings
<1>5. worker' = [worker EXCEPT !["defib"] = c]
  <2>1. [worker["defib"] EXCEPT !.st = s] = c  BY <1>2, <1>3 DEF Standings
  <2> QED  BY <2>1, <1>0 DEF RecoveryTypes
<1>6. /\ worker' \in [Workers -> Standings] /\ worker'["defib"] = c
      /\ \A v \in Workers \ {"defib"} : worker'[v] = worker[v]
  BY <1>0, <1>1, <1>4, <1>5, WorkerSet
<1> QED  BY <1>1, <1>4, <1>6

(* The defibrillator puts back what nobody holds, and names the rest.       *)
LEMMA DispatchStep ==
  ASSUME RecoveryInv, Dispatch
  PROVE  RecoveryInv'
<1>0. RecoveryTypes  BY DEF RecoveryInv
<1>1. /\ worker["defib"].st = "got" /\ worker' = [worker EXCEPT !["defib"].st = "dispatched"]
      /\ runs' = runs /\ phoenixLog' = phoenixLog /\ unsent' = unsent /\ faults' = faults
  BY DEF Dispatch
<1>2. PICK ms : /\ \A i \in ms : i \in DOMAIN mail /\ (Abandoned(i) \/ mail[i].st = "dead")
                /\ mail' = GivenUp(ms)
  <2>1. PICK cs, s : mail' = GivenUp(Touched(cs, s)) \/ mail' = mail
    BY DEF Dispatch
  <2>2. \A i \in Touched(cs, s) : i \in DOMAIN mail /\ (Abandoned(i) \/ mail[i].st = "dead")
    BY DEF Touched
  <2>3. GivenUp({}) = mail
    <3>1. mail = [i \in DOMAIN mail |-> mail[i]]  BY <1>0 DEF RecoveryTypes
    <3> QED  BY <3>1 DEF GivenUp
  <2> QED  BY <2>1, <2>2, <2>3
<1>3. /\ worker' \in [Workers -> Standings] /\ "defib" \in Workers
      /\ \A v \in Workers : v # "defib" => worker'[v] = worker[v]
      /\ worker'["persister"] = worker["persister"]
      /\ worker'["defib"].st # "idle" /\ worker'["defib"].msg = worker["defib"].msg
  BY <1>1, DefibGoes
<1> QED  BY <1>1, <1>2, <1>3, GivenUpKeeps

(* Its report touches no letter.                                            *)
LEMMA ReportStep ==
  ASSUME RecoveryInv, Report
  PROVE  RecoveryInv'
<1>0. RecoveryTypes  BY DEF RecoveryInv
<1>1. /\ worker["defib"].st = "dispatched" /\ worker' = [worker EXCEPT !["defib"].st = "returned"]
      /\ runs' = runs /\ mail' = mail /\ phoenixLog' = phoenixLog /\ unsent' = unsent
      /\ faults' = faults
  BY DEF Report
<1>2. mail' = GivenUp({})
  <2>1. mail = [i \in DOMAIN mail |-> mail[i]]  BY <1>0 DEF RecoveryTypes
  <2> QED  BY <2>1, <1>1 DEF GivenUp
<1>3. /\ worker' \in [Workers -> Standings] /\ "defib" \in Workers
      /\ \A v \in Workers : v # "defib" => worker'[v] = worker[v]
      /\ worker'["persister"] = worker["persister"]
      /\ worker'["defib"].st # "idle" /\ worker'["defib"].msg = worker["defib"].msg
  BY <1>1, DefibGoes
<1>4. \A i \in {} : i \in DOMAIN mail /\ (Abandoned(i) \/ mail[i].st = "dead")  OBVIOUS
<1> QED  BY <1>1, <1>2, <1>3, <1>4, GivenUpKeeps

-----------------------------------------------------------------------------
(* The persister.                                                           *)

(* The persister goes on with the completion it holds.                      *)
LEMMA PersisterGoes ==
  ASSUME RecoveryInv, mail' = mail, runs' = runs, LogKept, unsent \subseteq unsent',
         worker["persister"].st \in {"got", "writing", "logged", "escalated", "rewriting"},
         NEW c \in Standings, c.st \in {"writing", "logged", "rewriting", "returned"},
         c.msg = worker["persister"].msg,
         worker' = [worker EXCEPT !["persister"] = c],
         worker["persister"].st \in {"escalated", "rewriting"} => c.st \in {"rewriting", "returned"},
         PersisterKept', faults' \in Nat, faults' = 0 => faults = 0
  PROVE  RecoveryInv'
<1>0. RecoveryTypes /\ HeldIsLeased /\ HandledOnce  BY DEF RecoveryInv
<1>1. SameMail  BY <1>0, MailStands
<1>2. /\ worker' \in [Workers -> Standings] /\ worker'["persister"] = c
      /\ \A v \in Workers \ {"persister"} : worker'[v] = worker[v]
  BY <1>0, WorkerSet DEF Workers
<1>3. \A v \in Workers : /\ worker'[v].st # "idle" <=> worker[v].st # "idle"
                         /\ worker'[v].msg = worker[v].msg
  <2> TAKE v \in Workers
  <2>1. CASE v = "persister"  BY <2>1, <1>2
  <2>2. CASE v # "persister"
    <3>1. worker'[v] = worker[v]  BY <2>2, <1>2
    <3> QED  BY <3>1
  <2> QED  BY <2>1, <2>2
<1>4. HeldIsLeased'  BY <1>0, <1>3 DEF HeldIsLeased
<1>5. \A r \in Requests : Handled(r) \subseteq Handled(r)'
  <2>1. worker["persister"].st \in {"escalated", "rewriting", "returned"} =>
          /\ worker'["persister"].st \in {"escalated", "rewriting", "returned"}
          /\ worker'["persister"].msg = worker["persister"].msg
    BY <1>2
  <2>2. \A i \in DOMAIN mail : mail[i].st = "done" => mail'[i].st = "done"  OBVIOUS
  <2> QED  BY <2>1, <2>2, <1>1, HandledGrows
<1>6. faults' = 0 =>
        \A i \in DOMAIN mail :
          /\ mail'[i].st # "dead"
          /\ mail'[i].st = "leased" => \E v \in Workers : worker'[v].st # "idle" /\ worker'[v].msg = i
  BY <1>0, <1>3 DEF HandledOnce
<1>7. \A i \in DOMAIN mail : mail'[i].st = "done" => mail[i].st = "done"  OBVIOUS
<1> QED  BY <1>1, <1>2, <1>4, <1>5, <1>6, <1>7, MovesKeep

(* What the persister holds is the report of a request.                     *)
LEMMA PersisterHolds ==
  ASSUME RecoveryInv, worker["persister"].st # "idle"
  PROVE  /\ "persister" \in Workers /\ worker["persister"] \in Standings
         /\ worker["persister"].msg \in DOMAIN mail
         /\ mail[worker["persister"].msg] \in Letters
         /\ mail[worker["persister"].msg].topic = Completed
         /\ mail[worker["persister"].msg].st = "leased"
         /\ mail[worker["persister"].msg].req \in Requests
         /\ mail[worker["persister"].msg].body \in Reports
<1>1. "persister" \in Workers /\ Topic["persister"] = Completed  BY DEF Workers, Topic
<1>2. /\ worker["persister"].msg \in DOMAIN mail
      /\ mail[worker["persister"].msg].topic = Completed
      /\ mail[worker["persister"].msg].st = "leased"
  BY <1>1 DEF RecoveryInv, HeldIsLeased
<1>3. mail[worker["persister"].msg] \in Letters  BY <1>2 DEF RecoveryInv, RecoveryTypes
<1> QED  BY <1>1, <1>2, <1>3 DEF RecoveryInv, RecoveryTypes

(* The persister's record, when only its standing changes.                  *)
LEMMA PersisterSet ==
  ASSUME RecoveryInv, worker["persister"].st # "idle",
         NEW s \in {"writing", "logged", "rewriting", "returned"},
         worker' = [worker EXCEPT !["persister"].st = s]
  PROVE  \E c \in Standings :
           /\ c.st = s /\ c.msg = worker["persister"].msg /\ c.esc = worker["persister"].esc
           /\ worker' = [worker EXCEPT !["persister"] = c] /\ worker'["persister"] = c
<1>0. RecoveryTypes  BY DEF RecoveryInv
<1>1. worker["persister"] \in Standings /\ "persister" \in Workers  BY PersisterHolds
<1>2. PICK c : c = [st |-> s, msg |-> worker["persister"].msg, esc |-> worker["persister"].esc]
  OBVIOUS
<1>3. /\ c \in Standings /\ c.st = s /\ c.msg = worker["persister"].msg
      /\ c.esc = worker["persister"].esc
  BY <1>1, <1>2 DEF Standings
<1>4. worker' = [worker EXCEPT !["persister"] = c]
  <2>1. [worker["persister"] EXCEPT !.st = s] = c  BY <1>1, <1>2 DEF Standings
  <2> QED  BY <2>1, <1>0 DEF RecoveryTypes
<1>5. worker'["persister"] = c  BY <1>0, <1>1, <1>3, <1>4, WorkerSet
<1> QED  BY <1>3, <1>4, <1>5

(* A log that is written names no escalation, or one of its request.        *)
LEMMA LogWritten ==
  ASSUME RecoveryInv, NEW r \in Requests, NEW g \in Logs, g.status # "none",
         g.esc = NoOne \/ g.esc \in Escalations(r), phoenixLog' = [phoenixLog EXCEPT ![r] = g]
  PROVE  /\ LogKept /\ phoenixLog'[r] = g
         /\ \A q \in Requests \ {r} : phoenixLog'[q] = phoenixLog[q]
<1>1. /\ phoenixLog' \in [Requests -> Logs] /\ phoenixLog'[r] = g
      /\ \A q \in Requests \ {r} : phoenixLog'[q] = phoenixLog[q]
  BY DEF RecoveryInv, RecoveryTypes
<1>2. ASSUME NEW q \in Requests
      PROVE  /\ phoenixLog[q].status # "none" => phoenixLog'[q].status # "none"
             /\ phoenixLog'[q].esc = NoOne \/ phoenixLog'[q].esc \in Escalations(q)
  <2>1. CASE q = r  BY <2>1, <1>1
  <2>2. CASE q # r
    <3>1. phoenixLog'[q] = phoenixLog[q]  BY <2>2, <1>1
    <3> QED  BY <3>1 DEF RecoveryInv, LoggedEscalationExists
  <2> QED  BY <2>1, <2>2
<1> QED  BY <1>1, <1>2 DEF LogKept

(* The torn log, and the one that tells what a completion tells.            *)
LEMMA LogIsLog ==
  ASSUME RecoveryAssumption, NEW m, m.body \in Reports, NEW e \in Nat \cup {NoOne}
  PROVE  /\ Torn \in Logs /\ Torn.status = "torn" /\ Torn.esc = NoOne
         /\ LogOf(m, e) \in Logs /\ LogOf(m, e).status = m.body.status
         /\ LogOf(m, e).status \in {"ok", "degraded"} /\ LogOf(m, e).esc = e
<1>1. Torn = [status |-> "torn", bad |-> {}, attention |-> FALSE, esc |-> NoOne]
  BY DEF Torn
<1>2. NeedsAttention(m.body) \in BOOLEAN  BY DEF NeedsAttention
<1>3. m.body.status \in {"ok", "degraded"} /\ m.body.bad \in SUBSET Nat  BY DEF Reports
<1> QED  BY <1>1, <1>2, <1>3 DEF Logs, LogOf

(* A log that is opened is torn, and its completion goes on.                *)
LEMMA OpenLogStep ==
  ASSUME RecoveryInv, OpenLog
  PROVE  RecoveryInv'
<1>0. RecoveryTypes  BY DEF RecoveryInv
<1>1. /\ worker["persister"].st = "got" /\ runs' = runs /\ mail' = mail /\ unsent' = unsent
      /\ faults' = faults /\ worker' = [worker EXCEPT !["persister"].st = "writing"]
  BY DEF OpenLog
<1>2. PICK i \in DOMAIN mail : i = worker["persister"].msg  BY <1>1, PersisterHolds
<1>3. PICK r \in Requests : r = mail[i].req /\ mail[i].body \in Reports
  BY <1>1, <1>2, PersisterHolds
<1>4. Torn \in Logs /\ Torn.status = "torn" /\ Torn.esc = NoOne
  BY <1>3, LogIsLog, RecoveryAssumption
<1>5. phoenixLog' = [phoenixLog EXCEPT ![r] = Torn]  BY <1>2, <1>3 DEF OpenLog, Held
<1>6. LogKept  BY <1>4, <1>5, LogWritten
<1>7. PICK c \in Standings :
        /\ c.st = "writing" /\ c.msg = worker["persister"].msg
        /\ worker' = [worker EXCEPT !["persister"] = c] /\ worker'["persister"] = c
  BY <1>1, PersisterSet
<1>8. PersisterKept'  BY <1>7 DEF PersisterKept
<1>9. faults' \in Nat  BY <1>0, <1>1 DEF RecoveryTypes
<1> QED  BY <1>1, <1>6, <1>7, <1>8, <1>9, PersisterGoes

(* A written log has a status, and a report without problems is handled.    *)
LEMMA WriteLogStep ==
  ASSUME RecoveryInv, WriteLog
  PROVE  RecoveryInv'
<1>0. RecoveryTypes  BY DEF RecoveryInv
<1>1. worker["persister"].st = "writing"  BY DEF WriteLog
<1>2. PICK i \in DOMAIN mail : i = worker["persister"].msg  BY <1>1, PersisterHolds
<1>3. PICK r \in Requests, body \in Reports : r = mail[i].req /\ body = mail[i].body
  BY <1>1, <1>2, PersisterHolds
<1>4. PICK g \in Logs : /\ g = LogOf(mail[i], NoOne) /\ g.status \in {"ok", "degraded"}
                        /\ g.esc = NoOne
  BY <1>3, LogIsLog, RecoveryAssumption
<1>5. PICK s \in {"logged", "returned"} : s = IF NeedsAttention(body) THEN "logged" ELSE "returned"
  OBVIOUS
<1>6. /\ phoenixLog' = [phoenixLog EXCEPT ![r] = g]
      /\ worker' = [worker EXCEPT !["persister"].st = s]
      /\ runs' = runs /\ mail' = mail /\ unsent' = unsent /\ faults' = faults
  BY <1>2, <1>3, <1>4, <1>5 DEF WriteLog, Held
<1>7. LogKept /\ phoenixLog'[r] = g  BY <1>4, <1>6, LogWritten
<1>8. PICK c \in Standings :
        /\ c.st = s /\ c.msg = i
        /\ worker' = [worker EXCEPT !["persister"] = c] /\ worker'["persister"] = c
  BY <1>1, <1>2, <1>6, PersisterSet
<1>9. PersisterKept'
  <2>1. mail'[worker'["persister"].msg].req = r /\ mail'[worker'["persister"].msg].body = body
    BY <1>3, <1>6, <1>8
  <2>2. phoenixLog'[r].status # "none"  BY <1>4, <1>7
  <2>3. s = "returned" => body.status = "ok"  BY <1>5 DEF NeedsAttention
  <2> QED  BY <1>5, <1>8, <2>1, <2>2, <2>3 DEF PersisterKept, NeedsAttention
<1>10. faults' \in Nat  BY <1>0, <1>6 DEF RecoveryTypes
<1> QED  BY <1>1, <1>2, <1>5, <1>6, <1>7, <1>8, <1>9, <1>10, PersisterGoes

(* The log is opened once more, or it cannot be and stays.                  *)
LEMMA ReopenLogStep ==
  ASSUME RecoveryInv, ReopenLog
  PROVE  RecoveryInv'
<1>0. RecoveryTypes /\ PersisterKept  BY DEF RecoveryInv
<1>1. worker["persister"].st = "escalated" /\ runs' = runs /\ mail' = mail /\ unsent' = unsent
  BY DEF ReopenLog
<1>2. PICK i \in DOMAIN mail : i = worker["persister"].msg  BY <1>1, PersisterHolds
<1>3. PICK r \in Requests : r = mail[i].req /\ mail[i].body \in Reports
  BY <1>1, <1>2, PersisterHolds
<1>4. /\ phoenixLog[r].status # "none" /\ worker["persister"].esc \in Escalations(r)
  BY <1>0, <1>1, <1>2, <1>3 DEF PersisterKept
<1>5. \/ /\ phoenixLog' = [phoenixLog EXCEPT ![r] = Torn] /\ faults' = faults
         /\ worker' = [worker EXCEPT !["persister"].st = "rewriting"]
      \/ /\ phoenixLog' = phoenixLog /\ Fault
         /\ worker' = [worker EXCEPT !["persister"].st = "returned"]
  BY <1>2, <1>3 DEF ReopenLog, Held
<1>6. PICK s \in {"rewriting", "returned"} : worker' = [worker EXCEPT !["persister"].st = s]
  BY <1>5
<1>7. PICK c \in Standings :
        /\ c.st = s /\ c.msg = i /\ c.esc = worker["persister"].esc
        /\ worker' = [worker EXCEPT !["persister"] = c] /\ worker'["persister"] = c
  BY <1>1, <1>2, <1>6, PersisterSet
<1>8. LogKept
  <2>1. CASE phoenixLog' = phoenixLog  BY <2>1, LogStands
  <2>2. CASE phoenixLog' = [phoenixLog EXCEPT ![r] = Torn]
    <3>1. Torn \in Logs /\ Torn.status = "torn" /\ Torn.esc = NoOne
      BY <1>3, LogIsLog, RecoveryAssumption
    <3> QED  BY <2>2, <3>1, LogWritten
  <2> QED  BY <1>5, <2>1, <2>2
<1>9. PersisterKept'
  <2>1. mail'[worker'["persister"].msg].req = r  BY <1>1, <1>3, <1>7
  <2>2. phoenixLog'[r].status # "none"  BY <1>4, <1>8 DEF LogKept
  <2>3. /\ worker'["persister"].esc \in Escalations(r)' /\ worker'["persister"].st = s
    BY <1>1, <1>4, <1>7 DEF Escalations
  <2> QED  BY <2>1, <2>2, <2>3 DEF PersisterKept, Escalations
<1>10. faults' \in Nat /\ (faults' = 0 => faults = 0)
  <2>1. faults \in Nat  BY <1>0 DEF RecoveryTypes
  <2> QED  BY <2>1, <1>5 DEF Fault
<1> QED  BY <1>1, <1>2, <1>7, <1>8, <1>9, <1>10, PersisterGoes

(* The log names the escalation that was sent for its request, or is cut    *)
(* off.                                                                     *)
LEMMA RewriteLogStep ==
  ASSUME RecoveryInv, RewriteLog
  PROVE  RecoveryInv'
<1>0. RecoveryTypes /\ PersisterKept  BY DEF RecoveryInv
<1>1. /\ worker["persister"].st = "rewriting" /\ runs' = runs /\ mail' = mail /\ unsent' = unsent
      /\ worker' = [worker EXCEPT !["persister"].st = "returned"]
  BY DEF RewriteLog
<1>2. PICK i \in DOMAIN mail : i = worker["persister"].msg  BY <1>1, PersisterHolds
<1>3. PICK r \in Requests : r = mail[i].req /\ mail[i].body \in Reports
  BY <1>1, <1>2, PersisterHolds
<1>4. PICK e \in Nat : e = worker["persister"].esc /\ e \in Escalations(r)
  <2>1. worker["persister"].esc \in Escalations(r)
    BY <1>0, <1>1, <1>2, <1>3 DEF PersisterKept
  <2>2. Escalations(r) \subseteq Nat  BY <1>0 DEF RecoveryTypes, Escalations
  <2> QED  BY <2>1, <2>2
<1>5. phoenixLog[r].status # "none"  BY <1>0, <1>1, <1>2, <1>3 DEF PersisterKept
<1>6. PICK g \in Logs : g = LogOf(mail[i], e) /\ g.status \in {"ok", "degraded"} /\ g.esc = e
  BY <1>3, LogIsLog, RecoveryAssumption
<1>7. \/ phoenixLog' = [phoenixLog EXCEPT ![r] = g] /\ faults' = faults
      \/ phoenixLog' = phoenixLog /\ Fault
  BY <1>2, <1>3, <1>4, <1>6 DEF RewriteLog, Held
<1>8. PICK c \in Standings :
        /\ c.st = "returned" /\ c.msg = i
        /\ worker' = [worker EXCEPT !["persister"] = c] /\ worker'["persister"] = c
  BY <1>1, <1>2, PersisterSet
<1>9. LogKept
  <2>1. CASE phoenixLog' = phoenixLog  BY <2>1, LogStands
  <2>2. CASE phoenixLog' = [phoenixLog EXCEPT ![r] = g]  BY <2>2, <1>4, <1>6, LogWritten
  <2> QED  BY <1>7, <2>1, <2>2
<1>10. PersisterKept'
  <2>1. mail'[worker'["persister"].msg].req = r  BY <1>1, <1>3, <1>8
  <2>2. phoenixLog'[r].status # "none"  BY <1>5, <1>9 DEF LogKept
  <2>3. Escalations(r)' # {}  BY <1>1, <1>4 DEF Escalations
  <2> QED  BY <1>8, <2>1, <2>2, <2>3 DEF PersisterKept, Escalations
<1>11. faults' \in Nat /\ (faults' = 0 => faults = 0)
  <2>1. faults \in Nat  BY <1>0 DEF RecoveryTypes
  <2> QED  BY <2>1, <1>7 DEF Fault
<1> QED  BY <1>1, <1>2, <1>8, <1>9, <1>10, <1>11, PersisterGoes

(* An escalation is one letter more, and its completion is handled by it;   *)
(* one that could not be sent is remembered.                                *)
LEMMA EscalateStep ==
  ASSUME RecoveryInv, Escalate
  PROVE  RecoveryInv'
<1>0. /\ RecoveryTypes /\ HeldIsLeased /\ PersisterKept /\ OneCompletionPerRun /\ HandledOnce
      /\ DegradedIsEscalated /\ LoggedEscalationExists
  BY DEF RecoveryInv
<1>1. worker["persister"].st = "logged" /\ runs' = runs /\ phoenixLog' = phoenixLog
  BY DEF Escalate
<1>2. PICK i \in DOMAIN mail : i = worker["persister"].msg  BY <1>1, PersisterHolds
<1>3. PICK r \in Requests : r = mail[i].req  BY <1>1, <1>2, PersisterHolds
<1>4. worker["persister"] \in Standings /\ "persister" \in Workers  BY <1>1, PersisterHolds
<1>5. PICK body : body = [from |-> "persister", cmd |-> "PHOENIX_DEGRADED", problem |-> TRUE,
                          summary |-> NoSummary]
  OBVIOUS
<1>6. PICK e : e = Message(Degraded, r, NoOne, body)  OBVIOUS
<1>7. phoenixLog[r].status # "none"  BY <1>0, <1>1, <1>2, <1>3 DEF PersisterKept
<1>8. LogKept  BY <1>1, LogStands
<1>9. \/ /\ mail' = Enqueued(e) /\ unsent' = unsent /\ faults' = faults
         /\ worker' = [worker EXCEPT !["persister"].st = "escalated",
                                     !["persister"].esc = Len(mail) + 1]
      \/ /\ Fault /\ unsent' = unsent \cup {r} /\ mail' = mail
         /\ worker' = [worker EXCEPT !["persister"].st = "returned"]
  BY <1>2, <1>3, <1>5, <1>6 DEF Escalate, Held
<1>10. CASE /\ Fault /\ unsent' = unsent \cup {r} /\ mail' = mail
            /\ worker' = [worker EXCEPT !["persister"].st = "returned"]
  <2>1. PICK c : c = [st |-> "returned", msg |-> i, esc |-> worker["persister"].esc]  OBVIOUS
  <2>2. c \in Standings /\ c.st = "returned" /\ c.msg = i
    BY <1>2, <1>4, <2>1 DEF Standings
  <2>3. worker' = [worker EXCEPT !["persister"] = c]
    <3>1. [worker["persister"] EXCEPT !.st = "returned"] = c  BY <1>2, <1>4, <2>1 DEF Standings
    <3> QED  BY <3>1, <1>0, <1>10 DEF RecoveryTypes
  <2>4. worker'["persister"] = c  BY <1>0, <1>4, <2>2, <2>3, WorkerSet
  <2>5. PersisterKept'
    <3>1. mail'[worker'["persister"].msg].req = r  BY <1>3, <1>10, <2>2, <2>4
    <3>2. worker'["persister"].st = "returned" /\ r \in unsent'  BY <1>10, <2>2, <2>4
    <3> QED  BY <3>1, <3>2, <1>1, <1>7 DEF PersisterKept
  <2>6. faults' \in Nat /\ faults' # 0
    <3>1. faults \in Nat  BY <1>0 DEF RecoveryTypes
    <3> QED  BY <3>1, <1>10 DEF Fault
  <2> QED  BY <1>1, <1>2, <1>8, <1>10, <2>2, <2>3, <2>5, <2>6, PersisterGoes
<1>11. CASE /\ mail' = Enqueued(e) /\ unsent' = unsent /\ faults' = faults
            /\ worker' = [worker EXCEPT !["persister"].st = "escalated",
                                        !["persister"].esc = Len(mail) + 1]
  <2>1. /\ e \in Letters /\ e.topic = Degraded /\ e.req = r /\ e.st = "pending" /\ e.key = NoOne
        /\ e.body.from = "persister"
    <3>1. body \in Bodies  BY <1>5 DEF Bodies
    <3>2. e = [topic |-> Degraded, req |-> r, key |-> NoOne, body |-> body, st |-> "pending",
               tries |-> 0]
      BY <1>6 DEF Message
    <3>3. e.topic = Degraded /\ e.req = r /\ e.st = "pending" /\ e.key = NoOne
          /\ e.body.from = "persister"
      BY <1>5, <3>2
    <3> QED  BY <3>1, <3>2, <3>3 DEF Letters
  <2>2. mail' = Append(mail, e)  BY <1>11, <2>1 DEF Enqueued
  <2>3. /\ MailKept /\ Len(mail) + 1 \notin DOMAIN mail
        /\ DOMAIN mail' = DOMAIN mail \cup {Len(mail) + 1}
        /\ mail'[Len(mail) + 1] = e
        /\ \A j \in DOMAIN mail : mail'[j] = mail[j]
    BY <1>0, <2>1, <2>2, MailAppended
  <2>4. PICK n \in Nat : n = Len(mail) + 1
    <3>1. Len(mail) \in Nat  BY <1>0 DEF RecoveryTypes
    <3> QED  BY <3>1
  <2>5. PICK c : c = [st |-> "escalated", msg |-> i, esc |-> n]  OBVIOUS
  <2>6. c \in Standings /\ c.st = "escalated" /\ c.msg = i /\ c.esc = n
    BY <1>2, <1>4, <2>5 DEF Standings
  <2>7. worker' = [worker EXCEPT !["persister"] = c]
    <3>1. PICK k : k = [worker["persister"] EXCEPT !.st = "escalated"]  OBVIOUS
    <3>2. k = [st |-> "escalated", msg |-> i, esc |-> worker["persister"].esc]
      BY <1>2, <1>4, <3>1 DEF Standings
    <3>3. [k EXCEPT !.esc = n] = c  BY <2>5, <3>2
    <3> QED  BY <3>1, <3>3, <1>0, <1>4, <1>11, <2>4 DEF RecoveryTypes
  <2>8. /\ worker' \in [Workers -> Standings] /\ worker'["persister"] = c
        /\ \A v \in Workers \ {"persister"} : worker'[v] = worker[v]
    BY <1>0, <1>4, <2>6, <2>7, WorkerSet
  <2>9. /\ Escalations(r)' = Escalations(r) \cup {n} /\ n \notin Escalations(r)
        /\ \A q : q # r => Escalations(q)' = Escalations(q)
        /\ \A q : Escalations(q) \subseteq Escalations(q)'
    <3>1. n \in Escalations(r)'  BY <2>1, <2>3, <2>4 DEF Escalations
    <3>2. \A q : q # r => n \notin Escalations(q)'  BY <2>1, <2>3, <2>4 DEF Escalations
    <3>3. \A q : \A j \in DOMAIN mail : j \in Escalations(q)' <=> j \in Escalations(q)
      BY <2>3 DEF Escalations
    <3>4. \A q : Escalations(q) \subseteq DOMAIN mail /\ Escalations(q)' \subseteq DOMAIN mail \cup {n}
      BY <2>3, <2>4 DEF Escalations
    <3>5. n \notin DOMAIN mail  BY <2>3, <2>4
    <3>6. n \notin Escalations(r)  BY <3>4, <3>5
    <3>7. ASSUME NEW q PROVE Escalations(q) \subseteq Escalations(q)'
      BY <3>3, <3>4
    <3>8. ASSUME NEW q, q # r PROVE Escalations(q)' = Escalations(q)
      <4>1. Escalations(q)' \subseteq DOMAIN mail  BY <3>2, <3>4, <3>8
      <4> QED  BY <4>1, <3>3, <3>7
    <3>9. Escalations(r)' = Escalations(r) \cup {n}
      <4>1. Escalations(r) \subseteq DOMAIN mail /\ Escalations(r)' \subseteq DOMAIN mail \cup {n}
        BY <3>4
      <4>2. \A j \in DOMAIN mail : j \in Escalations(r)' <=> j \in Escalations(r)  BY <3>3
      <4> QED  BY <3>1, <4>1, <4>2
    <3> QED  BY <3>6, <3>7, <3>8, <3>9
  <2>10. \A q : Completions(q)' = Completions(q)
    <3>1. Completed # Degraded  BY DEF Completed, Degraded
    <3> QED  BY <3>1, <2>1, <2>3 DEF Completions
  <2>11. RecoveryTypes'
    <3>1. Completed # Degraded  BY DEF Completed, Degraded
    <3>2. \A j \in DOMAIN mail' : mail'[j].topic = Completed =>
            mail'[j].req \in Requests /\ mail'[j].body \in Reports
      BY <3>1, <1>0, <2>1, <2>3 DEF RecoveryTypes
    <3> QED  BY <3>2, <1>0, <1>1, <1>11, <2>3, <2>8 DEF RecoveryTypes, MailKept
  <2>12. \A v \in Workers : /\ worker'[v].st # "idle" <=> worker[v].st # "idle"
                            /\ worker'[v].msg = worker[v].msg
    <3> TAKE v \in Workers
    <3>1. CASE v = "persister"  BY <3>1, <1>1, <1>2, <2>6, <2>8
    <3>2. CASE v # "persister"
      <4>1. worker'[v] = worker[v]  BY <3>2, <2>8
      <4> QED  BY <4>1
    <3> QED  BY <3>1, <3>2
  <2>13. HeldIsLeased'  BY <1>0, <2>3, <2>12 DEF HeldIsLeased
  <2>14. PersisterKept'
    <3>1. mail'[worker'["persister"].msg].req = r  BY <1>3, <2>3, <2>6, <2>8
    <3>2. worker'["persister"].st = "escalated" /\ worker'["persister"].esc = n
      BY <2>6, <2>8
    <3>3. n \in Escalations(r)'  BY <2>9
    <3> QED  BY <3>1, <3>2, <3>3, <1>1, <1>7 DEF PersisterKept, Escalations
  <2>15. OneCompletionPerRun'  BY <1>0, <1>1, <2>10 DEF OneCompletionPerRun
  <2>16. \A q \in Requests : Handled(q) \subseteq Handled(q)'
    <3> TAKE q \in Requests
    <3>1. ASSUME NEW j \in Handled(q) PROVE j \in Handled(q)'
      <4>1. j \in Completions(q) /\ j \in DOMAIN mail /\ mail[j].st = "done"
        BY <1>1 DEF Handled, Completions
      <4>2. j \in Completions(q)' /\ mail'[j].st = "done"  BY <4>1, <2>3, <2>10
      <4> QED  BY <4>2 DEF Handled
    <3> QED  BY <3>1
  <2>17. i \in Handled(r)' /\ i \notin Handled(r)
    <3>1. mail[i].topic = Completed /\ mail[i].st = "leased"  BY <1>1, <1>2, PersisterHolds
    <3>2. i \in Completions(r)  BY <3>1, <1>3 DEF Completions
    <3>3. i \in Completions(r)'  BY <3>2, <2>10
    <3>4. i \in Handled(r)'  BY <3>3, <2>6, <2>8 DEF Handled
    <3>5. i \notin Handled(r)  BY <3>1, <1>1 DEF Handled
    <3> QED  BY <3>4, <3>5
  <2>18. HandledOnce'
    <3> SUFFICES ASSUME faults' = 0
                 PROVE  /\ \A j \in DOMAIN mail' :
                             /\ mail'[j].st # "dead"
                             /\ mail'[j].st = "leased" =>
                                  \E v \in Workers : worker'[v].st # "idle" /\ worker'[v].msg = j
                        /\ \A q \in Requests : Cardinality(Escalations(q)') <= Cardinality(Handled(q)')
      BY DEF HandledOnce
    <3>1. faults = 0  BY <1>11
    <3>2. \A j \in DOMAIN mail :
             /\ mail[j].st # "dead"
             /\ mail[j].st = "leased" => \E v \in Workers : worker[v].st # "idle" /\ worker[v].msg = j
      BY <1>0, <3>1 DEF HandledOnce
    <3>3. \A j \in DOMAIN mail' :
            /\ mail'[j].st # "dead"
            /\ mail'[j].st = "leased" =>
                 \E v \in Workers : worker'[v].st # "idle" /\ worker'[v].msg = j
      <4> TAKE j \in DOMAIN mail'
      <4>1. CASE j = n  BY <4>1, <2>1, <2>3, <2>4
      <4>2. CASE j # n
        <5>1. j \in DOMAIN mail /\ mail'[j] = mail[j]  BY <4>2, <2>3, <2>4
        <5> QED  BY <5>1, <3>2, <2>12
      <4> QED  BY <4>1, <4>2
    <3>4. \A q \in Requests : Cardinality(Escalations(q)') <= Cardinality(Handled(q)')
      <4> TAKE q \in Requests
      <4>1. Cardinality(Escalations(q)) <= Cardinality(Handled(q))
        BY <1>0, <3>1 DEF HandledOnce
      <4>2. /\ IsFiniteSet(Escalations(q)) /\ Cardinality(Escalations(q)) \in Nat
            /\ IsFiniteSet(Handled(q)) /\ Cardinality(Handled(q)) \in Nat
        BY <1>0, MailFinite
      <4>3. IsFiniteSet(Handled(q)') /\ Cardinality(Handled(q)') \in Nat
        <5>1. IsFiniteSet(Completions(q))  BY <1>0, MailFinite
        <5>2. Handled(q)' \subseteq Completions(q)  BY <2>10 DEF Handled
        <5> QED  BY <5>1, <5>2, FS_Subset, FS_CardinalityType
      <4>4. CASE q # r
        <5>1. Escalations(q)' = Escalations(q)  BY <4>4, <2>9
        <5>2. Cardinality(Handled(q)) <= Cardinality(Handled(q)')  BY <4>3, <2>16, FS_Subset
        <5>3. PICK a \in Nat, b \in Nat, d \in Nat :
                /\ a = Cardinality(Escalations(q)) /\ b = Cardinality(Handled(q))
                /\ d = Cardinality(Handled(q)')
          BY <4>2, <4>3
        <5>4. a <= d  BY <4>1, <5>2, <5>3
        <5> QED  BY <5>1, <5>3, <5>4
      <4>5. CASE q = r
        <5>1. Cardinality(Escalations(q)') = Cardinality(Escalations(q)) + 1
          BY <4>5, <4>2, <2>9, FS_AddElement
        <5>2. Handled(q) \cup {i} \subseteq Handled(q)'  BY <4>5, <2>16, <2>17
        <5>3. Cardinality(Handled(q) \cup {i}) = Cardinality(Handled(q)) + 1
          BY <4>5, <4>2, <2>17, FS_AddElement
        <5>4. Cardinality(Handled(q) \cup {i}) <= Cardinality(Handled(q)')
          BY <4>3, <5>2, FS_Subset
        <5>5. PICK a \in Nat, b \in Nat, d \in Nat :
                /\ a = Cardinality(Escalations(q)) /\ b = Cardinality(Handled(q))
                /\ d = Cardinality(Handled(q)')
          BY <4>2, <4>3
        <5>6. a + 1 <= d  BY <4>1, <5>3, <5>4, <5>5
        <5> QED  BY <5>1, <5>5, <5>6
      <4> QED  BY <4>4, <4>5
    <3> QED  BY <3>3, <3>4
  <2>19. DegradedIsEscalated'
    <3>1. ASSUME NEW j \in DOMAIN mail', mail'[j].topic = Completed, mail'[j].st = "done",
                 mail'[j].body.status # "ok"
          PROVE  /\ phoenixLog'[mail'[j].req].status # "none"
                 /\ \E q : q = mail'[j].req /\ (Escalations(q)' # {} \/ q \in unsent')
      <4>1. j \in DOMAIN mail /\ mail'[j] = mail[j]  BY <2>1, <2>3, <3>1
      <4>2. PICK q : q = mail[j].req  OBVIOUS
      <4>3. phoenixLog[q].status # "none" /\ (Escalations(q) # {} \/ q \in unsent)
        BY <1>0, <3>1, <4>1, <4>2 DEF DegradedIsEscalated, NeedsAttention
      <4> QED  BY <1>1, <1>11, <2>9, <4>1, <4>2, <4>3
    <3> QED  BY <3>1 DEF DegradedIsEscalated, NeedsAttention, Escalations
  <2>20. LoggedEscalationExists'  BY <1>0, <1>1, <2>9 DEF LoggedEscalationExists
  <2> QED
    BY <2>11, <2>13, <2>14, <2>15, <2>18, <2>19, <2>20 DEF RecoveryInv
<1> QED  BY <1>9, <1>10, <1>11

-----------------------------------------------------------------------------
(* A log that is cut off.                                                   *)

(* A step that opens and finishes no log.                                   *)
LEMMA CutStands ==
  ASSUME CutOffIsKnown, phoenixLog' = phoenixLog, cut \subseteq cut',
         faults' = 0 => faults = 0 /\ cut' = cut,
         worker["persister"].st \in {"writing", "rewriting"} =>
           \/ mail[worker["persister"].msg].req \in cut'
           \/ /\ worker'["persister"] = worker["persister"]
              /\ mail'[worker["persister"].msg].req = mail[worker["persister"].msg].req
  PROVE  CutOffIsKnown'
<1>1. ASSUME NEW r \in Requests, phoenixLog'[r].status = "torn"
      PROVE  r \in cut' \/ (/\ worker'["persister"].st \in {"writing", "rewriting"}
                            /\ r = mail'[worker'["persister"].msg].req)
  <2>1. r \in cut \/ r \in CutBy("persister")  BY <1>1 DEF CutOffIsKnown
  <2>2. CASE r \in cut  BY <2>2
  <2>3. CASE r \in CutBy("persister")
    <3>1. worker["persister"].st \in {"writing", "rewriting"}
          /\ r = mail[worker["persister"].msg].req
      BY <2>3 DEF CutBy, Held
    <3> QED  BY <3>1
  <2> QED  BY <2>1, <2>2, <2>3
<1>2. \A r \in Requests : phoenixLog'[r].status = "torn" => r \in cut' \/ r \in CutBy("persister")'
  BY <1>1 DEF CutBy, Held
<1>3. faults' = 0 => cut' = {}  BY DEF CutOffIsKnown
<1> QED  BY <1>2, <1>3 DEF CutOffIsKnown

(* Letters that are added leave the others as they are.                     *)
LEMMA AddedAfter ==
  ASSUME RecoveryTypes, NEW m, mail' = Enqueued(m) \/ mail' = mail, NEW i \in DOMAIN mail
  PROVE  mail'[i] = mail[i]
<1>1. mail \in Seq(Letters \cup {m})  BY DEF RecoveryTypes
<1>2. mail' = mail \/ mail' = Append(mail, m)  BY DEF Enqueued
<1>3. m \in Letters \cup {m}  OBVIOUS
<1> QED  BY <1>1, <1>2, <1>3

(* The log the persister has opened is torn, and is no longer when it has   *)
(* written it.                                                              *)
LEMMA CutByPersister ==
  ASSUME RecoveryInv, CutOffIsKnown,
         OpenLog \/ WriteLog \/ Escalate \/ ReopenLog \/ RewriteLog
  PROVE  CutOffIsKnown'
<1>0. worker["persister"].st # "idle"
  BY DEF OpenLog, WriteLog, Escalate, ReopenLog, RewriteLog
<1>1. /\ worker \in [Workers -> Standings] /\ "persister" \in Workers
      /\ worker["persister"] \in Standings /\ phoenixLog \in [Requests -> Logs] /\ faults \in Nat
  BY <1>0, PersisterHolds DEF RecoveryInv, RecoveryTypes
<1>2. PICK i \in DOMAIN mail : i = worker["persister"].msg  BY <1>0, PersisterHolds
<1>3. PICK r \in Requests : r = mail[i].req /\ mail[i].body \in Reports
  BY <1>0, <1>2, PersisterHolds
<1>4. CASE OpenLog \/ (ReopenLog /\ phoenixLog' = [phoenixLog EXCEPT ![r] = Torn]
                       /\ worker' = [worker EXCEPT !["persister"].st = "rewriting"]
                       /\ faults' = faults)
  <2>1. /\ phoenixLog' = [phoenixLog EXCEPT ![r] = Torn] /\ cut' = cut /\ faults' = faults
        /\ mail' = mail
        /\ \E s \in {"writing", "rewriting"} : worker' = [worker EXCEPT !["persister"].st = s]
    BY <1>2, <1>3, <1>4 DEF OpenLog, ReopenLog, Held
  <2>2. PICK s \in {"writing", "rewriting"} : worker' = [worker EXCEPT !["persister"].st = s]
    BY <2>1
  <2>3. worker'["persister"].st \in {"writing", "rewriting"} /\ worker'["persister"].msg = i
    BY <1>0, <1>2, <2>2, PersisterSet
  <2>4. worker["persister"].st \notin {"writing", "rewriting"}
    BY <1>4 DEF OpenLog, ReopenLog
  <2>5. \A q \in Requests : phoenixLog'[q].status = "torn" =>
          q \in cut' \/ q \in CutBy("persister")'
    <3> TAKE q \in Requests
    <3>1. CASE q = r  BY <3>1, <1>3, <2>1, <2>3 DEF CutBy, Held
    <3>2. CASE q # r
      <4>1. phoenixLog'[q] = phoenixLog[q]  BY <3>2, <1>1, <2>1
      <4>2. phoenixLog[q].status = "torn" => q \in cut
        BY <2>4 DEF CutOffIsKnown, CutBy
      <4> QED  BY <4>1, <4>2, <2>1
    <3> QED  BY <3>1, <3>2
  <2> QED  BY <2>1, <2>5 DEF CutOffIsKnown
<1>5. CASE phoenixLog' = phoenixLog /\ (Escalate \/ ReopenLog)
  <2>1. worker["persister"].st \notin {"writing", "rewriting"} /\ cut' = cut
    BY <1>5 DEF Escalate, ReopenLog
  <2>2. faults' = 0 => faults = 0  BY <1>1, <1>5 DEF Escalate, ReopenLog, Fault
  <2> QED  BY <1>5, <2>1, <2>2, CutStands
<1>6. CASE RewriteLog /\ phoenixLog' = phoenixLog /\ Fault /\ cut' = cut \cup CutBy("persister")
  <2>1. r \in cut'  BY <1>2, <1>3, <1>6 DEF RewriteLog, CutBy, Held
  <2>2. faults' # 0  BY <1>1, <1>6 DEF Fault
  <2> QED  BY <1>2, <1>3, <1>6, <2>1, <2>2, CutStands
<1>7. ASSUME NEW g \in Logs, g.status # "torn", phoenixLog' = [phoenixLog EXCEPT ![r] = g],
             cut' = cut, faults' = faults
      PROVE  CutOffIsKnown'
  <2>1. ASSUME NEW q \in Requests, phoenixLog'[q].status = "torn" PROVE q \in cut'
    <3>1. q # r /\ phoenixLog[q].status = "torn"  BY <1>1, <1>7, <2>1
    <3>2. q \notin CutBy("persister")  BY <1>2, <1>3, <3>1 DEF CutBy, Held
    <3> QED  BY <1>7, <3>1, <3>2 DEF CutOffIsKnown
  <2> QED  BY <1>7, <2>1 DEF CutOffIsKnown
<1>8. CASE WriteLog
  <2>1. PICK g \in Logs : g = LogOf(mail[i], NoOne) /\ g.status \in {"ok", "degraded"}
    BY <1>3, LogIsLog, RecoveryAssumption
  <2>2. phoenixLog' = [phoenixLog EXCEPT ![r] = g] /\ cut' = cut /\ faults' = faults
    BY <1>2, <1>3, <1>8, <2>1 DEF WriteLog, Held
  <2> QED  BY <1>7, <2>1, <2>2
<1>9. CASE RewriteLog /\ cut' = cut /\ faults' = faults
           /\ phoenixLog' = [phoenixLog EXCEPT ![r] = LogOf(mail[i], worker["persister"].esc)]
  <2>1. worker["persister"].esc \in Nat \cup {NoOne}  BY <1>1 DEF Standings
  <2>2. PICK g \in Logs : /\ g = LogOf(mail[i], worker["persister"].esc)
                          /\ g.status \in {"ok", "degraded"}
    BY <1>3, <2>1, LogIsLog, RecoveryAssumption
  <2> QED  BY <1>7, <1>9, <2>2
<1>10. ReopenLog =>
         \/ /\ phoenixLog' = [phoenixLog EXCEPT ![r] = Torn] /\ faults' = faults
            /\ worker' = [worker EXCEPT !["persister"].st = "rewriting"]
         \/ phoenixLog' = phoenixLog
  BY <1>2, <1>3 DEF ReopenLog, Held
<1>11. RewriteLog =>
         \/ /\ phoenixLog' = [phoenixLog EXCEPT ![r] = LogOf(mail[i], worker["persister"].esc)]
            /\ cut' = cut /\ faults' = faults
         \/ phoenixLog' = phoenixLog /\ Fault /\ cut' = cut \cup CutBy("persister")
  BY <1>2, <1>3 DEF RewriteLog, Held
<1>12. Escalate => phoenixLog' = phoenixLog  BY DEF Escalate
<1> QED  BY <1>4, <1>5, <1>6, <1>8, <1>9, <1>10, <1>11, <1>12

(* A log stays torn only while it is written, or because it was cut off.    *)
LEMMA CutStep ==
  ASSUME RecoveryInv, CutOffIsKnown, [RecoveryNext]_recoveryVars
  PROVE  CutOffIsKnown'
<1>0. RecoveryTypes /\ HeldIsLeased /\ "persister" \in Workers  BY DEF RecoveryInv, Workers
<1>1. worker["persister"].st \in {"writing", "rewriting"} =>
        /\ worker["persister"].msg \in DOMAIN mail
        /\ mail[worker["persister"].msg].st = "leased"
  BY PersisterHolds
<1>2. faults \in Nat  BY <1>0 DEF RecoveryTypes
<1>3. CASE UNCHANGED recoveryVars  BY <1>3, CutStands DEF recoveryVars
<1>4. ASSUME NEW r \in Requests, RunAgain(r) \/ RunLevel(r) PROVE CutOffIsKnown'
  <2>1. UNCHANGED <<mail, worker, phoenixLog, cut, faults>>  BY <1>4 DEF RunAgain, RunLevel
  <2> QED  BY <2>1, CutStands
<1>5. ASSUME NEW r \in Requests \cup Checks, Publish(r) \/ Monitor(r) PROVE CutOffIsKnown'
  <2>1. /\ UNCHANGED <<worker, phoenixLog, cut>> /\ (faults' = 0 => faults = 0)
        /\ \E m : mail' = Enqueued(m) \/ mail' = mail
    <3>1. CASE Publish(r)  BY <3>1, <1>2 DEF Publish, Fault
    <3>2. CASE Monitor(r)  BY <3>2, <1>2 DEF Monitor, Fault
    <3> QED  BY <1>5, <3>1, <3>2
  <2>2. \A i \in DOMAIN mail : mail'[i] = mail[i]  BY <1>0, <2>1, AddedAfter
  <2> QED  BY <1>1, <2>1, <2>2, CutStands
<1>6. ASSUME NEW w \in Workers, Take(w) \/ Ack(w) PROVE CutOffIsKnown'
  <2>1. /\ phoenixLog' = phoenixLog /\ cut' = cut /\ faults' = faults
        /\ worker[w].st \in {"idle", "returned"}
        /\ \A v \in Workers \ {w} : worker'[v] = worker[v]
    BY <1>0, <1>6 DEF Take, Ack, RecoveryTypes
  <2>2. ASSUME worker["persister"].st \in {"writing", "rewriting"}
        PROVE  /\ worker'["persister"] = worker["persister"]
               /\ mail'[worker["persister"].msg] = mail[worker["persister"].msg]
    <3>1. w # "persister"  BY <2>1, <2>2
    <3>2. PICK i \in DOMAIN mail : /\ mail' = [mail EXCEPT ![i].st = "leased"]
                                      \/ mail' = [mail EXCEPT ![i].st = "done"]
                                   /\ i # worker["persister"].msg
      <4>1. CASE Take(w)
        <5>1. PICK i \in DOMAIN mail : /\ mail[i].st = "pending"
                                       /\ mail' = [mail EXCEPT ![i].st = "leased"]
          BY <4>1 DEF Take
        <5> QED  BY <5>1, <1>1, <2>2
      <4>2. CASE Ack(w)
        <5>1. worker[w].st = "returned" /\ mail' = [mail EXCEPT ![worker[w].msg].st = "done"]
          BY <4>2 DEF Ack
        <5>2. worker[w].msg \in DOMAIN mail  BY <1>0, <5>1 DEF HeldIsLeased
        <5>3. worker[w].msg # worker["persister"].msg
          BY <1>0, <2>2, <3>1, <5>1, HeldApart
        <5> QED  BY <5>1, <5>2, <5>3
      <4> QED  BY <1>6, <4>1, <4>2
    <3>3. mail'[worker["persister"].msg] = mail[worker["persister"].msg]  BY <1>1, <2>2, <3>2
    <3> QED  BY <1>0, <2>1, <3>1, <3>3
  <2> QED  BY <2>1, <2>2, CutStands
<1>7. ASSUME NEW w \in Workers, Raise(w) \/ Crash(w) PROVE CutOffIsKnown'
  <2>1. /\ phoenixLog' = phoenixLog /\ cut' = cut \cup CutBy(w) /\ faults' # 0
        /\ worker[w].st # "idle"
        /\ \A v \in Workers \ {w} : worker'[v] = worker[v]
    BY <1>0, <1>2, <1>7 DEF Raise, Crash, Fault, RecoveryTypes
  <2>2. CASE w = "persister"
    <3>1. worker["persister"].st \in {"writing", "rewriting"} =>
            mail[worker["persister"].msg].req \in cut'
      BY <2>1, <2>2 DEF CutBy, Held
    <3> QED  BY <2>1, <3>1, CutStands
  <2>3. ASSUME w # "persister", worker["persister"].st \in {"writing", "rewriting"}
        PROVE  mail'[worker["persister"].msg] = mail[worker["persister"].msg]
    <3>1. worker[w].msg # worker["persister"].msg  BY <1>0, <2>1, <2>3, HeldApart
    <3>2. \/ mail' = mail
          \/ \E c : mail' = [mail EXCEPT ![worker[w].msg] = c]
      BY <1>7 DEF Raise, Crash
    <3> QED  BY <1>1, <2>3, <3>1, <3>2
  <2> QED  BY <1>0, <2>1, <2>2, <2>3, CutStands
<1>8. CASE LeaseGivenUp \/ Dispatch \/ Report
  <2>1. phoenixLog' = phoenixLog /\ cut' = cut /\ faults' = faults
    BY <1>8 DEF LeaseGivenUp, Dispatch, Report
  <2>2. worker'["persister"] = worker["persister"]
    BY <1>0, <1>8 DEF LeaseGivenUp, Dispatch, Report, RecoveryTypes
  <2>3. mail' = mail \/ \E ms : mail' = GivenUp(ms)
    BY <1>8 DEF LeaseGivenUp, Dispatch, Report
  <2>4. \A i \in DOMAIN mail : mail'[i].req = mail[i].req
    <3>1. CASE mail' = mail  BY <3>1
    <3>2. CASE \E ms : mail' = GivenUp(ms)
      BY <3>2, <1>0, LettersGivenUp DEF SameMail, MailKept
    <3> QED  BY <2>3, <3>1, <3>2
  <2> QED  BY <1>1, <2>1, <2>2, <2>4, CutStands
<1>9. CASE OpenLog \/ WriteLog \/ Escalate \/ ReopenLog \/ RewriteLog
  BY <1>9, CutByPersister
<1> QED  BY <1>3, <1>4, <1>5, <1>6, <1>7, <1>8, <1>9 DEF RecoveryNext

-----------------------------------------------------------------------------
(* process_msg() of the persister, with the queue, crashes and failing      *)
(* writes: a degraded run is done only when it is logged and escalated or   *)
(* the queue refused; the log names escalations that exist; and without a   *)
(* fault a run is escalated at most once.                                   *)
THEOREM RecoveriesAreEscalated == RecoverySpec => []EscalationsSound
<1>1. RecoveryInit => RecoveryInv
  <2> SUFFICES ASSUME RecoveryInit PROVE RecoveryInv  OBVIOUS
  <2>1. /\ mail = <<>> /\ DOMAIN mail = {} /\ mail \in Seq(Letters)
        /\ faults = 0 /\ faults \in Nat
    BY DEF RecoveryInit
  <2>2. NoRun \in Processes /\ NoRun.st = "idle" /\ NoRun.nth = 0
    BY DEF NoRun, Processes
  <2>3. Resting \in Standings /\ Resting.st = "idle"  BY DEF Resting, Standings
  <2>4. NoLog \in Logs /\ NoLog.esc = NoOne  BY DEF NoLog, Logs
  <2>5. /\ runs \in [Requests -> Processes] /\ \A r \in Requests : runs[r] = NoRun
        /\ worker \in [Workers -> Standings] /\ \A w \in Workers : worker[w] = Resting
        /\ phoenixLog \in [Requests -> Logs] /\ \A r \in Requests : phoenixLog[r] = NoLog
    BY <2>2, <2>3, <2>4 DEF RecoveryInit
  <2>6. RecoveryTypes  BY <2>1, <2>5 DEF RecoveryTypes
  <2>7. HeldIsLeased  BY <2>3, <2>5 DEF HeldIsLeased
  <2>8. PersisterKept  BY <2>3, <2>5 DEF PersisterKept, Workers
  <2>9. \A r : Completions(r) = {} /\ Escalations(r) = {} /\ Handled(r) = {}
    BY <2>1 DEF Completions, Escalations, Handled
  <2>10. Cardinality({}) = 0  BY FS_EmptySet
  <2>11. OneCompletionPerRun
    <3> SUFFICES ASSUME NEW r \in Requests
                 PROVE  Cardinality(Completions(r)) + (IF runs[r].st = "levels" THEN 1 ELSE 0) <= runs[r].nth
      BY DEF OneCompletionPerRun
    <3>1. Cardinality(Completions(r)) = 0  BY <2>9, <2>10
    <3>2. runs[r].st # "levels" /\ runs[r].nth = 0  BY <2>2, <2>5
    <3> QED  BY <3>1, <3>2
  <2>12. HandledOnce
    <3>1. \A r \in Requests : Cardinality(Escalations(r)) <= Cardinality(Handled(r))
      BY <2>9, <2>10
    <3> QED  BY <3>1, <2>1 DEF HandledOnce
  <2>13. DegradedIsEscalated  BY <2>1 DEF DegradedIsEscalated
  <2>14. LoggedEscalationExists  BY <2>4, <2>5 DEF LoggedEscalationExists
  <2> QED  BY <2>6, <2>7, <2>8, <2>11, <2>12, <2>13, <2>14 DEF RecoveryInv
<1>2. RecoveryInv /\ [RecoveryNext]_recoveryVars => RecoveryInv'
  <2> SUFFICES ASSUME RecoveryInv, [RecoveryNext]_recoveryVars PROVE RecoveryInv'  OBVIOUS
  <2>1. CASE UNCHANGED recoveryVars
    <3>1. /\ mail' = mail /\ worker' = worker /\ runs' = runs /\ phoenixLog' = phoenixLog
          /\ unsent' = unsent /\ faults' = faults
      BY <2>1 DEF recoveryVars
    <3>2. RecoveryTypes'  BY <3>1 DEF RecoveryInv, RecoveryTypes
    <3>3. OneCompletionPerRun'  BY <3>1 DEF RecoveryInv, OneCompletionPerRun, Completions
    <3> QED  BY <3>1, <3>2, <3>3, SendKeeps
  <2>2. ASSUME NEW r \in Requests, RunAgain(r) \/ RunLevel(r) \/ Publish(r) PROVE RecoveryInv'
    BY <2>2, RunAgainStep, RunLevelStep, PublishStep
  <2>3. ASSUME NEW w \in Workers, Take(w) \/ Ack(w) \/ Raise(w) \/ Crash(w) PROVE RecoveryInv'
    BY <2>3, TakeStep, AckStep, RaiseStep, CrashStep
  <2>4. CASE LeaseGivenUp  BY <2>4, LeaseGivenUpStep
  <2>5. CASE OpenLog \/ WriteLog \/ Escalate \/ ReopenLog \/ RewriteLog
    BY <2>5, OpenLogStep, WriteLogStep, EscalateStep, ReopenLogStep, RewriteLogStep
  <2>6. CASE Dispatch \/ Report  BY <2>6, DispatchStep, ReportStep
  <2>7. ASSUME NEW r \in Checks, Monitor(r) PROVE RecoveryInv'  BY <2>7, MonitorStep
  <2> QED  BY <2>1, <2>2, <2>3, <2>4, <2>5, <2>6, <2>7 DEF RecoveryNext
<1>3. RecoveryInit => CutOffIsKnown
  <2> SUFFICES ASSUME RecoveryInit PROVE CutOffIsKnown  OBVIOUS
  <2>1. \A r \in Requests : phoenixLog[r].status = "none"  BY DEF RecoveryInit, NoLog
  <2>2. cut = {}  BY DEF RecoveryInit
  <2> QED  BY <2>1, <2>2 DEF CutOffIsKnown
<1>4. RecoveryInv /\ CutOffIsKnown /\ [RecoveryNext]_recoveryVars => CutOffIsKnown'
  BY CutStep
<1>5. RecoveryInv /\ CutOffIsKnown => EscalationsSound
  <2> SUFFICES ASSUME RecoveryInv, CutOffIsKnown PROVE EscalationsSound  OBVIOUS
  <2>1. OneEscalationWithoutFault
    <3> SUFFICES ASSUME faults = 0, NEW r \in Requests
                 PROVE  Cardinality(Escalations(r)) <= runs[r].nth
      BY DEF OneEscalationWithoutFault
    <3>1. /\ Cardinality(Escalations(r)) <= Cardinality(Handled(r))
          /\ Cardinality(Completions(r)) + (IF runs[r].st = "levels" THEN 1 ELSE 0) <= runs[r].nth
      BY DEF RecoveryInv, HandledOnce, OneCompletionPerRun
    <3>2. PICK a \in Nat, b \in Nat, d \in Nat, n \in Nat :
            /\ a = Cardinality(Escalations(r)) /\ b = Cardinality(Handled(r))
            /\ d = Cardinality(Completions(r)) /\ n = runs[r].nth /\ b <= d
      BY MailFinite DEF RecoveryInv, RecoveryTypes, Processes
    <3>3. PICK l \in {0, 1} : l = IF runs[r].st = "levels" THEN 1 ELSE 0  OBVIOUS
    <3>4. a <= b /\ d + l <= n  BY <3>1, <3>2, <3>3
    <3>5. a <= n  BY <3>2, <3>3, <3>4
    <3> QED  BY <3>2, <3>5
  <2> QED  BY <2>1 DEF EscalationsSound, RecoveryInv
<1> QED  BY <1>1, <1>2, <1>3, <1>4, <1>5, PTL DEF RecoverySpec

-----------------------------------------------------------------------------
(* The runner: one process of it.                                           *)

RunNames == (UNION {DOMAIN f : f \in Files}) \cup {None} \cup STRING
Results == UNION {[S -> Statuses] : S \in SUBSET STRING}
ProcRecords ==
  [st : {"idle", "ordering", "running", "exited"}, wf : RunNames, path : Seq(STRING), todo : Seq(Steps),
   res : Results, busy : BOOLEAN, status : {"ok", "failed", None}, exit : {None, 0, 1, -9}]

Bad(r) == \E i \in DOMAIN r.res : r.res[i] # "ok"

(* Each step that is left is one of the workflow, once, and behind those it *)
(* depends on.                                                              *)
InOrder(steps, r) ==
  /\ \A i \in DOMAIN r.todo : \E k \in DOMAIN steps : r.todo[i] = steps[k]
  /\ \A i, j \in DOMAIN r.todo : r.todo[i].id = r.todo[j].id => i = j
  /\ \A i \in DOMAIN r.todo : \A d \in ToSet(r.todo[i].deps) :
       d \in DOMAIN r.res \/ \E j \in 1..(i - 1) : r.todo[j].id = d

(* The open calls of dfs(): a chain of steps, each needed by the last one.  *)
Chain(steps, r) ==
  /\ \A k \in DOMAIN r.path : r.path[k] \in Ids(steps) \ Placed(r)
  /\ \A j, k \in DOMAIN r.path : r.path[j] = r.path[k] => j = k
  /\ \A k \in 1..(Len(r.path) - 1) : r.path[k + 1] \in DepsOf(steps, r.path[k])

WhileOrdering(steps, r) ==
  /\ r.res = <<>> /\ r.busy = FALSE
  /\ InOrder(steps, r) /\ Chain(steps, r)

WhileRunning(steps, r) ==
  /\ Executable(steps) /\ InOrder(steps, r)
  /\ r.busy => r.todo # <<>>
  /\ Placed(r) \cap DOMAIN r.res = {}
  /\ Bad(r) \/ Ids(steps) \subseteq DOMAIN r.res \cup Placed(r)

(* What RunnerSound says of one process.                                    *)
Told(f, r) ==
  /\ \A i \in DOMAIN r.res : r.res[i] = "skipped" =>
       \E d \in DepsOf(f[r.wf], i) : d \in DOMAIN r.res /\ r.res[d] # "ok"
  /\ r.wf \in DOMAIN f =>
       /\ ~Executable(f[r.wf]) => r.st # "running" /\ r.res = <<>> /\ r.exit # 0
       /\ Executable(f[r.wf]) /\ r.exit = 1 => \E i \in DOMAIN f[r.wf] : f[r.wf][i].action = None
  /\ r.status = "ok" => ~Bad(r) /\ \A i \in Ids(f[r.wf]) : Has(r, i)

Sane(f, r) ==
  /\ r \in ProcRecords
  /\ r.st = "idle" => r = Idle
  /\ r.st = "ordering" => WhileOrdering(f[r.wf], r)
  /\ r.st = "running" => WhileRunning(f[r.wf], r)
  /\ r.st \in {"ordering", "running"} => r.wf \in DOMAIN f /\ r.status = None /\ r.exit = None
  /\ Told(f, r)

RunnerInv ==
  /\ file \in Files
  /\ proc \in [Procs -> ProcRecords]
  /\ \A p \in Procs : Sane(file, proc[p])
  /\ \A o \in orphans : \A p \in Procs : o[1] = p /\ Len(p) = 1 => Bad(proc[p])

(* The steps of a workflow and their names.                                 *)
LEMMA StepsOfFile ==
  ASSUME NEW f \in Files, NEW n \in DOMAIN f
  PROVE  /\ f[n] \in Seq(Steps) /\ DOMAIN f[n] = 1..Len(f[n]) /\ Len(f[n]) \in Nat
         /\ \A i \in DOMAIN f[n] : f[n][i] \in Steps /\ f[n][i].id \in Ids(f[n])
                                   /\ StepOf(f[n], f[n][i].id) = f[n][i]
         /\ \A id \in Ids(f[n]) : \E i \in DOMAIN f[n] :
              id = f[n][i].id /\ StepOf(f[n], id) = f[n][i]
<1>1. f[n] \in Seq(Steps) /\ \A i, j \in DOMAIN f[n] : f[n][i].id = f[n][j].id => i = j
  BY RunnerAssumption
<1>2. DOMAIN f[n] = 1..Len(f[n]) /\ Len(f[n]) \in Nat /\ \A i \in DOMAIN f[n] : f[n][i] \in Steps
  BY <1>1
<1>3. \A i \in DOMAIN f[n] : f[n][i].id \in Ids(f[n]) /\ StepOf(f[n], f[n][i].id) = f[n][i]
  <2> TAKE i \in DOMAIN f[n]
  <2>1. PICK j \in DOMAIN f[n] : /\ f[n][j].id = f[n][i].id
                                 /\ j = CHOOSE k \in DOMAIN f[n] : f[n][k].id = f[n][i].id
    OBVIOUS
  <2>2. j = i
    BY <2>1, <1>1
  <2> QED BY <2>1, <2>2 DEF StepOf, Ids
<1>4. \A id \in Ids(f[n]) : \E i \in DOMAIN f[n] : id = f[n][i].id /\ StepOf(f[n], id) = f[n][i]
  <2> TAKE id \in Ids(f[n])
  <2>1. PICK i \in DOMAIN f[n] : id = f[n][i].id
    BY DEF Ids
  <2> QED BY <2>1, <1>3
<1> QED BY <1>1, <1>2, <1>3, <1>4

(* The fields of a process.                                                 *)
LEMMA ProcFields ==
  ASSUME NEW r \in ProcRecords
  PROVE  /\ r.path \in Seq(STRING) /\ DOMAIN r.path = 1..Len(r.path) /\ Len(r.path) \in Nat
         /\ r.todo \in Seq(Steps) /\ DOMAIN r.todo = 1..Len(r.todo) /\ Len(r.todo) \in Nat
         /\ \A i \in DOMAIN r.todo : r.todo[i] \in Steps
         /\ r.res \in [DOMAIN r.res -> Statuses] /\ DOMAIN r.res \subseteq STRING
         /\ r.st \in {"idle", "ordering", "running", "exited"}
<1>1. r.path \in Seq(STRING) /\ r.todo \in Seq(Steps) /\ r.res \in Results
      /\ r.st \in {"idle", "ordering", "running", "exited"}
  BY DEF ProcRecords
<1>2. PICK S \in SUBSET STRING : r.res \in [S -> Statuses]
  BY <1>1 DEF Results
<1>3. DOMAIN r.res = S /\ r.res \in [DOMAIN r.res -> Statuses] /\ DOMAIN r.res \subseteq STRING
  BY <1>2
<1>4. DOMAIN r.path = 1..Len(r.path) /\ Len(r.path) \in Nat
  BY <1>1
<1>5. DOMAIN r.todo = 1..Len(r.todo) /\ Len(r.todo) \in Nat /\ \A i \in DOMAIN r.todo : r.todo[i] \in Steps
  BY <1>1
<1> QED BY <1>1, <1>3, <1>4, <1>5

(* A process that has just started.                                         *)
LEMMA StartedSane ==
  ASSUME file \in Files, NEW n \in RunNames
  PROVE  Sane(file, Started(n)) /\ Sane(file, Idle)
<1>1. Idle \in ProcRecords /\ Idle.st = "idle"
  <2>1. <<>> \in Results
    <3>1. <<>> \in [{} -> Statuses] /\ {} \in SUBSET STRING
      OBVIOUS
    <3> QED BY <3>1 DEF Results
  <2>2. None \in RunNames
    BY DEF RunNames
  <2> QED BY <2>1, <2>2 DEF Idle, ProcRecords
<1>2. DOMAIN Idle.res = {} /\ Idle.res = <<>> /\ Idle.todo = <<>> /\ Idle.path = <<>> /\ Idle.status = None
      /\ Idle.exit = None /\ Idle.busy = FALSE
  BY DEF Idle
<1>3. None # 1 /\ None # 0 /\ None # "ok"
  BY RunnerAssumption
<1>4. Sane(file, Idle)
  BY <1>1, <1>2, <1>3 DEF Sane, Told
<1>5. CASE n \in DOMAIN file
  <2> DEFINE r == Started(n)
  <2>1. /\ r \in ProcRecords /\ r.st = "ordering" /\ r.wf = n /\ r.res = <<>> /\ r.todo = <<>> /\ r.path = <<>>
        /\ r.status = None /\ r.exit = None /\ r.busy = FALSE
    BY <1>5, <1>1, <1>2 DEF Started, Idle, ProcRecords
  <2> HIDE DEF r
  <2>2. Len(r.path) = 0 /\ DOMAIN r.path = {} /\ DOMAIN r.todo = {} /\ DOMAIN r.res = {}
    BY <2>1
  <2>3. WhileOrdering(file[r.wf], r)
    BY <2>1, <2>2 DEF WhileOrdering, InOrder, Chain
  <2>4. Told(file, r)
    BY <2>1, <2>2, <1>3 DEF Told
  <2>5. Sane(file, r)
    BY <2>1, <2>3, <2>4, <1>5 DEF Sane
  <2> QED BY <2>5, <1>4 DEF r
<1>6. CASE n \notin DOMAIN file
  <2> DEFINE r == Started(n)
  <2>1. /\ r \in ProcRecords /\ r.st = "exited" /\ r.wf = n /\ r.res = <<>>
        /\ r.status = None /\ r.exit = 1
    BY <1>6, <1>1, <1>2 DEF Started, Idle, ProcRecords
  <2> HIDE DEF r
  <2>2. DOMAIN r.res = {}
    BY <2>1
  <2>3. Told(file, r)
    BY <2>1, <2>2, <1>3, <1>6 DEF Told
  <2>4. Sane(file, r)
    BY <2>1, <2>3 DEF Sane
  <2> QED BY <2>4, <1>4 DEF r
<1> QED BY <1>5, <1>6

(* A step that is over has its status; what was recorded before stays.      *)
LEMMA RecordedSane ==
  ASSUME file \in Files, NEW r, Sane(file, r), r.st = "running", r.todo # <<>>,
         NEW s \in Statuses, s = "skipped" => Blocked(r)
  PROVE  /\ Sane(file, Recorded(r, s)) /\ Recorded(r, s) \in ProcRecords
         /\ Bad(r) \/ s # "ok" => Bad(Recorded(r, s))
<1> DEFINE steps == file[r.wf]
<1> DEFINE h == Head(r.todo)
<1>1. r \in ProcRecords /\ r.wf \in DOMAIN file /\ r.status = None /\ r.exit = None /\ WhileRunning(steps, r)
      /\ Told(file, r)
  BY DEF Sane
<1>2. /\ r.todo \in Seq(Steps) /\ DOMAIN r.todo = 1..Len(r.todo) /\ Len(r.todo) \in Nat
      /\ r.res \in [DOMAIN r.res -> Statuses] /\ DOMAIN r.res \subseteq STRING
  BY <1>1, ProcFields
<1>3. Len(r.todo) >= 1 /\ h = r.todo[1] /\ h \in Steps /\ h.id \in STRING /\ 1 \in DOMAIN r.todo
  <2>1. Len(r.todo) >= 1 /\ h = r.todo[1] /\ 1 \in DOMAIN r.todo
    BY <1>2
  <2>2. h \in Steps
    BY <2>1, <1>2
  <2> QED BY <2>1, <2>2 DEF Steps
<1>4. PICK t \in Seq(Steps) : t = IF s \in {"failed", "timeout"} /\ h.abort THEN <<>> ELSE Tail(r.todo)
  <2>1. <<>> \in Seq(Steps) /\ Tail(r.todo) \in Seq(Steps)
    BY <1>2
  <2> QED BY <2>1, Zenon
<1>5. PICK res \in Results : res = [i \in DOMAIN r.res \cup {h.id} |-> IF i = h.id THEN s ELSE r.res[i]]
  <2>1. DOMAIN r.res \cup {h.id} \in SUBSET STRING
    BY <1>2, <1>3
  <2>2. [i \in DOMAIN r.res \cup {h.id} |-> IF i = h.id THEN s ELSE r.res[i]]
           \in [DOMAIN r.res \cup {h.id} -> Statuses]
    BY <1>2
  <2> QED BY <2>1, <2>2 DEF Results
<1>6. PICK n : n = Recorded(r, s)
  OBVIOUS
<1>7. /\ n \in ProcRecords /\ n.st = "running" /\ n.wf = r.wf /\ n.path = r.path /\ n.todo = t /\ n.res = res
      /\ n.busy = FALSE /\ n.status = None /\ n.exit = None
  <2>1. n = [r EXCEPT !.res = res, !.busy = FALSE, !.todo = t]
    BY <1>4, <1>5, <1>6 DEF Recorded
  <2> QED BY <2>1, <1>1 DEF ProcRecords
<1>8. /\ DOMAIN n.res = DOMAIN r.res \cup {h.id} /\ n.res[h.id] = s
      /\ \A i \in DOMAIN r.res : i # h.id => n.res[i] = r.res[i]
  BY <1>5, <1>7
<1>9. h.id \notin DOMAIN r.res
  BY <1>1, <1>3 DEF WhileRunning, Placed
<1>10. Bad(r) \/ s # "ok" => Bad(n)
  BY <1>8, <1>9 DEF Bad
<1>11. n.todo = <<>> \/ (DOMAIN n.todo = 1..(Len(r.todo) - 1) /\ \A i \in DOMAIN n.todo : n.todo[i] = r.todo[i + 1])
  BY <1>2, <1>3, <1>4, <1>7
<1>12. InOrder(steps, n)
  <2>1. CASE n.todo = <<>>
    <3>1. DOMAIN n.todo = {}
      BY <2>1
    <3> QED BY <3>1 DEF InOrder
  <2>2. CASE n.todo # <<>>
    <3>1. /\ DOMAIN n.todo = 1..(Len(r.todo) - 1)
          /\ \A i \in DOMAIN n.todo : n.todo[i] = r.todo[i + 1] /\ i + 1 \in DOMAIN r.todo
      BY <2>2, <1>11, <1>2
    <3>2. InOrder(steps, r)
      BY <1>1 DEF WhileRunning
    <3>3. \A i \in DOMAIN n.todo : \E k \in DOMAIN steps : n.todo[i] = steps[k]
      BY <3>1, <3>2 DEF InOrder
    <3>4. \A i, j \in DOMAIN n.todo : n.todo[i].id = n.todo[j].id => i = j
      <4>1. TAKE i, j \in DOMAIN n.todo
      <4>2. r.todo[i + 1].id = r.todo[j + 1].id => i + 1 = j + 1
        BY <3>1, <3>2 DEF InOrder
      <4> QED BY <4>2, <3>1, <1>2
    <3>5. ASSUME NEW i \in DOMAIN n.todo, NEW d \in ToSet(n.todo[i].deps)
          PROVE  d \in DOMAIN n.res \/ \E j \in 1..(i - 1) : n.todo[j].id = d
      <4>1. d \in DOMAIN r.res \/ \E j \in 1..((i + 1) - 1) : r.todo[j].id = d
        BY <3>1, <3>2, <3>5 DEF InOrder
      <4>2. CASE d \in DOMAIN r.res
        BY <4>2, <1>8
      <4>3. CASE \E j \in 1..((i + 1) - 1) : r.todo[j].id = d
        <5>1. PICK j \in 1..((i + 1) - 1) : r.todo[j].id = d
          BY <4>3
        <5>2. CASE j = 1
          BY <5>1, <5>2, <1>3, <1>8
        <5>3. CASE j # 1
          <6>1. j - 1 \in 1..(i - 1) /\ j - 1 \in DOMAIN n.todo /\ (j - 1) + 1 = j
            BY <5>1, <5>3, <3>1, <1>2
          <6>2. n.todo[j - 1] = r.todo[j]
            BY <6>1, <3>1
          <6> QED BY <6>1, <6>2, <5>1
        <5> QED BY <5>2, <5>3
      <4> QED BY <4>1, <4>2, <4>3
    <3> QED BY <3>3, <3>4, <3>5 DEF InOrder
  <2> QED BY <2>1, <2>2
<1>13. Placed(n) \cap DOMAIN n.res = {}
  <2>1. CASE n.todo = <<>>
    BY <2>1 DEF Placed
  <2>2. CASE n.todo # <<>>
    <3>1. ASSUME NEW i \in DOMAIN n.todo PROVE n.todo[i].id \notin DOMAIN n.res
      <4>1. n.todo[i] = r.todo[i + 1] /\ i + 1 \in DOMAIN r.todo /\ i + 1 # 1
        BY <2>2, <3>1, <1>11, <1>2
      <4>2. r.todo[i + 1].id \notin DOMAIN r.res
        BY <4>1, <1>1 DEF WhileRunning, Placed
      <4>3. r.todo[i + 1].id # h.id
        BY <4>1, <1>1, <1>3 DEF WhileRunning, InOrder
      <4> QED BY <4>1, <4>2, <4>3, <1>8
    <3> QED BY <3>1 DEF Placed
  <2> QED BY <2>1, <2>2
<1>14. Bad(n) \/ Ids(steps) \subseteq DOMAIN n.res \cup Placed(n)
  <2>1. CASE Bad(r) \/ s # "ok"
    BY <2>1, <1>10
  <2>2. CASE ~Bad(r) /\ s = "ok"
    <3>1. Ids(steps) \subseteq DOMAIN r.res \cup Placed(r)
      BY <2>2, <1>1 DEF WhileRunning
    <3>2. n.todo = Tail(r.todo)
      BY <2>2, <1>4, <1>7
    <3>3. ASSUME NEW i \in DOMAIN r.todo PROVE r.todo[i].id \in DOMAIN n.res \cup Placed(n)
      <4>1. CASE i = 1
        BY <4>1, <1>3, <1>8
      <4>2. CASE i # 1
        <5>1. i - 1 \in DOMAIN n.todo /\ n.todo[i - 1] = r.todo[i]
          BY <4>2, <3>2, <1>2, <1>3
        <5> QED BY <5>1 DEF Placed
      <4> QED BY <4>1, <4>2
    <3> QED BY <3>1, <3>3, <1>8 DEF Placed
  <2> QED BY <2>1, <2>2
<1>15. Told(file, n)
  <2>1. ASSUME NEW i \in DOMAIN n.res, n.res[i] = "skipped"
        PROVE  \E d \in DepsOf(steps, i) : d \in DOMAIN n.res /\ n.res[d] # "ok"
    <3>1. CASE i # h.id
      <4>1. i \in DOMAIN r.res /\ r.res[i] = "skipped"
        BY <2>1, <3>1, <1>8
      <4>2. PICK d \in DepsOf(steps, i) : d \in DOMAIN r.res /\ r.res[d] # "ok"
        BY <4>1, <1>1 DEF Told
      <4> QED BY <4>2, <1>8, <1>9
    <3>2. CASE i = h.id
      <4>1. Blocked(r)
        BY <2>1, <3>2, <1>8
      <4>2. PICK d \in ToSet(h.deps) : ~Has(r, d)
        BY <4>1 DEF Blocked
      <4>3. d \in DOMAIN r.res
        <5>1. d \in DOMAIN r.res \/ \E j \in 1..(1 - 1) : r.todo[j].id = d
          BY <4>2, <1>1, <1>3 DEF WhileRunning, InOrder
        <5> QED BY <5>1
      <4>4. r.res[d] # "ok"
        BY <4>2, <4>3 DEF Has
      <4>5. StepOf(steps, i) = h
        <5>1. PICK k \in DOMAIN steps : h = steps[k]
          BY <1>1, <1>3 DEF WhileRunning, InOrder
        <5> QED BY <5>1, <3>2, <1>1, StepsOfFile
      <4> QED BY <4>2, <4>3, <4>4, <4>5, <1>8, <1>9 DEF DepsOf
    <3> QED BY <3>1, <3>2
  <2>2. Executable(steps)
    BY <1>1 DEF WhileRunning
  <2> QED BY <2>1, <2>2, <1>7, RunnerAssumption DEF Told
<1>16. WhileRunning(steps, n)
  BY <1>7, <1>12, <1>13, <1>14, <1>1 DEF WhileRunning
<1> QED BY <1>6, <1>7, <1>10, <1>15, <1>16, <1>1 DEF Sane

(* A set of numbers has a least one.                                        *)
LEMMA LeastNumber ==
  ASSUME NEW S \in SUBSET Nat, S # {}
  PROVE  \E x \in S : \A y \in S : x <= y
<1> DEFINE R == OpToRel(<, Nat)
<1>1. IsWellFoundedOn(R, Nat)
  BY NatLessThanWellFounded
<1>2. \A x, y \in Nat : x < y => <<x, y>> \in R
  BY DEF OpToRel
<1> HIDE DEF R
<1>3. PICK x \in S : \A y \in S : <<y, x>> \notin R
  BY <1>1, WFMin
<1>4. \A y \in S : ~(y < x)
  BY <1>2, <1>3
<1>5. \A y \in S : x <= y
  BY <1>4
<1> QED BY <1>5

(* What dfs() looks at while it orders the steps.                           *)
LEMMA Looking ==
  ASSUME file \in Files, NEW r, Sane(file, r), r.st = "ordering"
  PROVE  /\ r \in ProcRecords /\ r.wf \in DOMAIN file
         /\ WhileOrdering(file[r.wf], r) /\ Told(file, r)
         /\ r.path # <<>> => Len(r.path) \in DOMAIN r.path /\ Last(r.path) = r.path[Len(r.path)]
                             /\ Last(r.path) \in Ids(file[r.wf]) \ Placed(r)
         /\ Open(r) # {} => /\ Wanted(r) \notin Placed(r)
                            /\ r.path = <<>> => Wanted(r) \in Ids(file[r.wf])
                            /\ r.path # <<>> => Wanted(r) \in DepsOf(file[r.wf], Last(r.path))
         /\ Open(r) = {} => /\ r.path = <<>> => Ids(file[r.wf]) \subseteq Placed(r)
                            /\ r.path # <<>> => DepsOf(file[r.wf], Last(r.path)) \subseteq Placed(r)
<1> DEFINE steps == file[r.wf]
<1>1. r \in ProcRecords /\ r.wf \in DOMAIN file /\ WhileOrdering(steps, r) /\ Told(file, r)
  BY DEF Sane
<1>2. r.path \in Seq(STRING) /\ DOMAIN r.path = 1..Len(r.path) /\ Len(r.path) \in Nat
  BY <1>1, ProcFields
<1>3. steps \in Seq(Steps) /\ DOMAIN steps = 1..Len(steps) /\ Len(steps) \in Nat
  BY <1>1, StepsOfFile
<1>4. ASSUME r.path # <<>>
      PROVE  /\ Len(r.path) \in DOMAIN r.path /\ Last(r.path) = r.path[Len(r.path)]
             /\ Last(r.path) \in Ids(steps) \ Placed(r)
             /\ StepOf(steps, Last(r.path)).deps \in Seq(STRING)
  <2>1. Len(r.path) \in DOMAIN r.path /\ Last(r.path) = r.path[Len(r.path)]
    BY <1>2, <1>4 DEF Last
  <2>2. Last(r.path) \in Ids(steps) \ Placed(r)
    BY <2>1, <1>1 DEF WhileOrdering, Chain
  <2>3. StepOf(steps, Last(r.path)) \in Steps
    BY <2>2, <1>1, StepsOfFile
  <2> QED BY <2>1, <2>2, <2>3 DEF Steps
<1>5. PICK a : a = Asked(r)
  OBVIOUS
<1>6. CASE r.path = <<>>
  <2>1. a = [i \in DOMAIN steps |-> steps[i].id]
    BY <1>5, <1>6 DEF Asked
  <2>2. DOMAIN a \subseteq Nat /\ \A i \in DOMAIN a : a[i] \in Ids(steps)
    BY <2>1, <1>3 DEF Ids
  <2>3. \A id \in Ids(steps) : \E i \in DOMAIN a : a[i] = id
    BY <2>1 DEF Ids
  <2>4. Open(r) = {i \in DOMAIN a : a[i] \notin Placed(r)}
    BY <1>5 DEF Open
  <2>5. ASSUME Open(r) # {} PROVE Wanted(r) \in Ids(steps) \ Placed(r)
    <3>1. \E i \in Open(r) : \A j \in Open(r) : i <= j
      BY <2>5, <2>2, <2>4, LeastNumber
    <3>2. PICK i \in Open(r) : i = CHOOSE k \in Open(r) : \A j \in Open(r) : k <= j
      BY <3>1
    <3>3. Wanted(r) = a[i]
      BY <3>2, <1>5 DEF Wanted
    <3> QED BY <3>2, <3>3, <2>2, <2>4
  <2>6. Open(r) = {} => Ids(steps) \subseteq Placed(r)
    BY <2>3, <2>4
  <2> QED BY <1>1, <1>6, <2>5, <2>6
<1>7. CASE r.path # <<>>
  <2>1. a = StepOf(steps, Last(r.path)).deps /\ a \in Seq(STRING)
    BY <1>5, <1>7, <1>4 DEF Asked
  <2>2. DOMAIN a \subseteq Nat /\ \A i \in DOMAIN a : a[i] \in DepsOf(steps, Last(r.path))
    BY <2>1 DEF DepsOf, ToSet
  <2>3. \A d \in DepsOf(steps, Last(r.path)) : \E i \in DOMAIN a : a[i] = d
    BY <2>1 DEF DepsOf, ToSet
  <2>4. Open(r) = {i \in DOMAIN a : a[i] \notin Placed(r)}
    BY <1>5 DEF Open
  <2>5. ASSUME Open(r) # {} PROVE Wanted(r) \in DepsOf(steps, Last(r.path)) \ Placed(r)
    <3>1. \E i \in Open(r) : \A j \in Open(r) : i <= j
      BY <2>5, <2>2, <2>4, LeastNumber
    <3>2. PICK i \in Open(r) : i = CHOOSE k \in Open(r) : \A j \in Open(r) : k <= j
      BY <3>1
    <3>3. Wanted(r) = a[i]
      BY <3>2, <1>5 DEF Wanted
    <3> QED BY <3>2, <3>3, <2>2, <2>4
  <2>6. Open(r) = {} => DepsOf(steps, Last(r.path)) \subseteq Placed(r)
    BY <2>3, <2>4
  <2> QED BY <1>1, <1>4, <1>7, <2>5, <2>6
<1> QED BY <1>6, <1>7

(* dfs() calls itself for a step that is not in the order and not open.     *)
LEMMA DescendSane ==
  ASSUME file \in Files, NEW r, Sane(file, r), r.st = "ordering", Open(r) # {},
         Wanted(r) \in Ids(file[r.wf]) \ ToSet(r.path), NEW n, n = [r EXCEPT !.path = Append(@, Wanted(r))]
  PROVE  Sane(file, n)
<1> DEFINE steps == file[r.wf]
<1>1. r \in ProcRecords /\ r.wf \in DOMAIN file /\ WhileOrdering(steps, r) /\ Told(file, r)
      /\ r.status = None /\ r.exit = None
  BY Looking DEF Sane
<1>2. r.path \in Seq(STRING) /\ DOMAIN r.path = 1..Len(r.path) /\ Len(r.path) \in Nat
  BY <1>1, ProcFields
<1>3. PICK w \in STRING : w = Wanted(r)
  <2>1. \A id \in Ids(steps) : id \in STRING
    BY <1>1, StepsOfFile DEF Steps
  <2> QED BY <2>1
<1>4. PICK path \in Seq(STRING) :
        /\ path = Append(r.path, w) /\ Len(path) = Len(r.path) + 1 /\ DOMAIN path = 1..(Len(r.path) + 1)
        /\ path[Len(r.path) + 1] = w /\ \A k \in 1..Len(r.path) : path[k] = r.path[k]
  <2>1. PICK s \in Seq(STRING) : s = r.path
    BY <1>2
  <2>2. PICK path \in Seq(STRING) : path = Append(s, w)
    <3>1. Append(s, w) \in Seq(STRING)
      BY <2>1, AppendProperties
    <3> QED BY <3>1
  <2>3. Len(path) = Len(s) + 1 /\ path[Len(s) + 1] = w /\ \A k \in 1..Len(s) : path[k] = s[k]
    BY <2>2, AppendProperties
  <2>4. DOMAIN path = 1..Len(path)
    BY <2>2
  <2> QED BY <2>1, <2>2, <2>3, <2>4
<1>5. /\ n \in ProcRecords /\ n.path = path /\ n.st = "ordering" /\ n.wf = r.wf /\ n.todo = r.todo
      /\ n.res = r.res /\ n.busy = r.busy /\ n.status = None /\ n.exit = None
  BY <1>1, <1>3, <1>4 DEF ProcRecords
<1>6. Placed(n) = Placed(r)
  BY <1>5 DEF Placed
<1>7. w \in Ids(steps) \ Placed(r) /\ \A k \in DOMAIN r.path : r.path[k] # w
  BY <1>3, Looking DEF ToSet
<1>8. Chain(steps, n)
  <2>1. Chain(steps, r)
    BY <1>1 DEF WhileOrdering
  <2>2. \A k \in DOMAIN path : path[k] \in Ids(steps) \ Placed(n)
    <3> TAKE k \in DOMAIN path
    <3>1. CASE k = Len(r.path) + 1
      BY <3>1, <1>4, <1>6, <1>7
    <3>2. CASE k # Len(r.path) + 1
      <4>1. k \in DOMAIN r.path /\ path[k] = r.path[k]
        BY <3>2, <1>2, <1>4
      <4> QED BY <4>1, <2>1, <1>6 DEF Chain
    <3> QED BY <3>1, <3>2
  <2>3. \A j, k \in DOMAIN path : path[j] = path[k] => j = k
    <3> TAKE j, k \in DOMAIN path
    <3>1. \A i \in DOMAIN path : i = Len(r.path) + 1 \/ (i \in DOMAIN r.path /\ path[i] = r.path[i])
      BY <1>2, <1>4
    <3> QED BY <3>1, <2>1, <1>4, <1>7 DEF Chain
  <2>4. \A k \in 1..(Len(path) - 1) : path[k + 1] \in DepsOf(steps, path[k])
    <3> TAKE k \in 1..(Len(path) - 1)
    <3>1. CASE k = Len(r.path)
      <4>1. r.path # <<>> /\ path[k + 1] = w /\ path[k] = r.path[Len(r.path)]
        BY <3>1, <1>2, <1>4
      <4>2. path[k] = Last(r.path)
        BY <4>1, Looking
      <4> QED BY <4>1, <4>2, <1>3, Looking
    <3>2. CASE k # Len(r.path)
      <4>1. k \in 1..(Len(r.path) - 1) /\ path[k] = r.path[k] /\ path[k + 1] = r.path[k + 1]
        BY <3>2, <1>2, <1>4
      <4> QED BY <4>1, <2>1 DEF Chain
    <3> QED BY <3>1, <3>2
  <2> QED BY <2>2, <2>3, <2>4, <1>5 DEF Chain
<1>9. InOrder(steps, n)
  <2>1. InOrder(steps, r)
    BY <1>1 DEF WhileOrdering
  <2> QED BY <2>1, <1>5 DEF InOrder
<1>10. Told(file, n)
  BY <1>1, <1>5, RunnerAssumption DEF Told
<1> QED BY <1>1, <1>5, <1>8, <1>9, <1>10 DEF Sane, WhileOrdering

(* dfs() raises only for a cycle or an unknown name: the open calls from    *)
(* the one it came back to are steps that wait for one another.             *)
LEMMA RefuseSane ==
  ASSUME file \in Files, NEW r, Sane(file, r), r.st = "ordering", Open(r) # {},
         Wanted(r) \notin Ids(file[r.wf]) \ ToSet(r.path),
         NEW n, n = [r EXCEPT !.st = "exited", !.exit = 1]
  PROVE  Sane(file, n)
<1> DEFINE steps == file[r.wf]
<1>1. r \in ProcRecords /\ r.wf \in DOMAIN file /\ WhileOrdering(steps, r) /\ Told(file, r)
      /\ r.status = None /\ r.exit = None
  BY Looking DEF Sane
<1>2. r.path \in Seq(STRING) /\ DOMAIN r.path = 1..Len(r.path) /\ Len(r.path) \in Nat
  BY <1>1, ProcFields
<1>3. r.path # <<>>
  <2>1. ASSUME r.path = <<>> PROVE FALSE
    <3>1. Wanted(r) \in Ids(steps)
      BY <2>1, Looking
    <3>2. ToSet(r.path) = {}
      BY <2>1 DEF ToSet
    <3> QED BY <3>1, <3>2
  <2> QED BY <2>1
<1>4. /\ Wanted(r) \in DepsOf(steps, Last(r.path)) /\ Last(r.path) \in Ids(steps)
      /\ Len(r.path) \in DOMAIN r.path /\ Last(r.path) = r.path[Len(r.path)]
  BY <1>3, Looking
<1>5. ~Executable(steps)
  <2>1. CASE Wanted(r) \notin Ids(steps)
    BY <2>1, <1>4 DEF Executable, AllKnown
  <2>2. CASE Wanted(r) \in ToSet(r.path)
    <3>1. PICK m \in DOMAIN r.path : r.path[m] = Wanted(r)
      BY <2>2 DEF ToSet
    <3>2. PICK S : S = {r.path[k] : k \in m..Len(r.path)}
      OBVIOUS
    <3>3. \A k \in m..Len(r.path) : k \in DOMAIN r.path
      BY <1>2, <3>1
    <3>4. Chain(steps, r)
      BY <1>1 DEF WhileOrdering
    <3>5. S \in SUBSET Ids(steps) /\ S # {}
      <4>1. m \in m..Len(r.path)
        BY <1>2, <3>1
      <4>2. \A k \in m..Len(r.path) : r.path[k] \in Ids(steps)
        BY <3>3, <3>4 DEF Chain
      <4> QED BY <4>1, <4>2, <3>2
    <3>6. ASSUME NEW id \in S PROVE DepsOf(steps, id) \cap S # {}
      <4>1. PICK k \in m..Len(r.path) : id = r.path[k]
        BY <3>6, <3>2
      <4>2. CASE k = Len(r.path)
        <5>1. r.path[m] \in DepsOf(steps, id) /\ m \in m..Len(r.path)
          BY <4>1, <4>2, <1>2, <1>4, <3>1
        <5> QED BY <5>1, <3>2
      <4>3. CASE k # Len(r.path)
        <5>1. k \in 1..(Len(r.path) - 1) /\ k + 1 \in m..Len(r.path)
          BY <4>1, <4>3, <1>2, <3>1
        <5>2. r.path[k + 1] \in DepsOf(steps, id)
          BY <5>1, <4>1, <3>4 DEF Chain
        <5> QED BY <5>1, <5>2, <3>2
      <4> QED BY <4>2, <4>3
    <3> QED BY <3>5, <3>6 DEF Executable, Acyclic
  <2> QED BY <2>1, <2>2
<1>6. /\ n \in ProcRecords /\ n.st = "exited" /\ n.wf = r.wf /\ n.res = r.res /\ n.status = None /\ n.exit = 1
  BY <1>1 DEF ProcRecords
<1>7. n.res = <<>> /\ DOMAIN n.res = {}
  BY <1>1, <1>6 DEF WhileOrdering
<1>8. Told(file, n)
  BY <1>5, <1>6, <1>7, RunnerAssumption DEF Told
<1> QED BY <1>6, <1>8 DEF Sane

(* dfs() returns: what the step depends on is in the order before it.       *)
LEMMA PlaceSane ==
  ASSUME file \in Files, NEW r, Sane(file, r), r.st = "ordering", Open(r) = {}, r.path # <<>>,
         NEW n, n = [r EXCEPT !.path = Front(@), !.todo = Append(@, StepOf(file[r.wf], Last(r.path)))]
  PROVE  Sane(file, n)
<1> DEFINE steps == file[r.wf]
<1>1. r \in ProcRecords /\ r.wf \in DOMAIN file /\ WhileOrdering(steps, r) /\ Told(file, r)
      /\ r.status = None /\ r.exit = None
  BY Looking DEF Sane
<1>2. /\ r.path \in Seq(STRING) /\ DOMAIN r.path = 1..Len(r.path) /\ Len(r.path) \in Nat
      /\ r.todo \in Seq(Steps) /\ DOMAIN r.todo = 1..Len(r.todo) /\ Len(r.todo) \in Nat
  BY <1>1, ProcFields
<1>3. /\ Len(r.path) \in DOMAIN r.path /\ Last(r.path) = r.path[Len(r.path)]
      /\ Last(r.path) \in Ids(steps) \ Placed(r) /\ DepsOf(steps, Last(r.path)) \subseteq Placed(r)
  BY Looking
<1>4. PICK k \in DOMAIN steps : StepOf(steps, Last(r.path)) = steps[k] /\ steps[k].id = Last(r.path)
  BY <1>1, <1>3, StepsOfFile
<1>5. PICK step \in Steps : step = steps[k]
  BY <1>1, StepsOfFile
<1>6. PICK todo \in Seq(Steps) :
        /\ todo = Append(r.todo, step) /\ DOMAIN todo = 1..(Len(r.todo) + 1) /\ todo[Len(r.todo) + 1] = step
        /\ \A i \in 1..Len(r.todo) : todo[i] = r.todo[i]
  <2>1. PICK s \in Seq(Steps) : s = r.todo
    BY <1>2
  <2>2. PICK todo \in Seq(Steps) : todo = Append(s, step)
    <3>1. Append(s, step) \in Seq(Steps)
      BY <2>1, AppendProperties
    <3> QED BY <3>1
  <2>3. Len(todo) = Len(s) + 1 /\ todo[Len(s) + 1] = step /\ \A i \in 1..Len(s) : todo[i] = s[i]
    BY <2>2, AppendProperties
  <2>4. DOMAIN todo = 1..Len(todo)
    BY <2>2
  <2> QED BY <2>1, <2>2, <2>3, <2>4
<1>7. PICK path \in Seq(STRING) :
        /\ path = Front(r.path) /\ Len(path) = Len(r.path) - 1 /\ DOMAIN path = 1..(Len(r.path) - 1)
        /\ \A i \in DOMAIN path : path[i] = r.path[i] /\ i \in DOMAIN r.path /\ i # Len(r.path)
  <2>1. PICK s \in Seq(STRING), m \in Nat : s = r.path /\ m = Len(s) - 1 /\ Len(s) = m + 1
    BY <1>2, <1>3
  <2>2. \A i \in 1..m : s[i] \in STRING
    BY <2>1
  <2>3. PICK path : path = SubSeq(s, 1, m)
    OBVIOUS
  <2>4. /\ path \in Seq(STRING) /\ Len(path) = IF 1 <= m THEN m - 1 + 1 ELSE 0
        /\ \A i \in 1..(m - 1 + 1) : path[i] = s[1 + i - 1]
    BY <2>1, <2>2, <2>3, SubSeqProperties
  <2>5. Len(path) = m /\ \A i \in 1..m : path[i] = s[i]
    BY <2>4
  <2>6. DOMAIN path = 1..Len(path)
    BY <2>4
  <2>7. path = Front(r.path)
    BY <2>1, <2>3 DEF Front
  <2> QED BY <2>1, <2>4, <2>5, <2>6, <2>7
<1>8. /\ n \in ProcRecords /\ n.path = path /\ n.todo = todo /\ n.st = "ordering" /\ n.wf = r.wf
      /\ n.res = r.res /\ n.busy = r.busy /\ n.status = None /\ n.exit = None
  <2>1. n = [r EXCEPT !.path = path, !.todo = todo]
    BY <1>4, <1>5, <1>6, <1>7
  <2> QED BY <2>1, <1>1 DEF ProcRecords
<1>9. \A i \in DOMAIN todo : \/ i \in DOMAIN r.todo /\ todo[i] = r.todo[i]
                             \/ i = Len(r.todo) + 1 /\ todo[i] = step
  BY <1>2, <1>6
<1>10. Placed(n) = Placed(r) \cup {step.id}
  <2>1. \A i \in DOMAIN r.todo : i \in DOMAIN todo
    BY <1>2, <1>6
  <2>2. Len(r.todo) + 1 \in DOMAIN todo
    BY <1>2, <1>6
  <2> QED BY <2>1, <2>2, <1>2, <1>6, <1>8, <1>9 DEF Placed
<1>11. step.id = Last(r.path) /\ step.id \notin Placed(r)
  BY <1>3, <1>4, <1>5
<1>12. InOrder(steps, r) /\ Chain(steps, r) /\ r.res = <<>> /\ DOMAIN r.res = {}
  BY <1>1 DEF WhileOrdering
<1>13. InOrder(steps, n)
  <2>1. \A i \in DOMAIN todo : \E j \in DOMAIN steps : todo[i] = steps[j]
    BY <1>5, <1>9, <1>12 DEF InOrder
  <2>2. \A i, j \in DOMAIN todo : todo[i].id = todo[j].id => i = j
    <3>1. \A i \in DOMAIN r.todo : r.todo[i].id # step.id
      BY <1>11 DEF Placed
    <3> QED BY <3>1, <1>9, <1>12 DEF InOrder
  <2>3. ASSUME NEW i \in DOMAIN todo, NEW d \in ToSet(todo[i].deps)
        PROVE  \E j \in 1..(i - 1) : todo[j].id = d
    <3>1. CASE i \in DOMAIN r.todo
      <4>5. todo[i] = r.todo[i]
        BY <3>1, <1>2, <1>6
      <4>1. PICK j \in 1..(i - 1) : r.todo[j].id = d
        <5>1. d \in ToSet(r.todo[i].deps)
          BY <2>3, <4>5
        <5>2. d \in DOMAIN r.res \/ \E j \in 1..(i - 1) : r.todo[j].id = d
          BY <3>1, <5>1, <1>12 DEF InOrder
        <5> QED BY <5>2, <1>12
      <4>2. j \in 1..Len(r.todo)
        BY <3>1, <1>2
      <4> QED BY <4>1, <4>2, <1>6
    <3>2. CASE i = Len(r.todo) + 1
      <4>1. todo[i] = step
        BY <3>2, <1>6
      <4>2. d \in Placed(r)
        BY <2>3, <4>1, <1>3, <1>4, <1>5 DEF DepsOf
      <4>3. PICK j \in DOMAIN r.todo : r.todo[j].id = d
        BY <4>2 DEF Placed
      <4>4. j \in 1..(i - 1) /\ todo[j] = r.todo[j]
        BY <3>2, <4>3, <1>2, <1>6
      <4> QED BY <4>3, <4>4
    <3> QED BY <3>1, <3>2, <1>9
  <2>4. \A i \in DOMAIN n.todo : \A d \in ToSet(n.todo[i].deps) :
          d \in DOMAIN n.res \/ \E j \in 1..(i - 1) : n.todo[j].id = d
    <3>1. n.todo = todo
      BY <1>8
    <3>2. ASSUME NEW i \in DOMAIN n.todo, NEW d \in ToSet(n.todo[i].deps)
          PROVE  \E j \in 1..(i - 1) : n.todo[j].id = d
      <4>1. i \in DOMAIN todo /\ d \in ToSet(todo[i].deps)
        BY <3>1, <3>2
      <4>2. PICK j \in 1..(i - 1) : todo[j].id = d
        BY <4>1, <2>3
      <4> QED BY <4>2, <3>1
    <3> QED BY <3>2
  <2> QED BY <2>1, <2>2, <2>4, <1>8 DEF InOrder
<1>14. Chain(steps, n)
  <2>1. \A i \in DOMAIN path : path[i] \in Ids(steps) \ Placed(n)
    <3>1. \A i \in DOMAIN path : path[i] \in Ids(steps) \ Placed(r) /\ path[i] # Last(r.path)
      BY <1>3, <1>7, <1>12 DEF Chain
    <3> QED BY <3>1, <1>10, <1>11
  <2>2. \A i, j \in DOMAIN path : path[i] = path[j] => i = j
    BY <1>7, <1>12 DEF Chain
  <2>3. \A i \in 1..(Len(path) - 1) : path[i + 1] \in DepsOf(steps, path[i])
    <3> TAKE i \in 1..(Len(path) - 1)
    <3>1. i \in DOMAIN path /\ i + 1 \in DOMAIN path /\ i \in 1..(Len(r.path) - 1)
      BY <1>2, <1>7
    <3> QED BY <3>1, <1>7, <1>12 DEF Chain
  <2> QED BY <2>1, <2>2, <2>3, <1>8 DEF Chain
<1>15. Told(file, n)
  BY <1>1, <1>8, RunnerAssumption DEF Told
<1> QED BY <1>1, <1>8, <1>12, <1>13, <1>14, <1>15 DEF Sane, WhileOrdering

(* resolve_order() returns an order only if there is one: the first step of *)
(* a set in that order waits for none of the set.                           *)
LEMMA ExecuteSane ==
  ASSUME file \in Files, NEW r, Sane(file, r), r.st = "ordering", Open(r) = {}, r.path = <<>>,
         NEW n, n = [r EXCEPT !.st = "running"]
  PROVE  Sane(file, n)
<1> DEFINE steps == file[r.wf]
<1>1. r \in ProcRecords /\ r.wf \in DOMAIN file /\ WhileOrdering(steps, r) /\ Told(file, r)
      /\ r.status = None /\ r.exit = None
  BY Looking DEF Sane
<1>2. r.todo \in Seq(Steps) /\ DOMAIN r.todo = 1..Len(r.todo) /\ Len(r.todo) \in Nat
  BY <1>1, ProcFields
<1>3. Ids(steps) \subseteq Placed(r)
  BY Looking
<1>4. InOrder(steps, r) /\ r.res = <<>> /\ DOMAIN r.res = {}
  BY <1>1 DEF WhileOrdering
<1>5. ASSUME NEW i \in DOMAIN r.todo
      PROVE  /\ r.todo[i].id \in Ids(steps) /\ DepsOf(steps, r.todo[i].id) = ToSet(r.todo[i].deps)
  <2>1. PICK k \in DOMAIN steps : r.todo[i] = steps[k]
    BY <1>4, <1>5 DEF InOrder
  <2> QED BY <2>1, <1>1, StepsOfFile DEF DepsOf
<1>6. ASSUME NEW i \in DOMAIN r.todo, NEW d \in DepsOf(steps, r.todo[i].id)
      PROVE  \E j \in 1..(i - 1) : j \in DOMAIN r.todo /\ r.todo[j].id = d
  <2>1. PICK j \in 1..(i - 1) : r.todo[j].id = d
    <3>1. d \in ToSet(r.todo[i].deps)
      BY <1>5, <1>6
    <3>2. d \in DOMAIN r.res \/ \E j \in 1..(i - 1) : r.todo[j].id = d
      BY <3>1, <1>4, <1>6 DEF InOrder
    <3> QED BY <3>2, <1>4
  <2>2. j \in DOMAIN r.todo
    BY <1>2
  <2> QED BY <2>1, <2>2
<1>7. AllKnown(steps)
  <2>1. ASSUME NEW id \in Ids(steps), NEW d \in DepsOf(steps, id) PROVE d \in Ids(steps)
    <3>1. PICK i \in DOMAIN r.todo : r.todo[i].id = id
      BY <1>3 DEF Placed
    <3>2. PICK j \in DOMAIN r.todo : r.todo[j].id = d
      BY <3>1, <2>1, <1>6
    <3> QED BY <3>2, <1>5
  <2> QED BY <2>1 DEF AllKnown
<1>8. Acyclic(steps)
  <2>1. ASSUME NEW S \in SUBSET Ids(steps), S # {} PROVE \E id \in S : DepsOf(steps, id) \cap S = {}
    <3>1. PICK I : I = {i \in DOMAIN r.todo : r.todo[i].id \in S}
      OBVIOUS
    <3>2. I \in SUBSET Nat /\ I # {}
      <4>1. PICK id \in S : id \in Ids(steps)
        BY <2>1
      <4>2. PICK i \in DOMAIN r.todo : r.todo[i].id = id
        BY <4>1, <1>3 DEF Placed
      <4> QED BY <4>1, <4>2, <3>1, <1>2
    <3>3. PICK i \in I : \A j \in I : i <= j
      BY <3>2, LeastNumber
    <3>4. ASSUME NEW d \in DepsOf(steps, r.todo[i].id) PROVE d \notin S
      <4>1. i \in DOMAIN r.todo /\ i \in Nat
        BY <3>1, <3>2
      <4>2. PICK j \in 1..(i - 1) : j \in DOMAIN r.todo /\ r.todo[j].id = d
        BY <4>1, <3>4, <1>6
      <4>3. j \notin I
        BY <3>3, <4>1, <4>2
      <4> QED BY <4>2, <4>3, <3>1
    <3> QED BY <3>1, <3>4
  <2> QED BY <2>1 DEF Acyclic
<1>9. /\ n \in ProcRecords /\ n.st = "running" /\ n.wf = r.wf /\ n.todo = r.todo /\ n.busy = FALSE
      /\ n.res = r.res /\ n.status = None /\ n.exit = None
  BY <1>1 DEF ProcRecords, WhileOrdering
<1>10. InOrder(steps, n) /\ Placed(n) = Placed(r)
  <2>1. Placed(n) = Placed(r)
    BY <1>9 DEF Placed
  <2>2. n.todo = r.todo /\ n.res = r.res
    BY <1>9
  <2>3. InOrder(steps, r)
    BY <1>4
  <2> QED BY <2>1, <2>2, <2>3 DEF InOrder
<1>11. WhileRunning(steps, n)
  BY <1>3, <1>4, <1>7, <1>8, <1>9, <1>10 DEF WhileRunning, Executable
<1>12. Executable(steps)
  BY <1>7, <1>8 DEF Executable
<1>13. Told(file, n)
  BY <1>1, <1>4, <1>9, <1>12, RunnerAssumption DEF Told
<1> QED BY <1>1, <1>9, <1>11, <1>13 DEF Sane

(* A process that ends keeps what it has recorded.                          *)
LEMMA ExitedSane ==
  ASSUME file \in Files, NEW r, Sane(file, r), r.st \in {"ordering", "running"}, NEW x \in {-9, 1},
         x = 1 => r.st = "running" /\ \E i \in DOMAIN file[r.wf] : file[r.wf][i].action = None,
         NEW n, n = [r EXCEPT !.st = "exited", !.exit = x]
  PROVE  Sane(file, n) /\ n \in ProcRecords
<1>1. r \in ProcRecords /\ r.wf \in DOMAIN file /\ Told(file, r) /\ r.status = None /\ r.exit = None
  BY DEF Sane
<1>2. /\ n \in ProcRecords /\ n.st = "exited" /\ n.wf = r.wf /\ n.res = r.res /\ n.status = None /\ n.exit = x
  BY <1>1 DEF ProcRecords
<1>3. Told(file, n)
  BY <1>1, <1>2, RunnerAssumption DEF Told
<1> QED BY <1>2, <1>3 DEF Sane

(* The status at the end is ok only if all steps of the workflow are.       *)
LEMMA FinishSane ==
  ASSUME file \in Files, NEW r, Sane(file, r), r.st = "running", r.todo = <<>>,
         NEW n, n = [r EXCEPT !.st = "exited", !.status = RunStatus(r), !.exit = 0]
  PROVE  Sane(file, n) /\ n \in ProcRecords
<1>1. r \in ProcRecords /\ r.wf \in DOMAIN file /\ Told(file, r) /\ WhileRunning(file[r.wf], r)
  BY DEF Sane
<1>2. PICK s \in {"ok", "failed"} : s = RunStatus(r) /\ (s = "ok" => ~Bad(r))
  BY DEF RunStatus, Bad
<1>3. /\ n \in ProcRecords /\ n.st = "exited" /\ n.wf = r.wf /\ n.res = r.res /\ n.status = s /\ n.exit = 0
  BY <1>1, <1>2 DEF ProcRecords
<1>4. Placed(r) = {}
  BY DEF Placed
<1>5. s = "ok" => \A i \in Ids(file[r.wf]) : Has(n, i)
  <2>1. ASSUME s = "ok", NEW i \in Ids(file[r.wf]) PROVE Has(n, i)
    <3>1. i \in DOMAIN r.res /\ r.res[i] = "ok"
      BY <2>1, <1>1, <1>2, <1>4 DEF WhileRunning, Bad
    <3> QED BY <3>1, <1>3 DEF Has
  <2> QED BY <2>1
<1>6. Executable(file[r.wf])
  BY <1>1 DEF WhileRunning
<1>7. s = "ok" => ~Bad(n)
  BY <1>2, <1>3 DEF Bad
<1>8. Told(file, n)
  <2>1. \A i \in DOMAIN n.res : n.res[i] = "skipped" =>
          \E d \in DepsOf(file[n.wf], i) : d \in DOMAIN n.res /\ n.res[d] # "ok"
    BY <1>1, <1>3 DEF Told
  <2> QED BY <2>1, <1>3, <1>5, <1>6, <1>7 DEF Told
<1> QED BY <1>3, <1>8 DEF Sane

(* Launching a command or a process changes nothing that is looked at.      *)
LEMMA BusySane ==
  ASSUME file \in Files, NEW r, Sane(file, r), r.st = "running", r.todo # <<>>,
         NEW n, n = [r EXCEPT !.busy = TRUE]
  PROVE  Sane(file, n) /\ n \in ProcRecords /\ (Bad(r) => Bad(n))
<1>1. r \in ProcRecords /\ r.wf \in DOMAIN file /\ Told(file, r) /\ WhileRunning(file[r.wf], r)
      /\ r.status = None /\ r.exit = None
  BY DEF Sane
<1>2. /\ n \in ProcRecords /\ n.st = "running" /\ n.wf = r.wf /\ n.res = r.res /\ n.todo = r.todo
      /\ n.status = None /\ n.exit = None
  BY <1>1 DEF ProcRecords
<1>3. InOrder(file[r.wf], n) /\ Placed(n) = Placed(r)
  <2>1. InOrder(file[r.wf], r)
    BY <1>1 DEF WhileRunning
  <2> QED BY <2>1, <1>2 DEF InOrder, Placed
<1>4. Bad(n) <=> Bad(r)
  BY <1>2 DEF Bad
<1>5. WhileRunning(file[r.wf], n)
  BY <1>1, <1>2, <1>3, <1>4 DEF WhileRunning
<1>6. Told(file, n)
  BY <1>1, <1>2, RunnerAssumption DEF Told
<1> QED BY <1>1, <1>2, <1>4, <1>5, <1>6 DEF Sane

(* The processes a process starts.                                          *)
LEMMA ChildApart == ASSUME NEW p \in Procs PROVE Len(Child(p)) # 1 /\ Child(p) # p /\ Len(p) \in Nat
<1>1. PICK d \in 0..MaxDepth : p \in {<<t>> \o [i \in 1..d |-> 1] : t \in Tops}
  BY DEF Procs
<1>2. PICK t \in Tops : p = <<t>> \o [i \in 1..d |-> 1]
  BY <1>1
<1>3. d \in Nat
  BY RunnerAssumption
<1>4. PICK S : S = Tops \cup {1}
  OBVIOUS
<1>5. PICK a \in Seq(S) : a = <<t>> /\ Len(a) = 1
  <2>1. t \in S
    BY <1>4
  <2>2. <<t>> \in Seq(S) /\ Len(<<t>>) = 1
    BY <2>1
  <2> QED BY <2>2, Zenon
<1>6. PICK b \in Seq(S) : b = [i \in 1..d |-> 1] /\ Len(b) = d
  <2>1. [i \in 1..d |-> 1] \in [1..d -> S]
    BY <1>4
  <2>2. [i \in 1..d |-> 1] \in Seq(S) /\ Len([i \in 1..d |-> 1]) = d
    BY <2>1, <1>3
  <2> QED BY <2>2, Zenon
<1>7. p \in Seq(S) /\ Len(p) = 1 + d
  BY <1>2, <1>5, <1>6, ConcatProperties
<1>8. Len(Child(p)) = Len(p) + 1
  BY <1>4, <1>7, AppendProperties DEF Child
<1> QED BY <1>3, <1>7, <1>8

(* A step after which each process is sane, and each one a user started     *)
(* that left a command running has something that is not ok.                *)
LEMMA ProcsKept ==
  ASSUME RunnerInv, file' = file, proc' \in [Procs -> ProcRecords], \A q \in Procs : Sane(file, proc'[q]),
         \A q \in Procs : Len(q) = 1 /\ Bad(proc[q]) => Bad(proc'[q]),
         \A o \in orphans' : o \in orphans \/ \A q \in Procs : o[1] = q /\ Len(q) = 1 => Bad(proc'[q])
  PROVE  RunnerInv'
<1>1. \A o \in orphans' : \A q \in Procs : o[1] = q /\ Len(q) = 1 => Bad(proc'[q])
  BY DEF RunnerInv
<1> QED BY <1>1 DEF RunnerInv

(* One process takes a step.                                                *)
LEMMA ProcSet ==
  ASSUME RunnerInv, file' = file, NEW p \in Procs, NEW n, Sane(file, n),
         proc' = [proc EXCEPT ![p] = n], Bad(proc[p]) => Bad(n),
         \A o \in orphans' : o \in orphans \/ (Bad(n) /\ o[1] = p)
  PROVE  RunnerInv'
<1>1. n \in ProcRecords /\ proc \in [Procs -> ProcRecords]
  BY DEF Sane, RunnerInv
<1>2. proc'[p] = n /\ \A q \in Procs : q # p => proc'[q] = proc[q]
  BY <1>1
<1>3. proc' \in [Procs -> ProcRecords]
  BY <1>1
<1>4. \A q \in Procs : Sane(file, proc'[q])
  BY <1>2 DEF RunnerInv
<1>5. \A q \in Procs : Bad(proc[q]) => Bad(proc'[q])
  BY <1>2
<1>6. \A o \in orphans' : o \in orphans \/ \A q \in Procs : o[1] = q => Bad(proc'[q])
  BY <1>2
<1> QED BY <1>3, <1>4, <1>5, <1>6, ProcsKept

(* A process and the one it starts take a step.                             *)
LEMMA PairSet ==
  ASSUME RunnerInv, file' = file, NEW p \in Procs, Child(p) \in Procs, NEW n, Sane(file, n), NEW c, Sane(file, c),
         proc' = [proc EXCEPT ![p] = n, ![Child(p)] = c], Bad(proc[p]) => Bad(n),
         \A o \in orphans' : o \in orphans \/ o[1] = Child(p)
  PROVE  RunnerInv'
<1>1. n \in ProcRecords /\ c \in ProcRecords /\ proc \in [Procs -> ProcRecords]
  BY DEF Sane, RunnerInv
<1>2. Child(p) # p /\ Len(Child(p)) # 1
  BY ChildApart
<1>3. PICK d \in Procs : d = Child(p)
  OBVIOUS
<1>4. proc'[p] = n /\ proc'[d] = c /\ \A q \in Procs : q # p /\ q # d => proc'[q] = proc[q]
  BY <1>1, <1>2, <1>3
<1>5. proc' \in [Procs -> ProcRecords]
  BY <1>1, <1>3
<1>6. \A q \in Procs : Sane(file, proc'[q])
  BY <1>4 DEF RunnerInv
<1>7. \A q \in Procs : Len(q) = 1 /\ Bad(proc[q]) => Bad(proc'[q])
  BY <1>2, <1>3, <1>4
<1>8. \A o \in orphans' : o \in orphans \/ \A q \in Procs : o[1] = q /\ Len(q) = 1 => Bad(proc'[q])
  BY <1>2, <1>3
<1> QED BY <1>5, <1>6, <1>7, <1>8, ProcsKept

(* A running process records the status of its current step.                *)
LEMMA RecordStep ==
  ASSUME RunnerInv, NEW p \in Procs, proc[p].st = "running", proc[p].todo # <<>>, NEW s \in Statuses,
         s = "skipped" => Blocked(proc[p]), proc' = [proc EXCEPT ![p] = Recorded(@, s)],
         file' = file, \A o \in orphans' : o \in orphans \/ (s # "ok" /\ o[1] = p)
  PROVE  RunnerInv'
<1>1. Sane(file, proc[p]) /\ file \in Files
  BY DEF RunnerInv
<1>2. PICK n : n = Recorded(proc[p], s)
  OBVIOUS
<1>3. Sane(file, n) /\ (Bad(proc[p]) \/ s # "ok" => Bad(n))
  BY <1>1, <1>2, RecordedSane
<1>4. proc' = [proc EXCEPT ![p] = n]
  BY <1>2
<1> QED BY <1>3, <1>4, ProcSet

(* At the start there are no processes.                                     *)
LEMMA RunnerStart == ASSUME RunnerInit PROVE RunnerInv
<1>1. file \in Files /\ orphans = {} /\ proc = [p \in Procs |-> Idle]
  BY DEF RunnerInit
<1>2. None \in RunNames
  BY DEF RunNames
<1>3. Sane(file, Idle)
  BY <1>1, <1>2, StartedSane
<1>4. Idle \in ProcRecords
  BY <1>3 DEF Sane
<1> QED BY <1>1, <1>3, <1>4 DEF RunnerInv

(* Every step of the runner keeps the invariant.                            *)
LEMMA RunnerStep == ASSUME RunnerInv, [RunnerNext]_runnerVars PROVE RunnerInv'
<1>1. file \in Files /\ proc \in [Procs -> ProcRecords] /\ \A p \in Procs : Sane(file, proc[p])
  BY DEF RunnerInv
<1>2. ASSUME NEW t \in Tops, NEW n \in DOMAIN file \cup {None}, Start(t, n) PROVE RunnerInv'
  <2>1. n \in RunNames
    BY <1>1 DEF RunNames
  <2>2. Sane(file, Started(n))
    BY <1>1, <2>1, StartedSane
  <2>3. <<t>> \in Procs
    <3>1. PICK e : e = [i \in 1..0 |-> 1]
      OBVIOUS
    <3>2. e = <<>> /\ <<t>> \o e = <<t>>
      BY <3>1
    <3>3. 0 \in 0..MaxDepth
      BY RunnerAssumption
    <3> QED BY <3>1, <3>2, <3>3 DEF Procs
  <2>4. ~Bad(proc[<<t>>])
    BY <1>2, <1>1, <2>3 DEF Start, Sane, Idle, Bad
  <2>5. proc' = [proc EXCEPT ![<<t>>] = Started(n)] /\ file' = file /\ orphans' = orphans
    BY <1>2 DEF Start
  <2> QED BY <2>2, <2>3, <2>4, <2>5, ProcSet
<1>3. ASSUME NEW p \in Procs, Descend(p) PROVE RunnerInv'
  <2>1. PICK n : n = [proc[p] EXCEPT !.path = Append(@, Wanted(proc[p]))]
    OBVIOUS
  <2>2. Sane(file, n)
    BY <1>1, <1>3, <2>1, DescendSane DEF Descend
  <2>3. proc' = [proc EXCEPT ![p] = n] /\ file' = file /\ orphans' = orphans
    BY <1>3, <2>1 DEF Descend
  <2>4. Bad(proc[p]) => Bad(n)
    BY <1>1, <1>3 DEF Descend, Sane, WhileOrdering, Bad
  <2> QED BY <2>2, <2>3, <2>4, ProcSet
<1>4. ASSUME NEW p \in Procs, Refuse(p) PROVE RunnerInv'
  <2>1. PICK n : n = [proc[p] EXCEPT !.st = "exited", !.exit = 1]
    OBVIOUS
  <2>2. Sane(file, n)
    BY <1>1, <1>4, <2>1, RefuseSane DEF Refuse
  <2>3. proc' = [proc EXCEPT ![p] = n] /\ file' = file /\ orphans' = orphans
    BY <1>4, <2>1 DEF Refuse
  <2>4. Bad(proc[p]) => Bad(n)
    BY <1>1, <1>4 DEF Refuse, Sane, WhileOrdering, Bad
  <2> QED BY <2>2, <2>3, <2>4, ProcSet
<1>5. ASSUME NEW p \in Procs, Place(p) PROVE RunnerInv'
  <2>1. PICK n : n = [proc[p] EXCEPT !.path = Front(@),
                                     !.todo = Append(@, StepOf(file[proc[p].wf], Last(proc[p].path)))]
    OBVIOUS
  <2>2. Sane(file, n)
    BY <1>1, <1>5, <2>1, PlaceSane DEF Place
  <2>3. proc' = [proc EXCEPT ![p] = n] /\ file' = file /\ orphans' = orphans
    BY <1>5, <2>1 DEF Place
  <2>4. Bad(proc[p]) => Bad(n)
    BY <1>1, <1>5 DEF Place, Sane, WhileOrdering, Bad
  <2> QED BY <2>2, <2>3, <2>4, ProcSet
<1>6. ASSUME NEW p \in Procs, Execute(p) PROVE RunnerInv'
  <2>1. PICK n : n = [proc[p] EXCEPT !.st = "running"]
    OBVIOUS
  <2>2. Sane(file, n)
    BY <1>1, <1>6, <2>1, ExecuteSane DEF Execute
  <2>3. proc' = [proc EXCEPT ![p] = n] /\ file' = file /\ orphans' = orphans
    BY <1>6, <2>1 DEF Execute
  <2>4. Bad(proc[p]) => Bad(n)
    BY <1>1, <1>6 DEF Execute, Sane, WhileOrdering, Bad
  <2> QED BY <2>2, <2>3, <2>4, ProcSet
<1>7. ASSUME NEW p \in Procs, Skip(p) PROVE RunnerInv'
  <2>1. "skipped" \in Statuses
    BY DEF Statuses
  <2>2. /\ proc[p].st = "running" /\ proc[p].todo # <<>> /\ Blocked(proc[p])
        /\ proc' = [proc EXCEPT ![p] = Recorded(@, "skipped")] /\ file' = file /\ orphans' = orphans
    BY <1>7 DEF Skip, Stepping
  <2> QED BY <2>1, <2>2, RecordStep
<1>8. ASSUME NEW p \in Procs, Inline(p) PROVE RunnerInv'
  <2>1. PICK s \in {"ok", "failed"} : proc' = [proc EXCEPT ![p] = Recorded(@, s)]
    BY <1>8 DEF Inline
  <2>2. s \in Statuses /\ s # "skipped"
    BY DEF Statuses
  <2>3. proc[p].st = "running" /\ proc[p].todo # <<>> /\ file' = file /\ orphans' = orphans
    BY <1>8 DEF Inline, Runnable, Stepping
  <2> QED BY <2>1, <2>2, <2>3, RecordStep
<1>9. ASSUME NEW p \in Procs, Malformed(p) PROVE RunnerInv'
  <2>1. PICK n : n = [proc[p] EXCEPT !.st = "exited", !.exit = 1]
    OBVIOUS
  <2>2. proc[p].st = "running" /\ proc[p].todo # <<>> /\ Head(proc[p].todo).action = None
    BY <1>9 DEF Malformed, Runnable, Stepping, Current
  <2>3. \E i \in DOMAIN file[proc[p].wf] : file[proc[p].wf][i].action = None
    <3>1. proc[p] \in ProcRecords /\ InOrder(file[proc[p].wf], proc[p])
      BY <1>1, <2>2 DEF Sane, WhileRunning
    <3>2. proc[p].todo \in Seq(Steps)
      BY <3>1, ProcFields
    <3>3. 1 \in DOMAIN proc[p].todo /\ Head(proc[p].todo) = proc[p].todo[1]
      BY <3>2, <2>2
    <3> QED BY <3>1, <3>3, <2>2 DEF InOrder
  <2>4. Sane(file, n)
    BY <1>1, <2>1, <2>2, <2>3, ExitedSane
  <2>5. proc' = [proc EXCEPT ![p] = n] /\ file' = file /\ orphans' = orphans
    BY <1>9, <2>1 DEF Malformed
  <2>6. Bad(proc[p]) => Bad(n)
    BY <1>1, <2>1 DEF ProcRecords, Bad
  <2> QED BY <2>4, <2>5, <2>6, ProcSet
<1>10. ASSUME NEW p \in Procs, Launch(p) PROVE RunnerInv'
  <2>1. PICK n : n = [proc[p] EXCEPT !.busy = TRUE]
    OBVIOUS
  <2>2. proc[p].st = "running" /\ proc[p].todo # <<>>
    BY <1>10 DEF Launch, Runnable, Stepping
  <2>3. Sane(file, n) /\ (Bad(proc[p]) => Bad(n))
    BY <1>1, <2>1, <2>2, BusySane
  <2>4. proc' = [proc EXCEPT ![p] = n] /\ file' = file /\ orphans' = orphans
    BY <1>10, <2>1 DEF Launch
  <2> QED BY <2>3, <2>4, ProcSet
<1>11. ASSUME NEW p \in Procs, NEW A, Busy(p, A) PROVE proc[p].st = "running" /\ proc[p].todo # <<>>
  BY <1>1, <1>11 DEF Busy, Sane, WhileRunning
<1>12. ASSUME NEW p \in Procs, CommandEnds(p) PROVE RunnerInv'
  <2>1. PICK s \in {"ok", "failed"} : proc' = [proc EXCEPT ![p] = Recorded(@, s)]
    BY <1>12 DEF CommandEnds
  <2>2. s \in Statuses /\ s # "skipped"
    BY DEF Statuses
  <2>3. proc[p].st = "running" /\ proc[p].todo # <<>> /\ file' = file /\ orphans' = orphans
    BY <1>11, <1>12 DEF CommandEnds
  <2> QED BY <2>1, <2>2, <2>3, RecordStep
<1>13. ASSUME NEW p \in Procs, Nest(p) PROVE RunnerInv'
  <2>1. PICK n : n = [proc[p] EXCEPT !.busy = TRUE]
    OBVIOUS
  <2>2. proc[p].st = "running" /\ proc[p].todo # <<>> /\ Child(p) \in Procs
    BY <1>13 DEF Nest, Runnable, Stepping
  <2>3. Sane(file, n) /\ (Bad(proc[p]) => Bad(n))
    BY <1>1, <2>1, <2>2, BusySane
  <2>4. PICK c : c = Started(Current(p).ref)
    OBVIOUS
  <2>5. Current(p).ref \in RunNames
    <3>1. proc[p].todo \in Seq(Steps)
      BY <1>1, ProcFields
    <3>2. Head(proc[p].todo) \in Steps
      BY <3>1, <2>2
    <3> QED BY <3>2 DEF Current, Steps, RunNames
  <2>6. Sane(file, c)
    BY <1>1, <2>4, <2>5, StartedSane
  <2>7. proc' = [proc EXCEPT ![p] = n, ![Child(p)] = c] /\ file' = file /\ orphans' = orphans
    <3>1. proc' = [proc EXCEPT ![p].busy = TRUE, ![Child(p)] = c]
      BY <1>13, <2>4 DEF Nest
    <3> QED BY <3>1, <2>1, <1>13 DEF Nest
  <2> QED BY <2>2, <2>3, <2>6, <2>7, PairSet
<1>14. ASSUME NEW p \in Procs, NestedEnds(p) PROVE RunnerInv'
  <2>1. PICK s \in {"ok", "failed"} : proc' = [proc EXCEPT ![p] = Recorded(@, s)]
    BY <1>14 DEF NestedEnds
  <2>2. s \in Statuses /\ s # "skipped"
    BY DEF Statuses
  <2>3. proc[p].st = "running" /\ proc[p].todo # <<>> /\ file' = file /\ orphans' = orphans
    BY <1>11, <1>14 DEF NestedEnds
  <2> QED BY <2>1, <2>2, <2>3, RecordStep
<1>15. ASSUME NEW p \in Procs, TimeOut(p) PROVE RunnerInv'
  <2>1. proc[p].st = "running" /\ proc[p].todo # <<>> /\ file' = file
    BY <1>11, <1>15 DEF TimeOut
  <2>2. PICK s \in {"failed", "timeout"} :
          s = IF Current(p).action = "conditional" THEN "failed" ELSE "timeout"
    OBVIOUS
  <2>3. s \in Statuses /\ s # "skipped" /\ s # "ok"
    BY DEF Statuses
  <2>4. \A o \in orphans' : o \in orphans \/ o \in AbandonedBy(p)
    BY <1>15 DEF TimeOut
  <2>5. CASE Current(p).action # "workflow"
    <3>1. proc' = [proc EXCEPT ![p] = Recorded(@, s)]
      BY <1>15, <2>2, <2>5 DEF TimeOut
    <3>2. \A o \in AbandonedBy(p) : o[1] = p
      BY <2>5 DEF AbandonedBy
    <3> QED BY <2>1, <2>3, <2>4, <3>1, <3>2, RecordStep
  <2>6. CASE Current(p).action = "workflow"
    <3>1. /\ Alive(Child(p))
          /\ proc' = [proc EXCEPT ![p] = Recorded(@, s), ![Child(p)].st = "exited", ![Child(p)].exit = -9]
      BY <1>15, <2>2, <2>6 DEF TimeOut
    <3>2. \A o \in AbandonedBy(p) : o[1] = Child(p)
      BY <2>6 DEF AbandonedBy
    <3>3. PICK n : n = Recorded(proc[p], s)
      OBVIOUS
    <3>4. Sane(file, n) /\ (Bad(proc[p]) => Bad(n))
      BY <1>1, <2>1, <2>3, <3>3, RecordedSane
    <3>5. CASE Child(p) \notin Procs
      <4>1. proc' = [proc EXCEPT ![p] = n]
        BY <3>1, <3>3, <3>5, <1>1
      <4>2. Bad(n)
        BY <1>1, <2>1, <2>3, <3>3, RecordedSane
      <4>3. \A q \in Procs : Sane(file, proc'[q]) /\ (Bad(proc[q]) => Bad(proc'[q]))
        BY <4>1, <3>4, <1>1
      <4>4. \A o \in orphans' : o \in orphans \/ \A q \in Procs : o[1] # q
        BY <2>4, <3>2, <3>5
      <4>5. proc' \in [Procs -> ProcRecords]
        BY <4>1, <3>4, <1>1 DEF Sane
      <4> QED BY <4>3, <4>4, <4>5, <2>1, ProcsKept
    <3>6. CASE Child(p) \in Procs
      <4>1. PICK d \in Procs : d = Child(p) /\ d # p
        BY <3>6, ChildApart
      <4>2. PICK c : c = [proc[d] EXCEPT !.st = "exited", !.exit = -9]
        OBVIOUS
      <4>3. Sane(file, c)
        <5>1. proc[d].st \in {"ordering", "running"} /\ Sane(file, proc[d])
          BY <1>1, <3>1, <4>1 DEF Alive
        <5>2. -9 \in {-9, 1} /\ -9 # 1
          OBVIOUS
        <5> QED BY <1>1, <4>2, <5>1, <5>2, ExitedSane
      <4>4. proc' = [proc EXCEPT ![p] = n, ![Child(p)] = c]
        BY <3>1, <3>3, <4>1, <4>2, <1>1
      <4> QED BY <2>1, <2>4, <3>2, <3>4, <4>3, <4>4, <3>6, PairSet
    <3> QED BY <3>5, <3>6
  <2> QED BY <2>5, <2>6
<1>16. ASSUME NEW o \in orphans, OrphanEnds(o) PROVE RunnerInv'
  <2>1. orphans' \subseteq orphans /\ proc' = proc /\ file' = file
    BY <1>16 DEF OrphanEnds
  <2> QED BY <1>1, <2>1, ProcsKept
<1>17. ASSUME NEW p \in Procs, Finish(p) PROVE RunnerInv'
  <2>1. PICK n : n = [proc[p] EXCEPT !.st = "exited", !.status = RunStatus(proc[p]), !.exit = 0]
    OBVIOUS
  <2>2. proc[p].st = "running" /\ proc[p].todo = <<>>
    BY <1>17 DEF Finish
  <2>3. Sane(file, n)
    BY <1>1, <2>1, <2>2, FinishSane
  <2>4. proc' = [proc EXCEPT ![p] = n] /\ file' = file /\ orphans' = orphans
    BY <1>17, <2>1 DEF Finish
  <2>5. Bad(proc[p]) => Bad(n)
    BY <1>1, <2>1 DEF ProcRecords, Bad
  <2> QED BY <2>3, <2>4, <2>5, ProcSet
<1>18. CASE UNCHANGED runnerVars
  <2>1. orphans' = orphans /\ proc' = proc /\ file' = file
    BY <1>18 DEF runnerVars
  <2> QED BY <1>1, <2>1, ProcsKept
<1> QED BY <1>2, <1>3, <1>4, <1>5, <1>6, <1>7, <1>8, <1>9, <1>10, <1>12, <1>13, <1>14, <1>15, <1>16, <1>17,
           <1>18 DEF RunnerNext

(* The invariant contains what RunnerSound says of each process by itself.  *)
LEMMA RunnerInvSound ==
  ASSUME RunnerInv PROVE SkippedForReason /\ RefusedIffBroken /\ OkMeansAllRan
<1>1. SkippedForReason
  BY DEF RunnerInv, Sane, Told, SkippedForReason
<1>2. RefusedIffBroken
  BY DEF RunnerInv, Sane, Told, RefusedIffBroken
<1>3. OkMeansAllRan
  BY DEF RunnerInv, Sane, Told, OkMeansAllRan
<1> QED BY <1>1, <1>2, <1>3

-----------------------------------------------------------------------------
(* The runner implements a schedule.                                        *)

(* A step that ends the run has failed.                                     *)
Halts(steps, r) ==
  \E i \in DOMAIN r.res : i \in Ids(steps) /\ StepOf(steps, i).abort /\ r.res[i] \in {"failed", "timeout"}

(* A running process has nothing left to do only when all steps have an     *)
(* outcome or one of them ended the run, and then it does have nothing left.*)
Exact(f, r) ==
  /\ r.st = "running" =>
       /\ DOMAIN r.res \subseteq Ids(f[r.wf])
       /\ Halts(f[r.wf], r) => r.todo = <<>>
       /\ Halts(f[r.wf], r) \/ Ids(f[r.wf]) \subseteq DOMAIN r.res \cup Placed(r)
  /\ r.st = "exited" /\ r.exit = 0 => r.status \in {"ok", "failed"}

ScheduleInv == RunnerInv /\ \A p \in Procs : Exact(file, proc[p])

(* A process that quits before the end of its run, and one that concludes.  *)
Quitting(r, x) == [r EXCEPT !.st = "exited", !.exit = x]
Concluding(r) == [r EXCEPT !.st = "exited", !.status = RunStatus(r), !.exit = 0]

(* The fields of a process that is seen as a run.                           *)
LEMMA RunFields ==
  ASSUME NEW f, NEW r
  PROVE  /\ r.wf \in DOMAIN f => /\ AsRun(f, r).plan = [i \in Ids(f[r.wf]) |-> DepsOf(f[r.wf], i)]
                                 /\ AsRun(f, r).final = {i \in Ids(f[r.wf]) : StepOf(f[r.wf], i).abort}
         /\ r.st = "running" => AsRun(f, r).verdict = "open"
         /\ r.st \in {"idle", "ordering"} => AsRun(f, r).verdict = "none"
         /\ r.st = "exited" => AsRun(f, r).verdict = IF r.exit = 0 THEN r.status ELSE "broken"
         /\ r.st # "running" \/ ~r.busy => AsRun(f, r).at = {}
         /\ r.st = "running" /\ r.busy => AsRun(f, r).at = {Head(r.todo).id}
         /\ AsRun(f, r).came = r.res
         /\ AsRun(f, r) = [plan |-> AsRun(f, r).plan, final |-> AsRun(f, r).final, at |-> AsRun(f, r).at,
                           came |-> AsRun(f, r).came, verdict |-> AsRun(f, r).verdict]
BY DEF AsRun

(* The first step that is left is one of the workflow, and all it depends   *)
(* on was tried.                                                            *)
LEMMA HeadStep ==
  ASSUME file \in Files, NEW r, Sane(file, r), r.st = "running", r.todo # <<>>
  PROVE  /\ Head(r.todo).id \in Ids(file[r.wf]) \ DOMAIN r.res
         /\ StepOf(file[r.wf], Head(r.todo).id) = Head(r.todo)
         /\ DepsOf(file[r.wf], Head(r.todo).id) = ToSet(Head(r.todo).deps)
         /\ ToSet(Head(r.todo).deps) \subseteq DOMAIN r.res
         /\ r.wf \in DOMAIN file
<1> DEFINE steps == file[r.wf]
<1> DEFINE h == Head(r.todo)
<1>1. r \in ProcRecords /\ r.wf \in DOMAIN file /\ WhileRunning(steps, r)
  BY DEF Sane
<1>2. h = r.todo[1] /\ 1 \in DOMAIN r.todo
  BY <1>1, ProcFields
<1>3. PICK k \in DOMAIN steps : h = steps[k]
  BY <1>1, <1>2 DEF WhileRunning, InOrder
<1>4. h.id \in Ids(steps) /\ StepOf(steps, h.id) = h
  BY <1>1, <1>3, StepsOfFile
<1>5. h.id \notin DOMAIN r.res
  BY <1>1, <1>2 DEF WhileRunning, Placed
<1>6. ASSUME NEW d \in ToSet(h.deps) PROVE d \in DOMAIN r.res
  <2>1. d \in DOMAIN r.res \/ \E j \in 1..(1 - 1) : r.todo[j].id = d
    BY <1>1, <1>2, <1>6 DEF WhileRunning, InOrder
  <2> QED BY <2>1
<1> QED BY <1>1, <1>4, <1>5, <1>6 DEF DepsOf

(* A process that is started forgets the run before.                        *)
LEMMA StartForgets ==
  ASSUME file \in Files, NEW r, Sane(file, r), Exact(file, r), r.st # "running", NEW n \in RunNames
  PROVE  Scheduled!Forget(AsRun(file, r), AsRun(file, Started(n))) /\ Exact(file, Started(n))
<1>1. PICK c : c = Started(n)
  OBVIOUS
<1>2. /\ c.st \in {"ordering", "exited"} /\ c.res = <<>> /\ c.busy = FALSE
      /\ c.st = "exited" => c.exit = 1
  BY <1>1 DEF Started, Idle
<1>3. r.st \in {"idle", "ordering", "exited"}
  BY ProcFields DEF Sane
<1>4. AsRun(file, r).verdict # "open"
  <2>1. CASE r.st # "exited"
    BY <2>1, <1>3 DEF AsRun
  <2>2. CASE r.st = "exited"
    <3>1. r.exit = 0 => r.status \in {"ok", "failed"}
      BY <2>2 DEF Exact
    <3> QED BY <2>2, <3>1 DEF AsRun
  <2> QED BY <2>1, <2>2
<1>5. AsRun(file, c).verdict \in {"none", "broken"} /\ AsRun(file, c).at = {} /\ AsRun(file, c).came = <<>>
  BY <1>2 DEF AsRun
<1>6. Exact(file, c)
  BY <1>2 DEF Exact
<1> QED BY <1>1, <1>4, <1>5, <1>6 DEF Scheduled!Forget

(* The search for the order is not seen.                                    *)
LEMMA SearchUnseen ==
  ASSUME NEW r, NEW n, r.st = "ordering", n.st = "ordering", n.wf = r.wf, n.res = r.res
  PROVE  AsRun(file, n) = AsRun(file, r) /\ Exact(file, n)
<1>1. AsRun(file, n) = AsRun(file, r)
  BY DEF AsRun
<1> QED BY <1>1 DEF Exact

(* A process that raises or is killed breaks off its run.                   *)
LEMMA ExitBreaks ==
  ASSUME file \in Files, NEW r, Sane(file, r), r.st \in {"ordering", "running"}, NEW x \in {-9, 1},
         NEW n, n = Quitting(r, x)
  PROVE  Scheduled!Break(AsRun(file, r), AsRun(file, n)) /\ Exact(file, n)
<1>1. n.st = "exited" /\ n.exit = x /\ n.wf = r.wf /\ n.res = r.res /\ x # 0
  BY DEF Sane, ProcRecords, Quitting
<1>2. PICK a, b : a = AsRun(file, r) /\ b = AsRun(file, n)
  OBVIOUS
<1>3. b.plan = a.plan /\ b.final = a.final /\ b.came = a.came /\ b.at = {} /\ b.verdict = "broken"
  BY <1>1, <1>2 DEF AsRun
<1>4. a.verdict \in {"none", "open"}
  BY <1>2, RunFields
<1>5. b = [a EXCEPT !.verdict = "broken", !.at = {}]
  <2>1. /\ a = [plan |-> a.plan, final |-> a.final, at |-> a.at, came |-> a.came, verdict |-> a.verdict]
        /\ b = [plan |-> b.plan, final |-> b.final, at |-> b.at, came |-> b.came, verdict |-> b.verdict]
    BY <1>2, RunFields
  <2> QED BY <2>1, <1>3
<1>6. Exact(file, n)
  BY <1>1 DEF Exact
<1> QED BY <1>2, <1>4, <1>5, <1>6 DEF Scheduled!Break

(* A run begins with the order of its steps: the search returns only if     *)
(* they can be ordered.                                                     *)
LEMMA ExecuteBegins ==
  ASSUME file \in Files, NEW r, Sane(file, r), r.st = "ordering", Open(r) = {}, r.path = <<>>,
         NEW n, n = [r EXCEPT !.st = "running"]
  PROVE  Scheduled!Begin(AsRun(file, r), AsRun(file, n)) /\ Exact(file, n)
<1> DEFINE steps == file[r.wf]
<1>1. Sane(file, n)
  BY ExecuteSane
<1>2. r \in ProcRecords /\ r.wf \in DOMAIN file /\ r.res = <<>> /\ r.busy = FALSE
  BY Looking DEF Sane, WhileOrdering
<1>3. n.st = "running" /\ n.wf = r.wf /\ n.res = <<>> /\ n.busy = FALSE /\ n.todo = r.todo
  BY <1>2 DEF ProcRecords
<1>4. Executable(steps) /\ Ids(steps) \subseteq Placed(n)
  <2>1. Ids(steps) \subseteq Placed(r)
    BY Looking
  <2> QED BY <2>1, <1>1, <1>3 DEF Sane, WhileRunning, Placed
<1>5. PICK a, b : a = AsRun(file, r) /\ b = AsRun(file, n)
  OBVIOUS
<1>6. /\ a.verdict = "none" /\ a.came = <<>> /\ a.at = {} /\ b.verdict = "open" /\ b.came = <<>> /\ b.at = {}
      /\ b.plan = a.plan /\ b.final = a.final
  BY <1>2, <1>3, <1>5, RunFields DEF AsRun
<1>7. b = [a EXCEPT !.verdict = "open"]
  <2>1. /\ a = [plan |-> a.plan, final |-> a.final, at |-> a.at, came |-> a.came, verdict |-> a.verdict]
        /\ b = [plan |-> b.plan, final |-> b.final, at |-> b.at, came |-> b.came, verdict |-> b.verdict]
    BY <1>5, RunFields
  <2> QED BY <2>1, <1>6
<1>8. a.plan = [i \in Ids(steps) |-> DepsOf(steps, i)]
  BY <1>2, <1>5, RunFields
<1>9. Scheduled!Orderly(a.plan)
  BY <1>4, <1>8 DEF Scheduled!Orderly, Executable, AllKnown, Acyclic
<1>10. Exact(file, n)
  <2>1. DOMAIN n.res = {}
    BY <1>3
  <2> QED BY <2>1, <1>3, <1>4 DEF Exact, Halts
<1> QED BY <1>5, <1>6, <1>7, <1>9, <1>10 DEF Scheduled!Begin

(* The next step may be looked at: no step that ended the run came before.  *)
LEMMA HeadLeft ==
  ASSUME file \in Files, NEW r, Sane(file, r), Exact(file, r), r.st = "running", r.todo # <<>>, r.busy = FALSE
  PROVE  /\ Scheduled!Left(AsRun(file, r), Head(r.todo).id)
         /\ ~Blocked(r) => Scheduled!Ready(AsRun(file, r), Head(r.todo).id)
         /\ Blocked(r) => Scheduled!InVain(AsRun(file, r), Head(r.todo).id)
<1> DEFINE steps == file[r.wf]
<1>1. PICK h : h = Head(r.todo)
  OBVIOUS
<1>2. /\ h.id \in Ids(steps) /\ h.id \notin DOMAIN r.res /\ r.wf \in DOMAIN file
      /\ DepsOf(steps, h.id) = ToSet(h.deps) /\ ToSet(h.deps) \subseteq DOMAIN r.res
  BY <1>1, HeadStep
<1>3. PICK a : a = AsRun(file, r)
  OBVIOUS
<1>4. /\ a.verdict = "open" /\ a.at = {} /\ a.came = r.res
      /\ a.plan = [i \in Ids(steps) |-> DepsOf(steps, i)]
      /\ a.final = {i \in Ids(steps) : StepOf(steps, i).abort}
  BY <1>2, <1>3, RunFields
<1>5. ~Scheduled!Ended(a)
  <2>1. ~Halts(steps, r)
    BY DEF Exact
  <2> QED BY <2>1, <1>4 DEF Scheduled!Ended, Halts
<1>6. Scheduled!Left(a, h.id)
  BY <1>2, <1>4, <1>5 DEF Scheduled!Left
<1>7. a.plan[h.id] = ToSet(h.deps)
  BY <1>2, <1>4
<1>8. ~Blocked(r) => Scheduled!Ready(a, h.id)
  BY <1>1, <1>4, <1>6, <1>7 DEF Blocked, Has, Scheduled!Ready, Scheduled!Succeeded
<1>9. Blocked(r) => Scheduled!InVain(a, h.id)
  BY <1>1, <1>2, <1>4, <1>6, <1>7 DEF Blocked, Has, Scheduled!InVain
<1> QED BY <1>1, <1>3, <1>6, <1>8, <1>9

(* Launching a command or a process is the start of a step.                 *)
LEMMA BusyLaunches ==
  ASSUME file \in Files, NEW r, Sane(file, r), Exact(file, r), r.st = "running", r.todo # <<>>, r.busy = FALSE,
         ~Blocked(r), NEW n, n = [r EXCEPT !.busy = TRUE]
  PROVE  Scheduled!Launch(AsRun(file, r), AsRun(file, n)) /\ Exact(file, n)
<1>1. PICK i : i = Head(r.todo).id
  OBVIOUS
<1>2. /\ n.st = "running" /\ n.wf = r.wf /\ n.res = r.res /\ n.todo = r.todo /\ n.busy = TRUE
  BY DEF Sane, ProcRecords
<1>3. PICK a, b : a = AsRun(file, r) /\ b = AsRun(file, n)
  OBVIOUS
<1>4. /\ b.plan = a.plan /\ b.final = a.final /\ b.came = a.came /\ b.verdict = a.verdict /\ b.at = {i}
  BY <1>1, <1>2, <1>3 DEF AsRun
<1>5. b = [a EXCEPT !.at = {i}]
  <2>1. /\ a = [plan |-> a.plan, final |-> a.final, at |-> a.at, came |-> a.came, verdict |-> a.verdict]
        /\ b = [plan |-> b.plan, final |-> b.final, at |-> b.at, came |-> b.came, verdict |-> b.verdict]
    BY <1>3, RunFields
  <2> QED BY <2>1, <1>4
<1>6. Scheduled!Ready(a, i)
  BY <1>1, <1>3, HeadLeft
<1>7. i \in DOMAIN a.plan
  BY <1>6 DEF Scheduled!Ready, Scheduled!Left
<1>8. Exact(file, n)
  BY <1>2 DEF Exact, Halts, Placed
<1> QED BY <1>3, <1>5, <1>6, <1>7, <1>8 DEF Scheduled!Launch

(* A step gets its outcome: the one that is executed, one that takes no     *)
(* time, or one that is passed over.                                        *)
LEMMA RecordedMoves ==
  ASSUME file \in Files, NEW r, Sane(file, r), Exact(file, r), r.st = "running", r.todo # <<>>, NEW s \in Statuses,
         s = "skipped" => r.busy = FALSE /\ Blocked(r), s # "skipped" => r.busy = TRUE \/ ~Blocked(r)
  PROVE  Scheduled!Move(AsRun(file, r), AsRun(file, Recorded(r, s))) /\ Exact(file, Recorded(r, s))
<1> DEFINE steps == file[r.wf]
<1>1. PICK h : h = Head(r.todo)
  OBVIOUS
<1>2. /\ h.id \in Ids(steps) /\ h.id \notin DOMAIN r.res /\ r.wf \in DOMAIN file
      /\ StepOf(steps, h.id) = h
  BY <1>1, HeadStep
<1>3. r \in ProcRecords /\ WhileRunning(steps, r) /\ r.busy \in BOOLEAN
  BY DEF Sane, ProcRecords
<1>4. r.todo \in Seq(Steps) /\ DOMAIN r.todo = 1..Len(r.todo) /\ Len(r.todo) \in Nat
      /\ h = r.todo[1] /\ 1 \in DOMAIN r.todo
  BY <1>1, <1>3, ProcFields
<1>5. PICK n : n = Recorded(r, s)
  OBVIOUS
<1>6. PICK fails : fails = (s \in {"failed", "timeout"} /\ h.abort = TRUE)
  OBVIOUS
<1>7. /\ n.st = "running" /\ n.wf = r.wf /\ n.busy = FALSE
      /\ n.todo = IF s \in {"failed", "timeout"} /\ h.abort THEN <<>> ELSE Tail(r.todo)
      /\ n.res = [i \in DOMAIN r.res \cup {h.id} |-> IF i = h.id THEN s ELSE r.res[i]]
  BY <1>1, <1>3, <1>5 DEF Recorded, ProcRecords
<1>8. PICK a, b : a = AsRun(file, r) /\ b = AsRun(file, n)
  OBVIOUS
<1>9. /\ a.came = r.res /\ a.verdict = "open" /\ a.plan = [i \in Ids(steps) |-> DepsOf(steps, i)]
      /\ a.at = IF r.busy THEN {h.id} ELSE {}
  BY <1>1, <1>2, <1>8 DEF AsRun
<1>10. /\ b.plan = a.plan /\ b.final = a.final /\ b.at = {} /\ b.verdict = "open" /\ b.came = n.res
  BY <1>7, <1>8 DEF AsRun
<1>11. b = Scheduled!With(a, h.id, s)
  <2>1. /\ a = [plan |-> a.plan, final |-> a.final, at |-> a.at, came |-> a.came, verdict |-> a.verdict]
        /\ b = [plan |-> b.plan, final |-> b.final, at |-> b.at, came |-> b.came, verdict |-> b.verdict]
    BY <1>8, RunFields
  <2>2. b.came = [j \in DOMAIN a.came \cup {h.id} |-> IF j = h.id THEN s ELSE a.came[j]]
    BY <1>7, <1>9, <1>10
  <2>3. Scheduled!With(a, h.id, s) = [a EXCEPT !.at = {}, !.came = b.came]
    BY <2>2 DEF Scheduled!With
  <2>4. b = [a EXCEPT !.at = {}, !.came = b.came]
    BY <2>1, <1>9, <1>10
  <2> QED BY <2>3, <2>4
<1>12. h.id \in DOMAIN a.plan
  BY <1>2, <1>9
<1>13. Scheduled!Move(a, b)
  <2>1. CASE s = "skipped"
    <3>1. Scheduled!InVain(a, h.id)
      BY <2>1, <1>1, <1>8, HeadLeft
    <3> QED BY <2>1, <3>1, <1>11, <1>12 DEF Scheduled!Move, Scheduled!Pass
  <2>2. CASE s # "skipped"
    <3>1. s \in {"ok", "failed", "timeout"}
      BY <2>2 DEF Statuses
    <3>2. Scheduled!Ready(a, h.id) \/ (a.verdict = "open" /\ a.at = {h.id})
      <4>1. CASE r.busy = TRUE
        BY <4>1, <1>9
      <4>2. CASE r.busy = FALSE
        <5>1. ~Blocked(r)
          BY <2>2, <4>2
        <5> QED BY <4>2, <5>1, <1>1, <1>8, HeadLeft
      <4> QED BY <4>1, <4>2, <1>3
    <3> QED BY <3>1, <3>2, <1>11, <1>12 DEF Scheduled!Move, Scheduled!Outcome
  <2> QED BY <2>1, <2>2
<1>14. /\ DOMAIN n.res = DOMAIN r.res \cup {h.id} /\ n.res[h.id] = s
       /\ \A i \in DOMAIN r.res : n.res[i] = r.res[i]
  BY <1>2, <1>7
<1>15. DOMAIN r.res \subseteq Ids(steps) /\ ~Halts(steps, r) /\ Ids(steps) \subseteq DOMAIN r.res \cup Placed(r)
  BY DEF Exact
<1>16. Halts(steps, n) <=> s \in {"failed", "timeout"} /\ h.abort
  BY <1>2, <1>14, <1>15 DEF Halts
<1>17. ASSUME ~Halts(steps, n) PROVE Ids(steps) \subseteq DOMAIN n.res \cup Placed(n)
  <2>1. n.todo = Tail(r.todo)
    BY <1>7, <1>16, <1>17
  <2>2. ASSUME NEW i \in DOMAIN r.todo PROVE r.todo[i].id \in DOMAIN n.res \cup Placed(n)
    <3>1. CASE i = 1
      BY <3>1, <1>4, <1>14
    <3>2. CASE i # 1
      <4>1. i - 1 \in DOMAIN n.todo /\ n.todo[i - 1] = r.todo[i]
        BY <2>1, <3>2, <1>4
      <4> QED BY <4>1 DEF Placed
    <3> QED BY <3>1, <3>2
  <2> QED BY <2>2, <1>14, <1>15 DEF Placed
<1>18. Halts(steps, n) => n.todo = <<>>
  BY <1>7, <1>16
<1>19. DOMAIN n.res \subseteq Ids(steps)
  BY <1>2, <1>14, <1>15
<1>20. Exact(file, n)
  BY <1>7, <1>17, <1>18, <1>19 DEF Exact
<1> QED BY <1>5, <1>8, <1>13, <1>20

(* The loop ends when all steps have an outcome or one of them ended the    *)
(* run, and the status is ok exactly when all steps are.                    *)
LEMMA FinishCloses ==
  ASSUME file \in Files, NEW r, Sane(file, r), Exact(file, r), r.st = "running", r.todo = <<>>,
         NEW n, n = Concluding(r)
  PROVE  Scheduled!Close(AsRun(file, r), AsRun(file, n)) /\ Exact(file, n)
<1> DEFINE steps == file[r.wf]
<1>1. r \in ProcRecords /\ r.wf \in DOMAIN file /\ r.busy = FALSE
  BY DEF Sane, WhileRunning, ProcRecords
<1>2. /\ n.st = "exited" /\ n.exit = 0 /\ n.status = RunStatus(r) /\ n.wf = r.wf /\ n.res = r.res
  BY <1>1 DEF ProcRecords, Concluding
<1>3. PICK a, b : a = AsRun(file, r) /\ b = AsRun(file, n)
  OBVIOUS
<1>4. /\ a.verdict = "open" /\ a.at = {} /\ a.came = r.res /\ DOMAIN a.plan = Ids(steps)
      /\ a.final = {i \in Ids(steps) : StepOf(steps, i).abort}
  BY <1>1, <1>3 DEF AsRun
<1>5. /\ b.plan = a.plan /\ b.final = a.final /\ b.at = a.at /\ b.verdict = RunStatus(r) /\ b.came = a.came
  BY <1>1, <1>2, <1>3 DEF AsRun
<1>6. Placed(r) = {}
  BY DEF Placed
<1>7. DOMAIN r.res \subseteq Ids(steps) /\ (Halts(steps, r) \/ Ids(steps) \subseteq DOMAIN r.res)
  BY <1>6 DEF Exact
<1>8. Scheduled!Ended(a) \/ DOMAIN a.came = DOMAIN a.plan
  BY <1>4, <1>7 DEF Scheduled!Ended, Halts
<1>9. RunStatus(r) = IF Scheduled!Succeeded(a) = DOMAIN a.plan THEN "ok" ELSE "failed"
  <2>1. CASE \A i \in DOMAIN r.res : r.res[i] = "ok"
    <3>1. ~Halts(steps, r)
      BY <2>1 DEF Halts
    <3> QED BY <2>1, <3>1, <1>4, <1>7 DEF RunStatus, Scheduled!Succeeded
  <2>2. CASE ~\A i \in DOMAIN r.res : r.res[i] = "ok"
    <3>1. PICK i \in DOMAIN r.res : r.res[i] # "ok"
      BY <2>2
    <3>2. i \in DOMAIN a.plan /\ i \notin Scheduled!Succeeded(a)
      BY <3>1, <1>4, <1>7 DEF Scheduled!Succeeded
    <3> QED BY <2>2, <3>2 DEF RunStatus
  <2> QED BY <2>1, <2>2
<1>10. b = [a EXCEPT !.verdict = RunStatus(r)]
  <2>1. /\ a = [plan |-> a.plan, final |-> a.final, at |-> a.at, came |-> a.came, verdict |-> a.verdict]
        /\ b = [plan |-> b.plan, final |-> b.final, at |-> b.at, came |-> b.came, verdict |-> b.verdict]
    BY <1>3, RunFields
  <2> QED BY <2>1, <1>5
<1>11. Exact(file, n)
  BY <1>2 DEF Exact, RunStatus
<1> QED BY <1>3, <1>4, <1>8, <1>9, <1>10, <1>11 DEF Scheduled!Close

(* Every process moves as the schedule lets it or stands still.             *)
Moves == Scheduled!Next /\ \A p \in Procs : Exact(file', proc'[p])

(* That is seen process by process.                                         *)
LEMMA MovesByProcess ==
  ASSUME proc \in [Procs -> ProcRecords], proc' \in [Procs -> ProcRecords], file' = file,
         \A p \in Procs : Exact(file, proc'[p]),
         \A p \in Procs : \/ AsRun(file, proc'[p]) = AsRun(file, proc[p])
                          \/ Scheduled!Move(AsRun(file, proc[p]), AsRun(file, proc'[p]))
  PROVE  Moves
<1>1. ASSUME NEW p \in Procs PROVE AsRun(file, proc[p])' = AsRun(file', proc'[p])
  BY DEF AsRun, Ids, DepsOf, StepOf
<1> QED BY <1>1 DEF Moves, Scheduled!Next

(* One process moves.                                                       *)
LEMMA OneMoves ==
  ASSUME ScheduleInv, proc' \in [Procs -> ProcRecords], file' = file, NEW p \in Procs, NEW n,
         proc' = [proc EXCEPT ![p] = n], Exact(file, n),
         \/ AsRun(file, n) = AsRun(file, proc[p])
         \/ Scheduled!Move(AsRun(file, proc[p]), AsRun(file, n))
  PROVE  Moves
<1>1. proc \in [Procs -> ProcRecords]
  BY DEF ScheduleInv, RunnerInv
<1>2. proc'[p] = n /\ \A q \in Procs : q # p => proc'[q] = proc[q]
  BY <1>1
<1>3. \A q \in Procs : Exact(file, proc'[q])
  BY <1>2 DEF ScheduleInv
<1>4. \A q \in Procs : \/ AsRun(file, proc'[q]) = AsRun(file, proc[q])
                       \/ Scheduled!Move(AsRun(file, proc[q]), AsRun(file, proc'[q]))
  BY <1>2
<1> QED BY <1>1, <1>3, <1>4, MovesByProcess

(* A process and the one it has started move.                               *)
LEMMA TwoMove ==
  ASSUME ScheduleInv, proc' \in [Procs -> ProcRecords], file' = file, NEW p \in Procs, Child(p) \in Procs,
         NEW n, NEW c, proc' = [proc EXCEPT ![p] = n, ![Child(p)] = c], Exact(file, n), Exact(file, c),
         Scheduled!Move(AsRun(file, proc[p]), AsRun(file, n)),
         Scheduled!Move(AsRun(file, proc[Child(p)]), AsRun(file, c))
  PROVE  Moves
<1>1. proc \in [Procs -> ProcRecords]
  BY DEF ScheduleInv, RunnerInv
<1>2. PICK d \in Procs : d = Child(p) /\ d # p
  BY ChildApart
<1>3. proc'[p] = n /\ proc'[d] = c /\ \A q \in Procs : q # p /\ q # d => proc'[q] = proc[q]
  BY <1>1, <1>2
<1>4. \A q \in Procs : Exact(file, proc'[q])
  BY <1>3 DEF ScheduleInv
<1>5. \A q \in Procs : \/ AsRun(file, proc'[q]) = AsRun(file, proc[q])
                       \/ Scheduled!Move(AsRun(file, proc[q]), AsRun(file, proc'[q]))
  BY <1>2, <1>3
<1> QED BY <1>1, <1>4, <1>5, MovesByProcess

(* A running process records the status of its current step.                *)
LEMMA RecordMoves ==
  ASSUME ScheduleInv, proc' \in [Procs -> ProcRecords], file' = file, NEW p \in Procs,
         proc[p].st = "running", proc[p].todo # <<>>, NEW s \in Statuses,
         s = "skipped" => proc[p].busy = FALSE /\ Blocked(proc[p]),
         s # "skipped" => proc[p].busy = TRUE \/ ~Blocked(proc[p]),
         proc' = [proc EXCEPT ![p] = Recorded(@, s)]
  PROVE  Moves
<1>1. Sane(file, proc[p]) /\ Exact(file, proc[p]) /\ file \in Files
  BY DEF ScheduleInv, RunnerInv
<1>2. PICK n : n = Recorded(proc[p], s)
  OBVIOUS
<1>3. Scheduled!Move(AsRun(file, proc[p]), AsRun(file, n)) /\ Exact(file, n)
  BY <1>1, <1>2, RecordedMoves
<1>4. proc' = [proc EXCEPT ![p] = n]
  BY <1>2
<1> QED BY <1>3, <1>4, OneMoves

(* Every step of the runner is one of the schedule, or is not seen there.   *)
LEMMA ScheduleStep == ASSUME ScheduleInv, [RunnerNext]_runnerVars PROVE Moves
<1>1. /\ RunnerInv /\ file \in Files /\ proc \in [Procs -> ProcRecords]
      /\ \A p \in Procs : Sane(file, proc[p]) /\ Exact(file, proc[p])
  BY DEF ScheduleInv, RunnerInv
<1>2. proc' \in [Procs -> ProcRecords]
  BY <1>1, RunnerStep DEF RunnerInv
<1>4. ASSUME NEW t \in Tops, NEW n \in DOMAIN file \cup {None}, Start(t, n) PROVE Moves
  <2>1. n \in RunNames /\ file' = file
    BY <1>1, <1>4 DEF RunNames, Start
  <2>2. CASE <<t>> \in Procs
    <3>1. PICK p \in Procs : p = <<t>>
      BY <2>2
    <3>2. proc[p].st # "running" /\ proc' = [proc EXCEPT ![p] = Started(n)]
      BY <1>4, <3>1 DEF Start
    <3>3. Scheduled!Forget(AsRun(file, proc[p]), AsRun(file, Started(n))) /\ Exact(file, Started(n))
      BY <1>1, <2>1, <3>2, StartForgets
    <3> QED BY <1>2, <2>1, <3>2, <3>3, OneMoves DEF Scheduled!Move
  <2>3. CASE <<t>> \notin Procs
    <3>1. proc' = proc
      BY <1>1, <1>4, <2>3 DEF Start
    <3> QED BY <1>1, <2>1, <3>1, MovesByProcess
  <2> QED BY <2>2, <2>3
<1>5. ASSUME NEW p \in Procs, Descend(p) \/ Place(p) PROVE Moves
  <2>1. PICK n : /\ proc' = [proc EXCEPT ![p] = n] /\ proc[p].st = "ordering" /\ file' = file
                 /\ n.st = "ordering" /\ n.wf = proc[p].wf /\ n.res = proc[p].res
    <3>1. CASE Descend(p)
      <4>1. PICK n : n = [proc[p] EXCEPT !.path = Append(@, Wanted(proc[p]))]
        OBVIOUS
      <4>2. proc' = [proc EXCEPT ![p] = n] /\ proc[p].st = "ordering" /\ file' = file
        BY <3>1, <4>1 DEF Descend
      <4>3. n.st = "ordering" /\ n.wf = proc[p].wf /\ n.res = proc[p].res
        BY <1>1, <4>1, <4>2 DEF ProcRecords
      <4> QED BY <4>2, <4>3
    <3>2. CASE Place(p)
      <4>1. PICK n : n = [proc[p] EXCEPT !.path = Front(@),
                                         !.todo = Append(@, StepOf(file[proc[p].wf], Last(proc[p].path)))]
        OBVIOUS
      <4>2. proc' = [proc EXCEPT ![p] = n] /\ proc[p].st = "ordering" /\ file' = file
        BY <3>2, <4>1 DEF Place
      <4>3. n.st = "ordering" /\ n.wf = proc[p].wf /\ n.res = proc[p].res
        BY <1>1, <4>1, <4>2 DEF ProcRecords
      <4> QED BY <4>2, <4>3
    <3> QED BY <1>5, <3>1, <3>2
  <2>2. AsRun(file, n) = AsRun(file, proc[p]) /\ Exact(file, n)
    BY <2>1, SearchUnseen
  <2> QED BY <1>2, <2>1, <2>2, OneMoves
<1>6. ASSUME NEW p \in Procs, Refuse(p) \/ Malformed(p) PROVE Moves
  <2>1. PICK n : n = [proc[p] EXCEPT !.st = "exited", !.exit = 1]
    OBVIOUS
  <2>2. proc' = [proc EXCEPT ![p] = n] /\ file' = file /\ proc[p].st \in {"ordering", "running"}
    BY <1>6, <2>1 DEF Refuse, Malformed, Runnable, Stepping
  <2>3. Scheduled!Break(AsRun(file, proc[p]), AsRun(file, n)) /\ Exact(file, n)
    <3>1. PICK r : r = proc[p] /\ Sane(file, r) /\ r.st \in {"ordering", "running"}
      BY <1>1, <2>2
    <3>2. PICK x \in {-9, 1} : x = 1
      OBVIOUS
    <3>3. n = Quitting(r, x)
      BY <2>1, <3>1, <3>2 DEF Quitting
    <3>4. Scheduled!Break(AsRun(file, r), AsRun(file, n)) /\ Exact(file, n)
      BY <1>1, <3>1, <3>3, ExitBreaks
    <3> QED BY <3>1, <3>4
  <2> QED BY <1>2, <2>2, <2>3, OneMoves DEF Scheduled!Move
<1>7. ASSUME NEW p \in Procs, Execute(p) PROVE Moves
  <2>1. PICK n : n = [proc[p] EXCEPT !.st = "running"]
    OBVIOUS
  <2>2. proc' = [proc EXCEPT ![p] = n] /\ file' = file
    BY <1>7, <2>1 DEF Execute
  <2>3. Scheduled!Begin(AsRun(file, proc[p]), AsRun(file, n)) /\ Exact(file, n)
    BY <1>1, <1>7, <2>1, ExecuteBegins DEF Execute
  <2> QED BY <1>2, <2>2, <2>3, OneMoves DEF Scheduled!Move
<1>8. ASSUME NEW p \in Procs, Stepping(p)
      PROVE  proc[p].st = "running" /\ proc[p].todo # <<>> /\ proc[p].busy = FALSE
  <2>1. proc[p].busy \in BOOLEAN
    BY <1>1 DEF ProcRecords
  <2> QED BY <1>8, <2>1 DEF Stepping
<1>9. ASSUME NEW p \in Procs, NEW A, Busy(p, A)
      PROVE  proc[p].st = "running" /\ proc[p].todo # <<>> /\ proc[p].busy = TRUE
  <2>1. proc[p].busy \in BOOLEAN
    BY <1>1 DEF ProcRecords
  <2> QED BY <1>1, <1>9, <2>1 DEF Busy, Sane, WhileRunning
<1>10. ASSUME NEW p \in Procs, Skip(p) PROVE Moves
  <2>1. "skipped" \in Statuses
    BY DEF Statuses
  <2>2. /\ Stepping(p) /\ Blocked(proc[p]) /\ proc' = [proc EXCEPT ![p] = Recorded(@, "skipped")] /\ file' = file
    BY <1>10 DEF Skip
  <2> QED BY <1>2, <1>8, <2>1, <2>2, RecordMoves
<1>11. ASSUME NEW p \in Procs, Inline(p) PROVE Moves
  <2>1. PICK s \in {"ok", "failed"} : proc' = [proc EXCEPT ![p] = Recorded(@, s)]
    BY <1>11 DEF Inline
  <2>2. s \in Statuses /\ s # "skipped"
    BY DEF Statuses
  <2>3. Stepping(p) /\ ~Blocked(proc[p]) /\ file' = file
    BY <1>11 DEF Inline, Runnable
  <2> QED BY <1>2, <1>8, <2>1, <2>2, <2>3, RecordMoves
<1>12. ASSUME NEW p \in Procs, CommandEnds(p) \/ NestedEnds(p) PROVE Moves
  <2>1. PICK s \in {"ok", "failed"} : proc' = [proc EXCEPT ![p] = Recorded(@, s)]
    BY <1>12 DEF CommandEnds, NestedEnds
  <2>2. s \in Statuses /\ s # "skipped"
    BY DEF Statuses
  <2>3. file' = file /\ proc[p].st = "running" /\ proc[p].todo # <<>> /\ proc[p].busy = TRUE
    BY <1>9, <1>12 DEF CommandEnds, NestedEnds
  <2> QED BY <1>2, <2>1, <2>2, <2>3, RecordMoves
<1>13. ASSUME NEW p \in Procs, Runnable(p), NEW n, n = [proc[p] EXCEPT !.busy = TRUE]
       PROVE  Scheduled!Launch(AsRun(file, proc[p]), AsRun(file, n)) /\ Exact(file, n)
  <2>1. Stepping(p) /\ ~Blocked(proc[p])
    BY <1>13 DEF Runnable
  <2> QED BY <1>1, <1>8, <1>13, <2>1, BusyLaunches
<1>14. ASSUME NEW p \in Procs, Launch(p) PROVE Moves
  <2>1. PICK n : n = [proc[p] EXCEPT !.busy = TRUE]
    OBVIOUS
  <2>2. proc' = [proc EXCEPT ![p] = n] /\ file' = file /\ Runnable(p)
    BY <1>14, <2>1 DEF Launch
  <2> QED BY <1>2, <1>13, <2>1, <2>2, OneMoves DEF Scheduled!Move
<1>15. ASSUME NEW p \in Procs, Nest(p) PROVE Moves
  <2>1. PICK n : n = [proc[p] EXCEPT !.busy = TRUE]
    OBVIOUS
  <2>2. PICK d \in Procs : d = Child(p) /\ proc[d].st \notin {"ordering", "running"}
    BY <1>15 DEF Nest, Alive
  <2>3. PICK c : c = Started(Current(p).ref)
    OBVIOUS
  <2>4. Runnable(p) /\ file' = file
    BY <1>15 DEF Nest
  <2>5. Current(p).ref \in RunNames
    <3>1. proc[p].todo \in Seq(Steps) /\ proc[p].todo # <<>>
      BY <1>1, <1>8, <2>4, ProcFields DEF Runnable
    <3>2. Head(proc[p].todo) \in Steps
      BY <3>1
    <3> QED BY <3>2 DEF Current, Steps, RunNames
  <2>6. Scheduled!Forget(AsRun(file, proc[d]), AsRun(file, c)) /\ Exact(file, c)
    BY <1>1, <2>2, <2>3, <2>5, StartForgets
  <2>7. Scheduled!Launch(AsRun(file, proc[p]), AsRun(file, n)) /\ Exact(file, n)
    BY <1>13, <2>1, <2>4
  <2>8. proc' = [proc EXCEPT ![p] = n, ![Child(p)] = c]
    <3>1. proc' = [proc EXCEPT ![p].busy = TRUE, ![Child(p)] = c]
      BY <1>15, <2>3 DEF Nest
    <3> QED BY <3>1, <2>1
  <2>9. Scheduled!Move(AsRun(file, proc[p]), AsRun(file, n))
        /\ Scheduled!Move(AsRun(file, proc[Child(p)]), AsRun(file, c))
    BY <2>2, <2>6, <2>7 DEF Scheduled!Move
  <2> QED BY <1>2, <2>2, <2>4, <2>6, <2>7, <2>8, <2>9, TwoMove
<1>16. ASSUME NEW p \in Procs, TimeOut(p) PROVE Moves
  <2>1. file' = file /\ proc[p].st = "running" /\ proc[p].todo # <<>> /\ proc[p].busy = TRUE
    BY <1>9, <1>16 DEF TimeOut
  <2>2. PICK s \in {"failed", "timeout"} :
          s = IF Current(p).action = "conditional" THEN "failed" ELSE "timeout"
    OBVIOUS
  <2>3. s \in Statuses /\ s # "skipped"
    BY DEF Statuses
  <2>4. CASE Current(p).action # "workflow"
    <3>1. proc' = [proc EXCEPT ![p] = Recorded(@, s)]
      BY <1>16, <2>2, <2>4 DEF TimeOut
    <3> QED BY <1>2, <2>1, <2>3, <3>1, RecordMoves
  <2>5. CASE Current(p).action = "workflow"
    <3>1. /\ Alive(Child(p))
          /\ proc' = [proc EXCEPT ![p] = Recorded(@, s), ![Child(p)].st = "exited", ![Child(p)].exit = -9]
      BY <1>16, <2>2, <2>5 DEF TimeOut
    <3>2. PICK n : n = Recorded(proc[p], s)
      OBVIOUS
    <3>3. Scheduled!Move(AsRun(file, proc[p]), AsRun(file, n)) /\ Exact(file, n)
      BY <1>1, <2>1, <2>3, <3>2, RecordedMoves
    <3>4. CASE Child(p) \notin Procs
      <4>1. proc' = [proc EXCEPT ![p] = n]
        BY <3>1, <3>2, <3>4, <1>1
      <4> QED BY <1>2, <2>1, <3>3, <4>1, OneMoves
    <3>5. CASE Child(p) \in Procs
      <4>1. PICK d \in Procs : d = Child(p) /\ d # p
        BY <3>5, ChildApart
      <4>2. PICK c : c = [proc[d] EXCEPT !.st = "exited", !.exit = -9]
        OBVIOUS
      <4>3. Scheduled!Break(AsRun(file, proc[d]), AsRun(file, c)) /\ Exact(file, c)
        <5>1. proc[d].st \in {"ordering", "running"} /\ Sane(file, proc[d])
          BY <1>1, <3>1, <4>1 DEF Alive
        <5>2. PICK r : r = proc[d] /\ Sane(file, r) /\ r.st \in {"ordering", "running"}
          BY <5>1
        <5>3. PICK x \in {-9, 1} : x = -9
          OBVIOUS
        <5>4. c = Quitting(r, x)
          BY <4>2, <5>2, <5>3 DEF Quitting
        <5>5. Scheduled!Break(AsRun(file, r), AsRun(file, c)) /\ Exact(file, c)
          BY <1>1, <5>2, <5>4, ExitBreaks
        <5> QED BY <5>2, <5>5
      <4>4. proc' = [proc EXCEPT ![p] = n, ![Child(p)] = c]
        BY <3>1, <3>2, <4>1, <4>2, <1>1
      <4>5. Scheduled!Move(AsRun(file, proc[Child(p)]), AsRun(file, c)) /\ Child(p) \in Procs
        BY <4>1, <4>3 DEF Scheduled!Move
      <4> QED BY <1>2, <2>1, <3>3, <4>3, <4>4, <4>5, TwoMove
    <3> QED BY <3>4, <3>5
  <2> QED BY <2>4, <2>5
<1>17. ASSUME NEW p \in Procs, Finish(p) PROVE Moves
  <2>1. PICK n : n = [proc[p] EXCEPT !.st = "exited", !.status = RunStatus(proc[p]), !.exit = 0]
    OBVIOUS
  <2>2. proc[p].st = "running" /\ proc[p].todo = <<>>
    BY <1>17 DEF Finish
  <2>3. proc' = [proc EXCEPT ![p] = n] /\ file' = file
    BY <1>17, <2>1 DEF Finish
  <2>4. Scheduled!Close(AsRun(file, proc[p]), AsRun(file, n)) /\ Exact(file, n)
    <3>1. PICK r : /\ r = proc[p] /\ Sane(file, r) /\ Exact(file, r)
                   /\ r.st = "running" /\ r.todo = <<>>
      BY <1>1, <2>2
    <3>2. n = Concluding(r)
      BY <2>1, <3>1 DEF Concluding
    <3>3. Scheduled!Close(AsRun(file, r), AsRun(file, n)) /\ Exact(file, n)
      BY <1>1, <3>1, <3>2, FinishCloses
    <3> QED BY <3>1, <3>3
  <2> QED BY <1>2, <2>3, <2>4, OneMoves DEF Scheduled!Move
<1>18. CASE UNCHANGED runnerVars \/ \E o \in orphans : OrphanEnds(o)
  <2>1. proc' = proc /\ file' = file
    BY <1>18 DEF runnerVars, OrphanEnds
  <2> QED BY <1>1, <2>1, MovesByProcess
<1> QED BY <1>4, <1>5, <1>6, <1>7, <1>10, <1>11, <1>12, <1>14, <1>15, <1>16, <1>17, <1>18 DEF RunnerNext

(* The runner executes a schedule: with the depth-first search, nested      *)
(* processes, commands that are abandoned and processes that are killed, a  *)
(* step is executed only after all it waits for succeeded, one at a time    *)
(* and once, none after one that ends the run, and ok means each succeeded. *)
THEOREM RunnerFollowsSchedule == RunnerSpec => RunnerImplements
<1>1. RunnerInit => ScheduleInv /\ Scheduled!Init
  <2> SUFFICES ASSUME RunnerInit PROVE ScheduleInv /\ Scheduled!Init
    OBVIOUS
  <2>1. \A p \in Procs : proc[p] = Idle
    BY DEF RunnerInit
  <2>2. Idle.st = "idle" /\ Idle.res = <<>>
    BY DEF Idle
  <2>3. \A p \in Procs : Exact(file, proc[p])
    BY <2>1, <2>2 DEF Exact
  <2>4. \A p \in Procs : /\ AsRun(file, proc[p]).verdict = "none" /\ AsRun(file, proc[p]).came = <<>>
                        /\ AsRun(file, proc[p]).at = {}
    BY <2>1, <2>2 DEF AsRun
  <2> QED BY <2>3, <2>4, RunnerStart DEF ScheduleInv, Scheduled!Init
<1>2. ScheduleInv /\ [RunnerNext]_runnerVars => ScheduleInv' /\ Scheduled!Next
  BY RunnerStep, ScheduleStep DEF ScheduleInv, Moves
<1> QED BY <1>1, <1>2, PTL DEF RunnerSpec, RunnerImplements, Scheduled!Spec

(* The moves of a schedule keep it honest.                                  *)
IsRun(r) == r = [plan |-> r.plan, final |-> r.final, at |-> r.at, came |-> r.came, verdict |-> r.verdict]

(* A process is seen as a run.                                              *)
LEMMA RunsAreRuns == ASSUME NEW f, NEW r PROVE IsRun(AsRun(f, r))
BY DEF AsRun, IsRun

HonestRun(r) ==
  /\ Scheduled!Honest(r)
  /\ r.verdict \in {"open", "ok", "failed"} => Scheduled!Orderly(r.plan)
  /\ r.verdict = "none" => r.came = <<>> /\ r.at = {}
  /\ r.at # {} => r.verdict = "open"

(* An outcome that comes for a step that had none changes no other.         *)
LEMMA OutcomeComes ==
  ASSUME NEW r, IsRun(r), NEW i, i \notin DOMAIN r.came, NEW o, NEW n, n = Scheduled!With(r, i, o)
  PROVE  /\ n.plan = r.plan /\ n.final = r.final /\ n.verdict = r.verdict /\ n.at = {}
         /\ DOMAIN n.came = DOMAIN r.came \cup {i} /\ n.came[i] = o
         /\ \A j \in DOMAIN r.came : n.came[j] = r.came[j]
         /\ Scheduled!Succeeded(r) \subseteq Scheduled!Succeeded(n)
<1>1. /\ n.plan = r.plan /\ n.final = r.final /\ n.verdict = r.verdict /\ n.at = {}
      /\ n.came = [j \in DOMAIN r.came \cup {i} |-> IF j = i THEN o ELSE r.came[j]]
  BY DEF Scheduled!With, IsRun
<1>2. DOMAIN n.came = DOMAIN r.came \cup {i} /\ n.came[i] = o /\ \A j \in DOMAIN r.came : n.came[j] = r.came[j]
  BY <1>1
<1> QED BY <1>1, <1>2 DEF Scheduled!Succeeded

(* Each move of a run leaves it honest.                                     *)
LEMMA MovesAreHonest ==
  ASSUME NEW r, NEW n, IsRun(r), HonestRun(r), Scheduled!Move(r, n)
  PROVE  HonestRun(n)
<1>1. CASE Scheduled!Forget(r, n)
  BY <1>1 DEF Scheduled!Forget, HonestRun, Scheduled!Honest
<1>2. CASE Scheduled!Begin(r, n)
  <2>1. n.plan = r.plan /\ n.came = <<>> /\ n.at = {} /\ n.verdict = "open" /\ Scheduled!Orderly(r.plan)
    BY <1>2 DEF Scheduled!Begin, IsRun
  <2> QED BY <2>1 DEF HonestRun, Scheduled!Honest
<1>3. CASE Scheduled!Launch(r, n)
  <2>1. PICK i \in DOMAIN r.plan : Scheduled!Ready(r, i) /\ n = [r EXCEPT !.at = {i}]
    BY <1>3 DEF Scheduled!Launch
  <2>2. n.plan = r.plan /\ n.final = r.final /\ n.came = r.came /\ n.at = {i} /\ n.verdict = r.verdict
    BY <2>1 DEF IsRun
  <2>3. /\ r.verdict = "open" /\ ~Scheduled!Ended(r) /\ i \notin DOMAIN r.came
        /\ r.plan[i] \subseteq Scheduled!Succeeded(r)
    BY <2>1 DEF Scheduled!Ready, Scheduled!Left
  <2> QED BY <2>2, <2>3 DEF HonestRun, Scheduled!Honest, Scheduled!Succeeded, Scheduled!Ended
<1>4. CASE Scheduled!Outcome(r, n)
  <2>1. PICK i \in DOMAIN r.plan, o \in {"ok", "failed", "timeout"} :
          /\ Scheduled!Ready(r, i) \/ (r.verdict = "open" /\ r.at = {i})
          /\ n = Scheduled!With(r, i, o)
    BY <1>4 DEF Scheduled!Outcome
  <2>2. r.verdict = "open" /\ i \notin DOMAIN r.came /\ r.plan[i] \subseteq Scheduled!Succeeded(r)
    BY <2>1 DEF HonestRun, Scheduled!Honest, Scheduled!Ready, Scheduled!Left
  <2>3. /\ n.plan = r.plan /\ n.verdict = r.verdict /\ n.at = {}
        /\ DOMAIN n.came = DOMAIN r.came \cup {i}
        /\ \A j \in DOMAIN r.came : n.came[j] = r.came[j]
        /\ Scheduled!Succeeded(r) \subseteq Scheduled!Succeeded(n)
    BY <2>1, <2>2, OutcomeComes
  <2> QED BY <2>2, <2>3 DEF HonestRun, Scheduled!Honest
<1>5. CASE Scheduled!Pass(r, n)
  <2>1. PICK i \in DOMAIN r.plan : Scheduled!InVain(r, i) /\ n = Scheduled!With(r, i, "skipped")
    BY <1>5 DEF Scheduled!Pass
  <2>2. r.verdict = "open" /\ i \notin DOMAIN r.came
    BY <2>1 DEF Scheduled!InVain, Scheduled!Left
  <2>3. /\ n.plan = r.plan /\ n.verdict = r.verdict /\ n.at = {}
        /\ DOMAIN n.came = DOMAIN r.came \cup {i} /\ n.came[i] = "skipped"
        /\ \A j \in DOMAIN r.came : n.came[j] = r.came[j]
        /\ Scheduled!Succeeded(r) \subseteq Scheduled!Succeeded(n)
    BY <2>1, <2>2, OutcomeComes
  <2> QED BY <2>2, <2>3 DEF HonestRun, Scheduled!Honest
<1>6. CASE Scheduled!Close(r, n)
  <2>1. /\ r.verdict = "open" /\ r.at = {}
        /\ n = [r EXCEPT !.verdict = IF Scheduled!Succeeded(r) = DOMAIN r.plan THEN "ok" ELSE "failed"]
    BY <1>6 DEF Scheduled!Close
  <2>2. /\ n.plan = r.plan /\ n.came = r.came /\ n.at = {}
        /\ n.verdict = IF Scheduled!Succeeded(r) = DOMAIN r.plan THEN "ok" ELSE "failed"
    BY <2>1 DEF IsRun
  <2> QED BY <2>1, <2>2 DEF HonestRun, Scheduled!Honest, Scheduled!Succeeded
<1>7. CASE Scheduled!Break(r, n)
  <2>1. n.plan = r.plan /\ n.came = r.came /\ n.at = {} /\ n.verdict = "broken"
    BY <1>7 DEF Scheduled!Break, IsRun
  <2> QED BY <2>1 DEF HonestRun, Scheduled!Honest, Scheduled!Succeeded
<1> QED BY <1>1, <1>2, <1>3, <1>4, <1>5, <1>6, <1>7 DEF Scheduled!Move

(* Whatever follows a schedule executes each step once and in its turn, and *)
(* the runner follows one: no look at its own steps is needed any more.     *)
THEOREM RunnerExecutesInTurn == RunnerSpec => []ExecutedInTurn
<1> DEFINE Inv == \A p \in Procs : HonestRun(AsRun(file, proc[p]))
<1>1. Scheduled!Init => Inv
  <2> SUFFICES ASSUME Scheduled!Init, NEW p \in Procs PROVE HonestRun(AsRun(file, proc[p]))
    OBVIOUS
  <2>1. PICK r : r = AsRun(file, proc[p])
    OBVIOUS
  <2>2. r.verdict = "none" /\ r.came = <<>> /\ r.at = {}
    BY <2>1 DEF Scheduled!Init
  <2>3. HonestRun(r)
    BY <2>2 DEF HonestRun, Scheduled!Honest
  <2> QED BY <2>1, <2>3
<1>2. Inv /\ [Scheduled!Next]_([p \in Procs |-> AsRun(file, proc[p])]) => Inv'
  <2> SUFFICES ASSUME Inv, [Scheduled!Next]_([p \in Procs |-> AsRun(file, proc[p])]), NEW p \in Procs
               PROVE  HonestRun(AsRun(file', proc'[p]))
    OBVIOUS
  <2>1. \/ AsRun(file', proc'[p]) = AsRun(file, proc[p])
        \/ Scheduled!Move(AsRun(file, proc[p]), AsRun(file', proc'[p]))
    BY DEF Scheduled!Next
  <2>2. IsRun(AsRun(file, proc[p]))
    BY RunsAreRuns
  <2> QED BY <2>1, <2>2, MovesAreHonest
<1>3. Inv => ExecutedInTurn
  BY DEF ExecutedInTurn, HonestRun, Scheduled!Kept
<1> QED BY <1>1, <1>2, <1>3, RunnerFollowsSchedule, PTL DEF RunnerImplements, Scheduled!Spec

(* resolve_order() lets exactly those workflows run that have an order, a   *)
(* step is skipped only for one it depends on and executed only in its      *)
(* turn, and the status ok means that all ran: for any workflows, nested    *)
(* runners, time-outs and orphans.                                          *)
THEOREM RunnerAlwaysSound == RunnerSpec => []RunnerSound
<1>1. RunnerInv /\ ExecutedInTurn => RunnerSound
  BY RunnerInvSound DEF RunnerSound
<1> QED BY <1>1, RunnerStart, RunnerStep, RunnerExecutesInTurn, PTL DEF RunnerSpec
=============================================================================
