--------------------------- MODULE DistillerProofs ---------------------------
(***************************************************************************)
(* Proofs about Distiller for every set of amounts, bands and proposals,   *)
(* every policy and every number of cases.                                 *)
(***************************************************************************)
EXTENDS Distiller, SequenceTheorems, TLAPS

RuleRow  == [status: Status, rule: Proposals \cup {None}]
StatRow  == [matched: Nat, agreed: Nat, recovered: Nat]
Counted(stat) == stat.agreed <= stat.matched /\ stat.recovered <= stat.matched

\* A rule that stands is a proposal, and only a standing rule handles a case.
LEMMA StandingRules ==
  ASSUME TypeOK, NEW k \in Keys, Stands(k)
  PROVE  /\ rules[k].rule \in Proposals /\ rules[k].rule.action \in ActionNames
         /\ rules[k].rule.when \subseteq Predicate
BY DistillerAssumption DEF TypeOK, Stands

LEMMA CandidatesAreKeys == Candidates \subseteq Keys
BY DEF Candidates, Keys

\* The window grows by an outcome or slides, and never passes MinRecent.
LEMMA WindowType ==
  ASSUME TypeOK, NEW k \in Keys, NEW recovered \in BOOLEAN
  PROVE  /\ WindowOf(k, recovered) \in Seq(BOOLEAN)
         /\ Len(WindowOf(k, recovered)) <= MinRecent
         /\ Len(WindowOf(k, recovered)) <= Len(recent[k]) + 1
         /\ Len(WindowOf(k, recovered)) \in Nat /\ Len(recent[k]) \in Nat
<1> DEFINE longer == Append(recent[k], recovered)
<1>1. /\ recent[k] \in Seq(BOOLEAN) /\ Len(recent[k]) <= MinRecent
      /\ MinRecent \in Nat
  BY DistillerAssumption DEF TypeOK
<1>2. /\ longer \in Seq(BOOLEAN) /\ longer # <<>> /\ Len(longer) = Len(recent[k]) + 1
      /\ Len(recent[k]) \in Nat
  BY <1>1, AppendProperties, LenProperties
<1> HIDE DEF longer
<1>3. Tail(longer) \in Seq(BOOLEAN) /\ Len(Tail(longer)) = Len(longer) - 1
  BY <1>2, HeadTailProperties
<1>4. WindowOf(k, recovered) = IF Len(longer) > MinRecent THEN Tail(longer) ELSE longer
  BY DEF WindowOf, longer
<1> HIDE DEF WindowOf
<1>5. CASE Len(longer) > MinRecent
  <2>1. WindowOf(k, recovered) = Tail(longer) /\ Len(Tail(longer)) = Len(recent[k])
    BY <1>2, <1>3, <1>4, <1>5
  <2> QED
    BY <2>1, <1>1, <1>2, <1>3
<1>6. CASE ~(Len(longer) > MinRecent)
  <2>1. WindowOf(k, recovered) = longer
    BY <1>4, <1>6
  <2> QED
    BY <2>1, <1>1, <1>2, <1>6
<1> QED
  BY <1>5, <1>6

LEMMA InitIInv == Init => IInv
<1> SUFFICES ASSUME Init PROVE IInv
  OBVIOUS
<1>1. <<>> \in Seq(BOOLEAN) /\ Len(<<>>) = 0
  BY EmptySeq
<1>2. /\ rules \in [Keys -> RuleRow] /\ created = {k \in Keys : rules[k].status # "none"}
      /\ \A k \in Keys : rules[k].status # "none" <=> rules[k].rule \in Proposals
  BY DistillerAssumption DEF Init, RuleRow, NoRule, Status
<1>3. /\ pool \in [Seen -> Nat] /\ shadow \in [Keys -> StatRow]
      /\ \A k \in Keys : Counted(shadow[k])
      /\ since \in [Keys -> Nat] /\ recent \in [Keys -> Seq(BOOLEAN)]
  BY <1>1 DEF Init, StatRow, Counted
<1>4. \A k \in Keys : Len(recent[k]) <= MinRecent
  BY <1>1, DistillerAssumption DEF Init
<1>5. cases \in 0..MaxCases /\ phase \in {"case", "distill", "promote", "demote"}
  BY DistillerAssumption DEF Init
<1>6. TypeOK
  BY <1>2, <1>3, <1>4, <1>5 DEF TypeOK, RuleRow, StatRow, Counted
<1> QED
  BY <1>1, <1>6 DEF Init, IInv, ActiveRulesChecked, WindowFromActiveTime, NoRule

-----------------------------------------------------------------------------
(* A case *)

LEMMA ObserveIInv ==
  ASSUME IInv, NEW x \in Amounts, NEW action \in ActionNames \cup {None},
         NEW recovered \in BOOLEAN, NEW handler,
         NextCase, Observe(x, action, recovered, handler), UNCHANGED store
  PROVE  IInv'
<1> USE DEF IInv
<1>0. TypeOK /\ rules' = rules /\ created' = created
  BY DEF store
<1>1. pool' \in [Seen -> Nat]
  <2>1. CASE pool' = pool
    BY <2>1 DEF TypeOK
  <2>2. CASE action # None /\ pool' = [pool EXCEPT ![[amount |-> x,
                action |-> action, recovered |-> recovered]] = @ + 1]
    <3>1. [amount |-> x, action |-> action, recovered |-> recovered] \in Seen
      BY <2>2 DEF Seen
    <3> QED
      BY <2>2, <3>1 DEF TypeOK
  <2> QED
    BY <2>1, <2>2 DEF Observe
<1>2. shadow' \in [Keys -> StatRow] /\ \A k \in Keys : Counted(shadow'[k])
  <2>1. \A k \in Keys : shadow[k] \in StatRow /\ Counted(shadow[k])
    BY DEF TypeOK, StatRow, Counted
  <2>2. \A k \in Keys : shadow'[k] \in StatRow /\ Counted(shadow'[k])
    BY <2>1 DEF Observe, RecordShadow, StatRow, Counted
  <2> QED
    BY <2>2 DEF Observe, RecordShadow
<1>3. \A k \in Keys : /\ recent'[k] \in Seq(BOOLEAN) /\ Len(recent'[k]) <= MinRecent
                      /\ since'[k] \in Nat /\ Len(recent'[k]) <= since'[k]
  <2> SUFFICES ASSUME NEW k \in Keys
               PROVE  /\ recent'[k] \in Seq(BOOLEAN) /\ Len(recent'[k]) <= MinRecent
                      /\ since'[k] \in Nat /\ Len(recent'[k]) <= since'[k]
    OBVIOUS
  <2>1. /\ recent[k] \in Seq(BOOLEAN) /\ Len(recent[k]) <= MinRecent
        /\ since[k] \in Nat /\ Len(recent[k]) <= since[k]
    BY DEF TypeOK, WindowFromActiveTime
  <2>2. CASE Active(k, x)
    <3>1. recent'[k] = WindowOf(k, recovered) /\ since'[k] = since[k] + 1
      BY <2>2 DEF Observe, RecordRecent
    <3> QED
      BY <3>1, <2>1, WindowType
  <2>3. CASE ~Active(k, x)
    <3>1. recent'[k] = recent[k] /\ since'[k] = since[k]
      BY <2>3, <2>1 DEF Observe, RecordRecent
    <3> QED
      BY <3>1, <2>1
  <2> QED
    BY <2>2, <2>3
<1>4. /\ recent' \in [Keys -> Seq(BOOLEAN)] /\ since' \in [Keys -> Nat]
  <2>1. DOMAIN recent' = Keys /\ DOMAIN since' = Keys
        /\ recent' = [k \in Keys |-> recent'[k]] /\ since' = [k \in Keys |-> since'[k]]
    BY DEF Observe, RecordRecent
  <2> QED
    BY <2>1, <1>3
<1>5. cases' \in 0..MaxCases /\ phase' \in {"case", "distill", "promote", "demote"}
  BY DistillerAssumption DEF NextCase, TypeOK
<1>6. TypeOK'
  BY <1>0, <1>1, <1>2, <1>3, <1>4, <1>5 DEF TypeOK, StatRow, Counted
<1>7. ActiveRulesChecked'
  BY <1>0 DEF ActiveRulesChecked
<1> QED
  BY <1>3, <1>6, <1>7 DEF WindowFromActiveTime

LEMMA CaseIInv == IInv /\ Case => IInv'
<1> SUFFICES ASSUME IInv, Case PROVE IInv'
  OBVIOUS
<1>1. ASSUME NEW x \in Amounts, NEW recovered \in BOOLEAN, NEW k \in Keys,
             RuleHandles(k, x, recovered)
      PROVE  IInv'
  <2>1. Stands(k)
    BY <1>1 DEF RuleHandles, Active, Stands
  <2>2. rules[k].rule.action \in ActionNames
    BY <2>1, StandingRules DEF IInv
  <2> QED
    BY <1>1, <2>2, ObserveIInv DEF RuleHandles
<1>2. ASSUME NEW x \in Amounts, NEW recovered \in BOOLEAN,
             NEW action \in ActionNames \cup {None},
             AgentHandles(x, action, recovered)
      PROVE  IInv'
  BY <1>2, ObserveIInv DEF AgentHandles
<1>3. CASE Control
  <2>1. cases' \in 0..MaxCases /\ phase' \in {"case", "distill", "promote", "demote"}
    BY <1>3, DistillerAssumption DEF Control, NextCase, IInv, TypeOK
  <2> QED
    BY <1>3, <2>1 DEF Control, store, stats, IInv, TypeOK, ActiveRulesChecked,
                      WindowFromActiveTime
<1> QED
  BY <1>1, <1>2, <1>3 DEF Case

-----------------------------------------------------------------------------
(* The distiller's step *)

\* A key that is proposed has no rule yet: distill overwrites none.
LEMMA ProposedAreNew ==
  ASSUME TypeOK, NEW k \in Unproposed
  PROVE  k \in Keys /\ rules[k].status = "none"
BY CandidatesAreKeys DEF Unproposed, TypeOK

LEMMA DistillRules ==
  ASSUME TypeOK, distill
  PROVE  \E answer \in [Unproposed -> Proposals \cup {None}] :
           LET valid == {k \in Unproposed : answer[k] # None} IN
           /\ created' = created \cup valid
           /\ \A k \in valid : /\ rules'[k] = [status |-> "shadow", rule |-> answer[k]]
                               /\ answer[k] \in Proposals /\ rules[k].status = "none"
           /\ \A k \in Keys \ valid : rules'[k] = rules[k]
           /\ valid \subseteq Keys /\ rules' = [k \in Keys |-> rules'[k]]
BY ProposedAreNew DEF distill

LEMMA DistillIInv == IInv /\ distill => IInv'
<1> SUFFICES ASSUME IInv, distill PROVE IInv'
  OBVIOUS
<1>0. TypeOK
  BY DEF IInv
<1>1. PICK answer \in [Unproposed -> Proposals \cup {None}] :
        LET valid == {k \in Unproposed : answer[k] # None} IN
        /\ created' = created \cup valid
        /\ \A k \in valid : /\ rules'[k] = [status |-> "shadow", rule |-> answer[k]]
                            /\ answer[k] \in Proposals /\ rules[k].status = "none"
        /\ \A k \in Keys \ valid : rules'[k] = rules[k]
        /\ valid \subseteq Keys /\ rules' = [k \in Keys |-> rules'[k]]
  BY <1>0, DistillRules
<1> DEFINE valid == {k \in Unproposed : answer[k] # None}
<1>2. UNCHANGED <<stats, cases, since>> /\ phase' = "promote"
  BY DEF distill
<1>3. \A k \in Keys : /\ rules'[k] \in RuleRow
                      /\ rules'[k].status # "none" <=> rules'[k].rule \in Proposals
                      /\ rules'[k].status = "active" => rules'[k] = rules[k]
                      /\ rules'[k].status # "none" <=> k \in created'
  <2> SUFFICES ASSUME NEW k \in Keys
               PROVE  /\ rules'[k] \in RuleRow
                      /\ rules'[k].status # "none" <=> rules'[k].rule \in Proposals
                      /\ rules'[k].status = "active" => rules'[k] = rules[k]
                      /\ rules'[k].status # "none" <=> k \in created'
    OBVIOUS
  <2>1. CASE k \in valid
    <3>1. /\ rules'[k] = [status |-> "shadow", rule |-> answer[k]]
          /\ answer[k] \in Proposals /\ k \in created'
      BY <1>1, <2>1
    <3>2. rules'[k].status = "shadow" /\ rules'[k].rule = answer[k]
      BY <3>1
    <3>3. rules'[k] \in RuleRow
      BY <3>1 DEF RuleRow, Status
    <3> QED
      BY <3>1, <3>2, <3>3
  <2>2. CASE k \notin valid
    <3>1. /\ rules[k] \in RuleRow /\ (rules[k].status # "none" <=> k \in created)
          /\ rules[k].status # "none" <=> rules[k].rule \in Proposals
      BY <1>0 DEF RuleRow, TypeOK
    <3>2. rules'[k] = rules[k] /\ (k \in created' <=> k \in created)
      BY <1>1, <2>2
    <3> QED
      BY <3>1, <3>2
  <2> QED
    BY <2>1, <2>2
<1>4. rules' \in [Keys -> RuleRow]
  BY <1>1, <1>3
<1>5. created' = {k \in Keys : rules'[k].status # "none"}
  BY <1>0, <1>1, <1>3 DEF TypeOK
<1>6. TypeOK'
  BY <1>0, <1>2, <1>3, <1>4, <1>5 DEF TypeOK, RuleRow, stats
<1>7. ActiveRulesChecked'
  BY <1>3 DEF IInv, ActiveRulesChecked
<1> QED
  BY <1>2, <1>6, <1>7 DEF IInv, WindowFromActiveTime, stats

\* What promote and demote make of a row.
LEMMA StatusSet ==
  ASSUME NEW row \in RuleRow, NEW status \in Status
  PROVE  LET next == [row EXCEPT !.status = status] IN
         next \in RuleRow /\ next.rule = row.rule /\ next.status = status
BY DEF RuleRow

LEMMA PromoteIInv == IInv /\ promote => IInv'
<1> SUFFICES ASSUME IInv, promote PROVE IInv'
  OBVIOUS
<1>0. TypeOK /\ UNCHANGED <<created, stats, cases, since>> /\ phase' = "demote"
  BY DEF IInv, promote
<1>1. /\ rules' = [k \in Keys |-> rules'[k]]
      /\ \A k \in Keys : rules'[k] =
           IF Promotable(k) THEN [rules[k] EXCEPT !.status = "active"] ELSE rules[k]
  BY DEF promote
<1>2. \A k \in Keys : /\ rules'[k] \in RuleRow /\ rules'[k].rule = rules[k].rule
                      /\ rules'[k].status = IF Promotable(k) THEN "active"
                                            ELSE rules[k].status
  <2> SUFFICES ASSUME NEW k \in Keys
               PROVE  /\ rules'[k] \in RuleRow /\ rules'[k].rule = rules[k].rule
                      /\ rules'[k].status = IF Promotable(k) THEN "active"
                                            ELSE rules[k].status
    OBVIOUS
  <2>1. rules[k] \in RuleRow
    BY <1>0 DEF TypeOK, RuleRow
  <2>2. CASE Promotable(k)
    <3>1. rules'[k] = [rules[k] EXCEPT !.status = "active"]
      BY <1>1, <2>2
    <3>2. "active" \in Status
      BY DEF Status
    <3> QED
      BY ONLY <2>1, <2>2, <3>1, <3>2, StatusSet
  <2>3. CASE ~Promotable(k)
    <3>1. rules'[k] = rules[k]
      BY <1>1, <2>3
    <3> QED
      BY ONLY <2>1, <2>3, <3>1
  <2> QED
    BY <2>2, <2>3
<1>3. \A k \in Keys : rules'[k].status # "none" <=> rules[k].status # "none"
  BY <1>2 DEF Promotable
<1>4. rules' \in [Keys -> RuleRow]
  BY <1>1, <1>2
<1>5. TypeOK'
  BY <1>0, <1>2, <1>3, <1>4 DEF TypeOK, RuleRow, stats
<1>6. ActiveRulesChecked'
  BY <1>2 DEF IInv, ActiveRulesChecked, Promotable
<1> QED
  BY <1>0, <1>5, <1>6 DEF IInv, WindowFromActiveTime, stats

LEMMA DemoteIInv == IInv /\ demote => IInv'
<1> SUFFICES ASSUME IInv, demote PROVE IInv'
  OBVIOUS
<1>0. TypeOK /\ UNCHANGED <<created, pool, shadow, cases, since>> /\ phase' = "case"
  BY DEF IInv, demote
<1>1. /\ rules' = [k \in Keys |-> rules'[k]] /\ recent' = [k \in Keys |-> recent'[k]]
      /\ \A k \in Keys :
           /\ rules'[k] = IF Demotable(k) THEN [rules[k] EXCEPT !.status = "demoted"]
                          ELSE rules[k]
           /\ recent'[k] = IF Demotable(k) THEN <<>> ELSE recent[k]
  BY DEF demote
<1>2. \A k \in Keys : /\ rules'[k] \in RuleRow /\ rules'[k].rule = rules[k].rule
                      /\ rules'[k].status = IF Demotable(k) THEN "demoted"
                                            ELSE rules[k].status
  <2> SUFFICES ASSUME NEW k \in Keys
               PROVE  /\ rules'[k] \in RuleRow /\ rules'[k].rule = rules[k].rule
                      /\ rules'[k].status = IF Demotable(k) THEN "demoted"
                                            ELSE rules[k].status
    OBVIOUS
  <2>1. rules[k] \in RuleRow
    BY <1>0 DEF TypeOK, RuleRow
  <2>2. CASE Demotable(k)
    <3>1. rules'[k] = [rules[k] EXCEPT !.status = "demoted"]
      BY <1>1, <2>2
    <3>2. "demoted" \in Status
      BY DEF Status
    <3> QED
      BY ONLY <2>1, <2>2, <3>1, <3>2, StatusSet
  <2>3. CASE ~Demotable(k)
    <3>1. rules'[k] = rules[k]
      BY <1>1, <2>3
    <3> QED
      BY ONLY <2>1, <2>3, <3>1
  <2> QED
    BY <2>2, <2>3
<1>3. \A k \in Keys : rules'[k].status # "none" <=> rules[k].status # "none"
  BY <1>2 DEF Demotable
<1>4. \A k \in Keys : /\ recent'[k] \in Seq(BOOLEAN) /\ Len(recent'[k]) <= MinRecent
                      /\ Len(recent'[k]) <= since[k]
  <2> SUFFICES ASSUME NEW k \in Keys
               PROVE  /\ recent'[k] \in Seq(BOOLEAN) /\ Len(recent'[k]) <= MinRecent
                      /\ Len(recent'[k]) <= since[k]
    OBVIOUS
  <2>1. /\ recent[k] \in Seq(BOOLEAN) /\ Len(recent[k]) <= MinRecent
        /\ Len(recent[k]) <= since[k] /\ since[k] \in Nat /\ MinRecent \in Nat
    BY <1>0, DistillerAssumption DEF TypeOK, IInv, WindowFromActiveTime
  <2>2. <<>> \in Seq(BOOLEAN) /\ Len(<<>>) = 0
    BY EmptySeq
  <2>3. recent'[k] = <<>> \/ recent'[k] = recent[k]
    BY <1>1
  <2>4. CASE recent'[k] = <<>>
    <3>1. since[k] >= 0 /\ MinRecent >= 0
      BY <2>1
    <3> QED
      BY <3>1, <2>1, <2>2, <2>4
  <2>5. CASE recent'[k] = recent[k]
    BY <2>1, <2>5
  <2> QED
    BY <2>3, <2>4, <2>5
<1>5. rules' \in [Keys -> RuleRow] /\ recent' \in [Keys -> Seq(BOOLEAN)]
  BY <1>1, <1>2, <1>4
<1>6. TypeOK'
  BY <1>0, <1>2, <1>3, <1>4, <1>5 DEF TypeOK, RuleRow
<1>7. ActiveRulesChecked'
  BY <1>2 DEF IInv, ActiveRulesChecked
<1> QED
  BY <1>0, <1>4, <1>6, <1>7 DEF IInv, WindowFromActiveTime

LEMMA NextIInv == IInv /\ [Next]_vars => IInv'
<1>1. ASSUME IInv, UNCHANGED vars PROVE IInv'
  BY <1>1 DEF vars, store, stats, IInv, TypeOK, ActiveRulesChecked,
              WindowFromActiveTime
<1> QED
  BY <1>1, CaseIInv, DistillIInv, PromoteIInv, DemoteIInv DEF Next, Done

-----------------------------------------------------------------------------
(* Theorems *)

\* What promote checked of a rule holds as long as the rule is active, whatever
\* the proposer, the agent and the customers answer (distiller.py:284-329).
THEOREM DistillerInductive == Spec => []IInv
<1>1. Init => IInv
  BY InitIInv
<1>2. IInv /\ [Next]_vars => IInv'
  BY NextIInv
<1> QED
  BY <1>1, <1>2, PTL DEF Spec

\* Rules, statistics and windows keep their types, and a key is created exactly
\* when it has a rule (distiller.py:187-213).
THEOREM DistillerTypesCorrect == Spec => []TypeOK
<1>1. IInv => TypeOK
  BY DEF IInv
<1> QED
  BY <1>1, DistillerInductive, PTL

\* No rule of the grammar that the distiller ever activates refunds an amount
\* above the approval threshold (distiller.py:331-347).
THEOREM NoActiveRuleRefundsHeld == Spec => []NoHeldAmountRefunded
<1>1. IInv => NoHeldAmountRefunded
  <2> SUFFICES ASSUME IInv, NEW k \in Keys, NEW x \in Amounts, Active(k, x),
                      rules[k].rule.action = "refund"
               PROVE  x <= ApprovalThreshold
    BY DEF NoHeldAmountRefunded
  <2>1. Stands(k) /\ rules[k].status = "active" /\ evaluate(rules[k].rule, x)
    BY DEF Active, Stands
  <2>2. PICK p \in rules[k].rule.when :
          p.op \in {"lt", "le"} /\ p.value <= ApprovalThreshold
    BY <2>1 DEF IInv, ActiveRulesChecked, _is_high_value_refund
  <2>3. p \in Predicate /\ Holds(p, x)
    BY <2>1, <2>2, StandingRules DEF IInv, evaluate
  <2>4. p.value \in Nat /\ x \in Nat /\ ApprovalThreshold \in Nat
    BY <2>3, DistillerAssumption DEF Predicate
  <2>5. x <= p.value
    <3>1. CASE p.op = "lt"
      BY <3>1, <2>3, <2>4 DEF Holds
    <3>2. CASE p.op = "le"
      BY <3>2, <2>3, <2>4 DEF Holds
    <3> QED
      BY <2>2, <3>1, <3>2
  <2> QED
    BY <2>2, <2>4, <2>5
<1> QED
  BY <1>1, DistillerInductive, PTL

\* A demoted rule is never changed again: its key is not proposed a second time
\* and its old statistics promote nothing (distiller.py:187-213, 284-302).
THEOREM DemotedNeverReturns == Spec => DemotedStaysOut
<1> DEFINE StaysOut == \A k \in Keys : rules[k].status = "demoted" => rules'[k] = rules[k]
<1>1. IInv /\ [Next]_vars => [StaysOut]_vars
  <2> SUFFICES ASSUME IInv, [Next]_vars, NEW k \in Keys, rules[k].status = "demoted"
               PROVE  rules'[k] = rules[k]
    OBVIOUS
  <2>1. CASE distill
    <3>1. TypeOK
      BY DEF IInv
    <3> QED
      BY <2>1, <3>1, DistillRules
  <2>2. CASE promote
    BY <2>2 DEF promote, Promotable
  <2>3. CASE demote
    BY <2>3 DEF demote, Demotable
  <2>4. CASE UNCHANGED rules
    BY <2>4
  <2> QED
    BY <2>1, <2>2, <2>3, <2>4 DEF Next, Case, RuleHandles, AgentHandles, Control,
                                  Done, vars, store
<1> QED
  BY <1>1, DistillerInductive, PTL DEF Spec, DemotedStaysOut

\* A rule is demoted on at least MinRecent matches made while it was active,
\* never on its record in shadow (distiller.py:304-329, lifecycle.py:24-31).
THEOREM DemotedOnActiveRecord == Spec => DemotedOnItsRecord
<1> DEFINE OnRecord == \A k \in Keys :
      rules[k].status = "active" /\ rules'[k].status = "demoted" => since[k] >= MinRecent
<1>1. IInv /\ [Next]_vars => [OnRecord]_vars
  <2> SUFFICES ASSUME IInv, [Next]_vars, NEW k \in Keys, rules[k].status = "active",
                      rules'[k].status = "demoted"
               PROVE  since[k] >= MinRecent
    OBVIOUS
  <2>0. TypeOK
    BY DEF IInv
  <2>1. CASE distill
    BY <2>0, <2>1, DistillRules
  <2>2. CASE promote
    BY <2>2 DEF promote, Promotable
  <2>3. CASE demote
    <3>1. Demotable(k)
      BY <2>3 DEF demote
    <3>2. Len(recent[k]) >= MinRecent
      BY <3>1 DEF Demotable, should_demote
    <3>3. /\ Len(recent[k]) \in Nat /\ since[k] \in Nat /\ MinRecent \in Nat
          /\ Len(recent[k]) <= since[k]
      BY <2>0, LenProperties, DistillerAssumption DEF TypeOK, IInv, WindowFromActiveTime
    <3> QED
      BY <3>2, <3>3
  <2>4. CASE UNCHANGED rules
    BY <2>4
  <2> QED
    BY <2>1, <2>2, <2>3, <2>4 DEF Next, Case, RuleHandles, AgentHandles, Control,
                                  Done, vars, store
<1> QED
  BY <1>1, DistillerInductive, PTL DEF Spec, DemotedOnItsRecord

=============================================================================
