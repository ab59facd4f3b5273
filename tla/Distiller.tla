------------------------------ MODULE Distiller ------------------------------
(***************************************************************************)
(* Rules distilled from what the agent does (recovery/distiller.py,        *)
(* agentcore/distill/): cases arrive one by one, an ACTIVE rule or the     *)
(* agent handles each (recovery/router.py), the distiller observes it and  *)
(* on its cadence proposes, promotes and demotes rules.                    *)
(*                                                                         *)
(* The cases are those of one failure reason, told apart by their amount.  *)
(* The agent, the customer and the proposer LLM answer as they like.       *)
(* Rates are compared as integers: s/n >= p/q is s * q >= p * n.           *)
(***************************************************************************)
EXTENDS Integers, Sequences, FiniteSetsExt

CONSTANTS
  Amounts,            \* amount_inr of a case
  Band,               \* the amount band of each amount
  ActionNames,        \* actions of the schema
  Proposals,          \* rules of the closed grammar the proposer may answer
  ApprovalThreshold,  \* approval_threshold_inr
  Cadence,
  MinClusterSupport, MinClusterAgreement, ReasonRecoveryHint,
  MinSupport, MinAgreement, MinAgreementLB, MinRecoveryLB,  \* PromotionPolicy
  MinRecent, RecoveryUBFloor,                               \* DemotionPolicy
  ZSquared,           \* z * z, a ratio like the other rates
  MaxCases,           \* bound: cases in a behaviour
  None                \* no effect, no rule

Ops == {"lt", "le", "gt", "ge", "eq"}
Predicate == [op: Ops, value: Nat]
Ratio == [num: Nat, den: Nat \ {0}]

ASSUME DistillerAssumption ==
  /\ Amounts \subseteq Nat /\ ApprovalThreshold \in Nat
  /\ \A rule \in Proposals : /\ DOMAIN rule = {"when", "action"}
                             /\ rule.when \subseteq Predicate
                             /\ rule.action \in ActionNames
  /\ Cadence \in Nat \ {0} /\ MinRecent \in Nat \ {0} /\ MaxCases \in Nat
  /\ {MinClusterSupport, MinSupport} \subseteq Nat
  /\ {MinClusterAgreement, ReasonRecoveryHint, MinAgreement, MinAgreementLB,
      MinRecoveryLB, RecoveryUBFloor, ZSquared} \subseteq Ratio
  /\ None \notin Proposals

VARIABLES
  rules,    \* rule store: status and rule, by rule_key
  created,  \* _created_keys
  pool,     \* _pool, as a bag: how often an outcome was observed
  shadow,   \* _shadow: matched, agreed, recovered, by rule_key
  recent,   \* _recent: the last outcomes of an active rule
  cases,    \* cases seen
  phase,    \* what the harness does next
  \* history, read by no guard
  since     \* cases an active rule has matched since its promotion

store == <<rules, created>>
stats == <<pool, shadow, recent>>
vars  == <<store, stats, cases, phase, since>>

-----------------------------------------------------------------------------
(* Rules *)

\* A rule key names the cluster it came from: the reason, or one of its bands.
Keys   == {"reason"} \cup {Band[x] : x \in Amounts}
Status == {"none", "shadow", "active", "demoted"}
NoRule == [status |-> "none", rule |-> None]

Holds(p, x) ==
  CASE p.op = "lt" -> x < p.value
    [] p.op = "le" -> x <= p.value
    [] p.op = "gt" -> x > p.value
    [] p.op = "ge" -> x >= p.value
    [] p.op = "eq" -> x = p.value

evaluate(rule, x) == \A p \in rule.when : Holds(p, x)

Stands(k)     == rules[k].status \in {"shadow", "active"}
Matches(k, x) == Stands(k) /\ evaluate(rules[k].rule, x)
Active(k, x)  == rules[k].status = "active" /\ evaluate(rules[k].rule, x)

\* Faulty: any upper bound on the amount will do.
AnyUpperBound(rule) ==
  rule.action = "refund" /\ ~ \E p \in rule.when : p.op \in {"lt", "le"}
_is_high_value_refund(rule) ==
  /\ rule.action = "refund"
  /\ ~ \E p \in rule.when : p.op \in {"lt", "le"} /\ p.value <= ApprovalThreshold

-----------------------------------------------------------------------------
(* Rates *)

AtLeast(s, n, rate) == s * rate.den >= rate.num * n

\* The Wilson lower bound of s/n reaches the rate: s/n does, and the square of
\* its distance is at least z * z * rate * (1 - rate) / n.
Square(x) == x * x
Margin(n, rate) == ZSquared.num * rate.num * (rate.den - rate.num) * n
Spread(s, n, rate) == ZSquared.den * Square(s * rate.den - rate.num * n)

LowerBoundReaches(s, n, rate) ==
  n > 0 /\ AtLeast(s, n, rate) /\ Spread(s, n, rate) >= Margin(n, rate)
UpperBoundBelow(s, n, rate) ==
  ~AtLeast(s, n, rate) /\ Spread(s, n, rate) > Margin(n, rate)

qualifies_for_promotion(stat) ==
  /\ stat.matched >= MinSupport
  /\ AtLeast(stat.agreed, stat.matched, MinAgreement)
  /\ LowerBoundReaches(stat.agreed, stat.matched, MinAgreementLB)
  /\ LowerBoundReaches(stat.recovered, stat.matched, MinRecoveryLB)

Recovered(window) == Cardinality({i \in DOMAIN window : window[i]})

should_demote(window) ==
  /\ Len(window) >= MinRecent
  /\ UpperBoundBelow(Recovered(window), Len(window), RecoveryUBFloor)

-----------------------------------------------------------------------------
(* Clusters: the observations of some amounts *)

Seen == [amount: Amounts, action: ActionNames, recovered: BOOLEAN]
Total(observations) == MapThenSumSet(LAMBDA o : pool[o], observations)

Cluster(S)   == {o \in Seen : o.amount \in S}
Support(S)   == Total(Cluster(S))
Agreement(S) == Max({Total({o \in Cluster(S) : o.action = a}) : a \in ActionNames})
Recovery(S)  == Total({o \in Cluster(S) : o.recovered})

Consistent(S) ==
  /\ Support(S) >= MinClusterSupport
  /\ AtLeast(Agreement(S), Support(S), MinClusterAgreement)
  /\ AtLeast(Recovery(S), Support(S), ReasonRecoveryHint)

\* _candidate_situations: the reason if it is consistent, else its bands.
Candidates ==
  IF Consistent(Amounts) THEN {"reason"}
  ELSE {b \in Keys \ {"reason"} :
          /\ Support(Amounts) >= MinClusterSupport
          /\ Consistent({x \in Amounts : Band[x] = b})}

-----------------------------------------------------------------------------
(* observe: one case, handled by handler (a rule's key, or None: the agent) *)

\* Faulty: the window never forgets.
WindowUnbounded(k, recovered) == Append(recent[k], recovered)

WindowOf(k, recovered) ==
  LET window == Append(recent[k], recovered)
  IN IF Len(window) > MinRecent THEN Tail(window) ELSE window

\* Faulty: shadow matches enter the window too.
WindowFromShadow(x, recovered) ==
  recent' = [k \in Keys |->
    IF Matches(k, x) THEN WindowOf(k, recovered) ELSE recent[k]]

\* Only an active rule's outcomes enter its window.
RecordRecent(x, recovered) ==
  recent' = [k \in Keys |->
    IF Active(k, x) THEN WindowOf(k, recovered) ELSE recent[k]]

RecordShadow(x, action, recovered) ==
  shadow' = [k \in Keys |->
    IF ~Matches(k, x) THEN shadow[k]
    ELSE [matched |-> shadow[k].matched + 1,
          agreed  |-> shadow[k].agreed + IF rules[k].rule.action = action THEN 1 ELSE 0,
          recovered |-> shadow[k].recovered + IF recovered THEN 1 ELSE 0]]

Observe(x, action, recovered, handler) ==
  /\ pool' = IF handler # None \/ action = None THEN pool
             ELSE [pool EXCEPT ![[amount |-> x, action |-> action,
                                  recovered |-> recovered]] = @ + 1]
  /\ RecordShadow(x, action, recovered)
  /\ RecordRecent(x, recovered)
  /\ since' = [k \in Keys |-> since[k] + IF Active(k, x) THEN 1 ELSE 0]

NextCase ==
  /\ phase = "case"
  /\ cases < MaxCases
  /\ cases' = cases + 1
  /\ phase' = IF cases' % Cadence = 0 THEN "distill" ELSE "case"

\* Distilled rules have one priority, so any active match may be the first.
RuleHandles(k, x, recovered) ==
  /\ NextCase
  /\ Active(k, x)
  /\ Observe(x, rules[k].rule.action, recovered, k)
  /\ UNCHANGED store

\* The agent may end without an effect.
AgentHandles(x, action, recovered) ==
  /\ NextCase
  /\ ~ \E k \in Keys : Active(k, x)
  /\ Observe(x, action, recovered, None)
  /\ UNCHANGED store

\* A case of the control group is neither handled nor observed.
Control ==
  /\ NextCase
  /\ UNCHANGED <<store, stats, since>>

-----------------------------------------------------------------------------
(* step: distill, promote, demote *)

\* Faulty: the keys already created are not remembered.
CreatedForgotten == Candidates
\* A key is proposed once, whatever became of its rule.
Unproposed == Candidates \ created

\* The proposer answers with a rule of the grammar, or is rejected wholesale.
distill ==
  /\ phase = "distill" /\ phase' = "promote"
  /\ \E answer \in [Unproposed -> Proposals \cup {None}] :
       LET valid == {k \in Unproposed : answer[k] # None} IN
         /\ created' = created \cup valid
         /\ rules' = [k \in Keys |->
              IF k \in valid THEN [status |-> "shadow", rule |-> answer[k]]
              ELSE rules[k]]
  /\ UNCHANGED <<stats, cases, since>>

Promotable(k) ==
  /\ rules[k].status = "shadow"
  /\ qualifies_for_promotion(shadow[k])
  /\ ~_is_high_value_refund(rules[k].rule)

promote ==
  /\ phase = "promote" /\ phase' = "demote"
  /\ rules' = [k \in Keys |->
       IF Promotable(k) THEN [rules[k] EXCEPT !.status = "active"] ELSE rules[k]]
  /\ UNCHANGED <<created, stats, cases, since>>

Demotable(k) == rules[k].status = "active" /\ should_demote(recent[k])

demote ==
  /\ phase = "demote" /\ phase' = "case"
  /\ rules' = [k \in Keys |->
       IF Demotable(k) THEN [rules[k] EXCEPT !.status = "demoted"] ELSE rules[k]]
  /\ recent' = [k \in Keys |-> IF Demotable(k) THEN <<>> ELSE recent[k]]
  /\ UNCHANGED <<created, pool, shadow, cases, since>>

\* The stream of cases ends.
Done == phase = "case" /\ cases = MaxCases /\ UNCHANGED vars

-----------------------------------------------------------------------------
Init ==
  /\ rules = [k \in Keys |-> NoRule]
  /\ created = {}
  /\ pool = [o \in Seen |-> 0]
  /\ shadow = [k \in Keys |-> [matched |-> 0, agreed |-> 0, recovered |-> 0]]
  /\ recent = [k \in Keys |-> <<>>]
  /\ cases = 0 /\ phase = "case"
  /\ since = [k \in Keys |-> 0]

Case ==
  \/ \E x \in Amounts, recovered \in BOOLEAN :
       \/ \E k \in Keys : RuleHandles(k, x, recovered)
       \/ \E action \in ActionNames \cup {None} : AgentHandles(x, action, recovered)
  \/ Control

Next == Case \/ distill \/ promote \/ demote \/ Done

Spec == Init /\ [][Next]_vars

-----------------------------------------------------------------------------
(* Properties *)

\* Every variable has its type; a rule has stood if and only if its key was
\* created, and its statistics count no more than what it matched.
TypeOK ==
  /\ rules \in [Keys -> [status: Status, rule: Proposals \cup {None}]]
  /\ \A k \in Keys : rules[k].status # "none" <=> rules[k].rule \in Proposals
  /\ created = {k \in Keys : rules[k].status # "none"}
  /\ pool \in [Seen -> Nat]
  /\ shadow \in [Keys -> [matched: Nat, agreed: Nat, recovered: Nat]]
  /\ \A k \in Keys : /\ shadow[k].agreed <= shadow[k].matched
                     /\ shadow[k].recovered <= shadow[k].matched
  /\ recent \in [Keys -> Seq(BOOLEAN)]
  /\ \A k \in Keys : Len(recent[k]) <= MinRecent
  /\ cases \in 0..MaxCases /\ phase \in {"case", "distill", "promote", "demote"}
  /\ since \in [Keys -> Nat]

\* README.md:329-331 by its effect (distiller.py:331-347): no distilled rule, of
\* whatever form the proposer gave it, refunds without an agent an amount that
\* the approval gate would have held.
NoHeldAmountRefunded ==
  \A k \in Keys, x \in Amounts :
    Active(k, x) /\ rules[k].rule.action = "refund" => x <= ApprovalThreshold

\* A demoted rule is out for good: its key is never proposed again, and the
\* statistics that promoted it once do not promote it twice.
DemotedStaysOut ==
  [][\A k \in Keys : rules[k].status = "demoted" => rules'[k] = rules[k]]_vars

\* lifecycle.py:24-31: a rule is demoted on evidence of its active time alone,
\* MinRecent matches of it, never on the record it had in shadow.
DemotedOnItsRecord ==
  [][\A k \in Keys : rules[k].status = "active" /\ rules'[k].status = "demoted"
       => since[k] >= MinRecent]_vars

-----------------------------------------------------------------------------
(* Why they hold *)

\* Promotion alone makes a rule active, and it passes over such refunds.
ActiveRulesChecked ==
  \A k \in Keys :
    rules[k].status = "active" => ~_is_high_value_refund(rules[k].rule)

\* The window holds outcomes of matches made while active, and no others.
WindowFromActiveTime == \A k \in Keys : Len(recent[k]) <= since[k]

\* The inductive invariant behind the properties above: what promote checked
\* (distiller.py:284-302) still holds of a rule when it handles a case.
IInv == TypeOK /\ ActiveRulesChecked /\ WindowFromActiveTime

=============================================================================
