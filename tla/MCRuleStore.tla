----------------------------- MODULE MCRuleStore -----------------------------
(* Small instances of RuleStore. *)
EXTENDS RuleStore

num(n)  == [kind |-> "number", of |-> n]
str(s)  == [kind |-> "string", of |-> s]
bool(b) == [kind |-> "bool", of |-> b]
list(s) == [kind |-> "list", of |-> s]

spec(type, allowed) == [type |-> type, allowed |-> allowed]
Reasons == {"risk_blocked", "insufficient_funds"}
MCFields ==
  [failure_reason |-> spec("enum", Reasons),
   amount_inr     |-> spec("number", {}),
   attempt_number |-> spec("number", {})]
MCActions ==
  [escalate_to_human |-> <<>>,
   send_payment_link |-> <<>>,
   refund            |-> [full |-> spec("bool", {})],
   wait_and_retry    |-> [delay_hours |-> spec("number", {})]]

pred(f, op, v) == [field |-> f, op |-> op, value |-> v]
rule(all, a, params) == [all |-> all, action |-> [name |-> a, params |-> params]]

RiskBlocked == pred("failure_reason", "eq", str("risk_blocked"))
Cheap       == pred("amount_inr", "lt", num(10))
Listed      == pred("failure_reason", "in", list(<<str("risk_blocked")>>))
Retried     == pred("attempt_number", "ge", num(1))

MCSeeds ==
  <<[key |-> "seed-risk", priority |-> 10,
     definition |-> rule(<<RiskBlocked>>, "escalate_to_human", <<>>)]>>
TwoSeeds ==
  MCSeeds \o
  <<[key |-> "seed-funds", priority |-> 20,
     definition |-> rule(<<pred("failure_reason", "eq", str("insufficient_funds"))>>,
                         "send_payment_link", <<>>)]>>

Accepted ==
  {rule(<<Cheap>>, "refund", [full |-> bool(FALSE)]),
   rule(<<Listed, Retried>>, "wait_and_retry", [delay_hours |-> num(24)])}
Hostile ==
  {NotAnObject,
   rule(<<NotAnObject>>, "send_payment_link", <<>>),
   rule(<<>>, "send_payment_link", <<>>),
   rule(<<Cheap, Cheap, Cheap>>, "send_payment_link", <<>>),
   rule(<<pred("persona", "eq", str("x"))>>, "send_payment_link", <<>>),
   rule(<<pred("failure_reason", "lt", str("risk_blocked"))>>, "send_payment_link", <<>>),
   rule(<<pred("failure_reason", "eq", str("no_reason"))>>, "send_payment_link", <<>>),
   rule(<<pred("amount_inr", "ge", bool(TRUE))>>, "send_payment_link", <<>>),
   rule(<<pred("amount_inr", "in", list(<<num(5), str("x")>>))>>, "send_payment_link", <<>>),
   rule(<<pred("amount_inr", "in", list(<<>>))>>, "send_payment_link", <<>>),
   rule(<<pred("amount_inr", "in", num(5))>>, "send_payment_link", <<>>),
   rule(<<Cheap>>, "drop_tables", <<>>),
   rule(<<Cheap>>, "refund", <<>>),
   rule(<<Cheap>>, "wait_and_retry", [delay_hours |-> str("soon")]),
   [all |-> <<Cheap>>, action |-> NotAnObject]}
MCProposals == Accepted \cup Hostile
FewProposals == Accepted
\* One that is a rule, two that are skipped, one that is not even read.
MCEdits ==
  {rule(<<Cheap>>, "send_payment_link", <<>>),
   rule(<<pred("failure_reason", "lt", str("risk_blocked"))>>, "send_payment_link", <<>>),
   NotAnObject, Garbled}

case(reason) == [failure_reason |-> str(reason), amount_inr |-> num(5)]
MCContexts ==
  {case(r) : r \in Reasons} \cup
  {[failure_reason |-> str("risk_blocked"), amount_inr |-> num(10),
    attempt_number |-> num(1)]}
=============================================================================
