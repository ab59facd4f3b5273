----------------------------- MODULE RuleGrammar -----------------------------
(***************************************************************************)
(* The closed grammar of rules (agentcore/rules/) over the vocabulary that *)
(* recovery/rule_schema.py injects: which proposals parse, and when a      *)
(* parsed rule matches a case.                                             *)
(*                                                                         *)
(* A JSON scalar is [kind, of], a list has kind "list".  NotAnObject is    *)
(* any JSON without exactly the keys that its place asks for.              *)
(***************************************************************************)
EXTENDS Integers, Sequences, FiniteSets

CONSTANTS
  Fields,         \* payment_rule_schema's fields: [type, allowed] by name
  Actions,        \* its actions: parameters by name, [type, allowed] by name
  MaxPredicates,  \* max_predicates
  MaxInList,      \* max_in_list
  NotAnObject

FieldType == {"number", "string", "bool", "enum"}

ASSUME SchemaAssumption ==
  /\ \A f \in DOMAIN Fields : Fields[f].type \in FieldType
  /\ \A a \in DOMAIN Actions :
       \A p \in DOMAIN Actions[a] : Actions[a][p].type \in FieldType
  /\ {MaxPredicates, MaxInList} \subseteq Nat

-----------------------------------------------------------------------------
(* parse_rule *)

\* Faulty: every operator for every type.
AnyOperators(type) == {"eq", "ne", "lt", "le", "gt", "ge", "in"}
ALLOWED_OPERATORS(type) ==
  CASE type = "number" -> {"eq", "ne", "lt", "le", "gt", "ge", "in"}
    [] type \in {"string", "enum"} -> {"eq", "ne", "in"}
    [] type = "bool" -> {"eq", "ne"}

\* Members of an enum are strings.
KindOf(type) == IF type = "enum" THEN "string" ELSE type

_scalar(value, spec) ==
  /\ value.kind = KindOf(spec.type)
  /\ spec.type = "enum" => value.of \in spec.allowed

_parse_literal(value, spec, op) ==
  IF op = "in"
  THEN /\ value.kind = "list"
       /\ Len(value.of) \in 1..MaxInList
       /\ \A i \in DOMAIN value.of : _scalar(value.of[i], spec)
  ELSE _scalar(value, spec)

_parse_predicate(p) ==
  /\ p # NotAnObject
  /\ p.field \in DOMAIN Fields
  /\ p.op \in ALLOWED_OPERATORS(Fields[p.field].type)
  /\ _parse_literal(p.value, Fields[p.field], p.op)

_parse_precondition(all) ==
  /\ Len(all) \in 1..MaxPredicates
  /\ \A i \in DOMAIN all : _parse_predicate(all[i])

_parse_action(a) ==
  /\ a # NotAnObject
  /\ a.name \in DOMAIN Actions
  /\ DOMAIN a.params = DOMAIN Actions[a.name]
  /\ \A p \in DOMAIN a.params : _scalar(a.params[p], Actions[a.name][p])

\* Whether the proposal parses: any violation rejects the whole of it.
parse_rule(proposal) ==
  /\ proposal # NotAnObject
  /\ _parse_precondition(proposal.all)
  /\ _parse_action(proposal.action)

-----------------------------------------------------------------------------
(* evaluate: context gives some of the fields their values *)

Same(a, b) == a.kind = b.kind /\ a.of = b.of

\* Two values that do not compare make the predicate false (TypeError).
Ordered(a, b) == a.kind = "number" /\ b.kind = "number"

Compare(op, actual, value) ==
  CASE op = "eq" -> Same(actual, value)
    [] op = "ne" -> ~Same(actual, value)
    [] op = "in" -> value.kind = "list"
                    /\ \E i \in DOMAIN value.of : Same(actual, value.of[i])
    [] op = "lt" -> Ordered(actual, value) /\ actual.of < value.of
    [] op = "le" -> Ordered(actual, value) /\ actual.of <= value.of
    [] op = "gt" -> Ordered(actual, value) /\ actual.of > value.of
    [] op = "ge" -> Ordered(actual, value) /\ actual.of >= value.of

evaluate(rule, context) ==
  \A i \in DOMAIN rule.all :
    LET p == rule.all[i]
    IN p.field \in DOMAIN context /\ Compare(p.op, context[p.field], p.value)

=============================================================================
