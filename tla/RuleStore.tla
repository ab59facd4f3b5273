------------------------------ MODULE RuleStore ------------------------------
(***************************************************************************)
(* The versioned rule store (recovery/rules_repo.py), its seeding at       *)
(* startup (recovery/app.py, seed_rules.py) and the router that asks it    *)
(* (recovery/router.py): rows are added, change status, are edited behind  *)
(* the program's back, and decide cases by priority.                       *)
(***************************************************************************)
EXTENDS RuleGrammar, FiniteSetsExt

CONSTANTS
  Seeds,         \* SEED_RULES: key, priority and definition, in order
  DistilledKeys, \* keys of other rules
  Priorities,    \* their priorities
  Proposals,     \* definitions somebody may try to store
  Edits,         \* definitions that an edit of the database may leave behind
  Garbled,       \* text that is no JSON
  Contexts,      \* cases
  MaxRows, MaxDemotions, MaxTampered, MaxCases  \* bounds

Status == {"shadow", "active", "demoted", "disabled"}
SeedKeys == {Seeds[i].key : i \in DOMAIN Seeds}

\* SEED_RULES is a list that is not empty, of distinct keys, whose definitions
\* parse and whose priorities come before those of the other rules.  What
\* add_rule stores is the dump of an object, so it is read again.
ASSUME StoreAssumption ==
  /\ Len(Seeds) \in Nat \ {0} /\ DOMAIN Seeds = 1..Len(Seeds)
  /\ \A i, j \in DOMAIN Seeds : Seeds[i].key = Seeds[j].key => i = j
  /\ \A i \in DOMAIN Seeds : parse_rule(Seeds[i].definition) /\ Seeds[i].priority \in Nat
  /\ Garbled \notin Proposals \cup {Seeds[i].definition : i \in DOMAIN Seeds}
  /\ Priorities \subseteq Nat
  /\ \A i \in DOMAIN Seeds, p \in Priorities : Seeds[i].priority < p
  /\ SeedKeys \cap DistilledKeys = {}
  /\ {MaxRows, MaxDemotions, MaxTampered, MaxCases} \subseteq Nat

\* recovery/context.py:21-46: a case gives its fields the values that the schema
\* says they have, and leaves out the ones it has no value of.
ASSUME ContextAssumption ==
  \A c \in Contexts : \A f \in DOMAIN c \cap DOMAIN Fields :
    c[f].kind = KindOf(Fields[f].type)

VARIABLES
  rows,    \* the rules table
  phase,   \* the service: down, starting, seeding, serving
  seeded,  \* while seeding: how many this start has inserted
  ledger   \* routed cases: what the ledger says of each

vars == <<rows, phase, seeded, ledger>>

Definition == Proposals \cup Edits \cup {Seeds[i].definition : i \in DOMAIN Seeds}
\* tampered is history: the row was edited after it was stored.
Row == [key: SeedKeys \cup DistilledKeys, version: Nat, status: Status, priority: Nat,
        definition: Definition, demotions: 0..MaxDemotions, tampered: BOOLEAN]
\* The key and the action are "" where no rule decided.
Decision == [path: {"deterministic", "llm", "failed"},
             key: SeedKeys \cup DistilledKeys \cup {""}, version: Nat,
             action: DOMAIN Actions \cup {""}, acts: BOOLEAN]

-----------------------------------------------------------------------------
(* Reading *)

WithStatus(status) == {r \in rows : r.status = status}

\* json.loads is outside the try: one row that is no JSON fails the whole read.
ReadFails(status) == \E r \in WithStatus(status) : r.definition = Garbled

\* Re-validated: what no longer parses is skipped.
_load(status) ==
  {r \in WithStatus(status) : r.definition # Garbled /\ parse_rule(r.definition)}

\* Faulty: in the order of the table.
AnyMatches(context) == {r \in _load("active") : evaluate(r.definition, context)}

\* Rules of equal priority come in the order the database likes.
FirstMatches(context) ==
  LET matching == {r \in _load("active") : evaluate(r.definition, context)}
  IN {r \in matching : \A q \in matching : r.priority <= q.priority}

-----------------------------------------------------------------------------
(* Writing *)

\* Faulty: a key keeps its newest version only.
Replaced(row) == {r \in rows : r.key # row.key} \cup {row}
Inserted(row) == rows \cup {row}

NextVersion(key) == 1 + Max({0} \cup {r.version : r \in {q \in rows : q.key = key}})

\* add_rule: a definition that does not parse raises and is not stored.  The
\* version is read in the transaction that inserts it.
Add(key, definition, status, priority) ==
  /\ parse_rule(definition)
  /\ rows' = Inserted([key |-> key, version |-> NextVersion(key), status |-> status,
                       priority |-> priority, definition |-> definition,
                       demotions |-> 0, tampered |-> FALSE])

add_rule(key, definition, status, priority) ==
  /\ phase = "serving"
  /\ Cardinality(rows) < MaxRows
  /\ Add(key, definition, status, priority)
  /\ UNCHANGED <<phase, seeded, ledger>>

\* Faulty: the history starts with the second demotion.
DemotionsForgotten(row, status) ==
  row.demotions + IF status = "demoted" /\ row.demotions > 0 THEN 1 ELSE 0
DemotionsAfter(row, status) == row.demotions + IF status = "demoted" THEN 1 ELSE 0

set_status(row, status) ==
  /\ row.demotions < MaxDemotions \/ status # "demoted"
  /\ rows' = (rows \ {row}) \cup
       {[row EXCEPT !.status = status,
                    !.demotions = DemotionsAfter(row, status)]}
  /\ UNCHANGED <<phase, seeded, ledger>>

\* Somebody edits the database.
Tamper(row, definition) ==
  /\ row.tampered \/ Cardinality({r \in rows : r.tampered}) < MaxTampered
  /\ rows' = (rows \ {row}) \cup
       {[row EXCEPT !.definition = definition, !.tampered = TRUE]}
  /\ UNCHANGED <<phase, seeded, ledger>>

-----------------------------------------------------------------------------
(* The service *)

Start ==
  /\ phase = "down"
  /\ phase' = "starting"
  /\ UNCHANGED <<rows, seeded, ledger>>

\* Faulty: rules that are out of use do not count.
NoneActive == _load("active") = {}
\* _rule_store_is_empty: of all the statuses
StoreIsEmpty == \A status \in Status : _load(status) = {}

\* The statuses are read in this order, until one has a rule.
Before(status) == CASE status = "shadow"   -> {}
                    [] status = "active"   -> {"shadow"}
                    [] status = "demoted"  -> {"shadow", "active"}
                    [] status = "disabled" -> {"shadow", "active", "demoted"}

EmptyCheckFails == \E status \in Status :
  ReadFails(status) /\ \A s \in Before(status) : _load(s) = {}

CheckStore ==
  /\ phase = "starting"
  /\ phase' = IF EmptyCheckFails THEN "down"
              ELSE IF StoreIsEmpty THEN "seeding" ELSE "serving"
  /\ UNCHANGED <<rows, seeded, ledger>>

\* seed: one transaction per rule
SeedNext ==
  /\ phase = "seeding"
  /\ LET next == Seeds[seeded + 1] IN Add(next.key, next.definition, "active", next.priority)
  /\ IF seeded + 1 < Len(Seeds) THEN seeded' = seeded + 1 /\ phase' = phase
                               ELSE seeded' = 0 /\ phase' = "serving"
  /\ UNCHANGED ledger

Crash ==
  /\ phase # "down"
  /\ phase' = "down"
  /\ seeded' = 0
  /\ UNCHANGED <<rows, ledger>>

-----------------------------------------------------------------------------
(* route, and what the pipeline writes of its decision *)

\* Actions that a tool carries out; the others have nothing to execute.
RULE_ACTION_TO_TOOL == {"send_payment_link", "refund", "escalate_to_human"}
Executes(action) == action \in RULE_ACTION_TO_TOOL

Deterministic(row) ==
  [path |-> "deterministic", key |-> row.key, version |-> row.version,
   action |-> row.definition.action.name,
   acts |-> Executes(row.definition.action.name)]
NoRule(path) ==
  [path |-> path, key |-> "", version |-> 0, action |-> "", acts |-> FALSE]

Decisions(context) ==
  IF ReadFails("active") THEN {NoRule("failed")}
  ELSE IF FirstMatches(context) = {} THEN {NoRule("llm")}
  ELSE {Deterministic(r) : r \in FirstMatches(context)}

Route(context) ==
  /\ phase = "serving"
  /\ Len(ledger) < MaxCases
  /\ \E decision \in Decisions(context) : ledger' = Append(ledger, decision)
  /\ UNCHANGED <<rows, phase, seeded>>

-----------------------------------------------------------------------------
Init == rows = {} /\ phase = "down" /\ seeded = 0 /\ ledger = <<>>

Write ==
  \/ \E key \in DistilledKeys, p \in Proposals, status \in {"shadow", "active"},
        priority \in Priorities : add_rule(key, p, status, priority)
  \/ \E row \in rows :
       \/ \E status \in Status \ {row.status} : set_status(row, status)
       \/ \E d \in Edits \ {row.definition} : Tamper(row, d)

Next ==
  \/ Write
  \/ Start \/ CheckStore \/ SeedNext \/ Crash
  \/ \E context \in Contexts : Route(context)

Spec == Init /\ [][Next]_vars

-----------------------------------------------------------------------------
(* Properties *)

\* Rows have their type, key and version name one row, and a row that stands
\* demoted has a demotion on record.
TypeOK ==
  /\ rows \subseteq Row
  /\ \A r, q \in rows : r.key = q.key /\ r.version = q.version => r = q
  /\ \A r \in rows : r.status = "demoted" => r.demotions > 0
  /\ phase \in {"down", "starting", "seeding", "serving"} /\ seeded \in 0..Len(Seeds)
  /\ ledger \in Seq(Decision) /\ Len(ledger) <= MaxCases

\* evaluator.py:31-38: whatever stands in the database, a rule that is loaded
\* asks of a case only what its values can answer: an order among numbers,
\* membership in a list, equality of one kind.  No comparison raises and no rule
\* matches by comparing values of two kinds.
Answerable(p, actual) ==
  CASE p.op = "in" -> /\ p.value.kind = "list"
                      /\ \A i \in DOMAIN p.value.of : p.value.of[i].kind = actual.kind
    [] p.op \in {"eq", "ne"} -> p.value.kind = actual.kind
    [] OTHER -> Ordered(actual, p.value)

LoadedRulesAnswerable ==
  \A status \in Status : \A r \in _load(status), c \in Contexts :
    \A i \in DOMAIN r.definition.all :
      LET p == r.definition.all[i]
      IN p.field \in DOMAIN c => Answerable(p, c[p.field])

\* models.py:83-84: a decision on record goes on naming the row that took it, and
\* that row the action, whatever versions and states the key goes through later.
DecisionsTraceable ==
  \A i \in DOMAIN ledger : ledger[i].path = "deterministic" =>
    \E r \in rows : /\ r.key = ledger[i].key /\ r.version = ledger[i].version
                    /\ \/ r.tampered
                       \/ r.definition.action.name = ledger[i].action

\* app.py:41-42, 71-72: a seed rule that was taken out of use is not put back by a
\* restart; it is inserted again only when every row has been made unusable.
SeedNotRevived ==
  \A r, q \in rows :
    r.key = q.key /\ r.key \in SeedKeys /\ ~r.tampered /\ ~q.tampered => r = q

\* seed_rules.py:3-5: while a seed rule is active and whole, no rule added later
\* decides a case that it matches.
SeedDecidesFirst ==
  [][\A c \in Contexts : Route(c) =>
       \A r \in _load("active") :
         /\ r.key \in SeedKeys /\ evaluate(r.definition, c)
         /\ ledger'[Len(ledger')].path = "deterministic"
         => ledger'[Len(ledger')].key \in SeedKeys]_vars

\* docs/RAZORPAY_TEST_MODE.md:63: on first start the store is seeded with the
\* seed rules, so a service that answers has each of them on record.
SeedsComplete ==
  phase = "serving" => \A key \in SeedKeys : \E r \in rows : r.key = key

-----------------------------------------------------------------------------
(* Why they hold *)

\* Only an edit leaves a row that a read would skip.
UntamperedParse ==
  \A r \in rows : ~r.tampered => r.definition # Garbled /\ parse_rule(r.definition)

\* A seed rule keeps the priority of SEED_RULES, another one has its own.
RowPriorities ==
  \A r \in rows :
    \/ r.key \in DistilledKeys /\ r.priority \in Priorities
    \/ \E i \in DOMAIN Seeds : r.key = Seeds[i].key /\ r.priority = Seeds[i].priority

\* Seeding starts where nothing usable stands: the rows that nobody edited are
\* the ones that this start has inserted.
SeedingFresh ==
  /\ phase # "seeding" => seeded = 0
  /\ phase = "seeding" =>
       /\ seeded < Len(Seeds)
       /\ \A r \in rows : r.tampered \/ \E i \in 1..seeded : r.key = Seeds[i].key

IInv == /\ TypeOK /\ IsFiniteSet(rows) /\ SeedNotRevived /\ DecisionsTraceable
        /\ UntamperedParse /\ RowPriorities /\ SeedingFresh

=============================================================================
