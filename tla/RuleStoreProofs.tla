--------------------------- MODULE RuleStoreProofs ---------------------------
(***************************************************************************)
(* Proofs about RuleStore for every schema, every seed list, every set of  *)
(* proposals and edits, and every bound.                                   *)
(***************************************************************************)
EXTENDS RuleStore, SequenceTheorems, FiniteSetTheorems, TLAPS

-----------------------------------------------------------------------------
(* Operators *)

\* A finite set of naturals that is not empty has a greatest element: its sets of
\* elements from some element on are well-founded, and a smallest of them is the
\* singleton of the greatest.
LEMMA MaxOfFinite ==
  ASSUME NEW V \in SUBSET Nat, V # {}, IsFiniteSet(V)
  PROVE  Max(V) \in V /\ \A v \in V : Max(V) >= v
<1> DEFINE From(w) == {v \in V : v >= w}
           Ends == {From(w) : w \in V}
           R == StrictSubsetOrdering(V)
<1>1. IsWellFoundedOn(R, SUBSET V)
  BY FS_StrictSubsetOrderingWellFounded, FS_FiniteSubsetsOfFinite
<1>2. Ends \subseteq SUBSET V /\ Ends # {}
  OBVIOUS
<1>3. PICK x \in Ends : \A y \in Ends : ~(<<y, x>> \in R)
  <2> HIDE DEF R, Ends
  <2> QED
    BY <1>1, <1>2, WFMin
<1>4. PICK w \in V : x = From(w)
  BY <1>3
<1>5. \A v \in V : w >= v
  <2> SUFFICES ASSUME NEW v \in V, ~(w >= v) PROVE FALSE
    OBVIOUS
  <2>0. v \in Nat /\ w \in Nat /\ V \subseteq Nat
    OBVIOUS
  <2>a. \A u \in V : u >= v => u >= w
    BY <2>0
  <2>b. w >= w /\ ~(w >= v)
    BY <2>0
  <2>1. From(v) \subseteq From(w) /\ w \in From(w) /\ w \notin From(v)
    BY Zenon, <2>a, <2>b
  <2>2. <<From(v), From(w)>> \in R
    BY <2>1 DEF StrictSubsetOrdering
  <2> QED
    BY <2>2, <1>3, <1>4
<1> QED
  BY <1>5 DEF Max

\* A new version of a key is above all that stand.
LEMMA NewVersion ==
  ASSUME TypeOK, IsFiniteSet(rows), NEW key
  PROVE  /\ NextVersion(key) \in Nat
         /\ \A r \in rows : r.key = key => r.version # NextVersion(key)
<1> DEFINE Known == {q \in rows : q.key = key}
           Versions == {r.version : r \in Known}
           V == {0} \cup Versions
           f == [r \in Known |-> r.version]
<1>1. \A r \in rows : r.version \in Nat
  BY DEF TypeOK, Row
<1>2. IsFiniteSet(Known)
  BY FS_Subset
<1>3. IsFiniteSet(Versions)
  <2>1. f \in Surjection(Known, Versions)
    BY DEF Surjection
  <2> HIDE DEF Known, Versions, f
  <2> QED
    BY <2>1, <1>2, FS_Surjection
<1>4. IsFiniteSet(V) /\ V \in SUBSET Nat /\ V # {}
  <2>1. IsFiniteSet({0})
    BY FS_Singleton
  <2>2. IsFiniteSet(V)
    <3> HIDE DEF Versions
    <3> QED
      BY <2>1, <1>3, FS_Union
  <2> QED
    BY <2>2, <1>1
<1>5. NextVersion(key) = 1 + Max(V)
  BY DEF NextVersion
<1>6. Max(V) \in V /\ \A v \in V : Max(V) >= v
  <2> HIDE DEF V
  <2> QED
    BY <1>4, MaxOfFinite
<1>7. Max(V) \in Nat
  BY <1>4, <1>6
<1>8. \A r \in rows : r.key = key => r.version \in V
  OBVIOUS
<1> HIDE DEF V
<1>9. ASSUME NEW r \in rows, r.key = key PROVE r.version # 1 + Max(V)
  <2>1. Max(V) >= r.version /\ r.version \in Nat
    BY <1>1, <1>6, <1>8, <1>9
  <2> QED
    BY <2>1, <1>7
<1> QED
  BY <1>5, <1>7, <1>9

\* What parses asks of a case only what it can answer.
LEMMA ParsedAnswerable ==
  ASSUME NEW definition, parse_rule(definition), NEW c \in Contexts,
         NEW i \in DOMAIN definition.all, definition.all[i].field \in DOMAIN c
  PROVE  Answerable(definition.all[i], c[definition.all[i].field])
<1> DEFINE p == definition.all[i]
           type == Fields[p.field].type
<1>1. /\ p.field \in DOMAIN Fields /\ p.op \in ALLOWED_OPERATORS(type)
      /\ _parse_literal(p.value, Fields[p.field], p.op)
  BY DEF parse_rule, _parse_precondition, _parse_predicate
<1>2. type \in FieldType
  BY <1>1, SchemaAssumption
<1>3. c[p.field].kind = KindOf(type)
  BY <1>1, ContextAssumption
<1>4. CASE p.op = "in"
  <2>1. p.value.kind = "list" /\ \A j \in DOMAIN p.value.of : p.value.of[j].kind = KindOf(type)
    BY <1>1, <1>4 DEF _parse_literal, _scalar
  <2> QED
    BY <2>1, <1>3, <1>4 DEF Answerable
<1>5. CASE p.op # "in"
  <2>1. p.value.kind = KindOf(type)
    BY <1>1, <1>5 DEF _parse_literal, _scalar
  <2>2. p.op \in {"eq", "ne"} \/ type = "number"
    BY <1>1, <1>2, <1>5 DEF ALLOWED_OPERATORS, FieldType
  <2> QED
    BY <2>1, <2>2, <1>3, <1>5 DEF Answerable, Ordered, KindOf
<1> QED
  BY <1>4, <1>5

\* Every row that decides is one that a read of the active rules returns.
LEMMA Deciding ==
  ASSUME NEW c, NEW r \in FirstMatches(c)
  PROVE  /\ r \in rows /\ r \in _load("active") /\ parse_rule(r.definition)
         /\ evaluate(r.definition, c)
         /\ \A q \in _load("active") : evaluate(q.definition, c) => r.priority <= q.priority
BY DEF FirstMatches, _load, WithStatus

LEMMA DecisionsType ==
  ASSUME TypeOK, NEW c, NEW d \in Decisions(c)
  PROVE  /\ d \in Decision
         /\ d.path = "deterministic" =>
              \E r \in FirstMatches(c) : d = Deterministic(r)
<1>1. CASE \E path \in {"failed", "llm"} : d = NoRule(path)
  <2>1. PICK path \in {"failed", "llm"} : d = NoRule(path)
    BY <1>1
  <2>2. /\ d = [path |-> path, key |-> "", version |-> 0, action |-> "", acts |-> FALSE]
        /\ d.path = path /\ 0 \in Nat
    BY <2>1 DEF NoRule
  <2>3. d \in Decision
    BY <2>2 DEF Decision
  <2> QED
    BY <2>2, <2>3
<1>2. ASSUME NEW r \in FirstMatches(c), d = Deterministic(r) PROVE d \in Decision
  <2>1. r \in Row /\ r.definition.action.name \in DOMAIN Actions
    BY Deciding DEF TypeOK, parse_rule, _parse_action
  <2>2. r.key \in SeedKeys \cup DistilledKeys /\ r.version \in Nat
    BY <2>1 DEF Row
  <2>3. Executes(r.definition.action.name) \in BOOLEAN
    BY DEF Executes
  <2> HIDE DEF Executes
  <2> QED
    BY <2>1, <2>2, <2>3, <1>2 DEF Deterministic, Decision
<1> QED
  BY <1>1, <1>2 DEF Decisions

-----------------------------------------------------------------------------
(* Each step keeps the invariant *)

LEMMA InitIInv == Init => IInv
<1> SUFFICES ASSUME Init PROVE IInv
  OBVIOUS
<1>1. TypeOK
  <2>1. Len(Seeds) \in Nat /\ 0 \in 0..Len(Seeds)
    BY StoreAssumption
  <2>2. <<>> \in Seq(Decision) /\ Len(<<>>) = 0
    BY EmptySeq
  <2>3. Len(ledger) <= MaxCases
    BY <2>2, StoreAssumption DEF Init
  <2> QED
    BY <2>1, <2>2, <2>3 DEF Init, TypeOK
<1>2. IsFiniteSet(rows)
  BY FS_EmptySet DEF Init
<1>3. DecisionsTraceable
  BY EmptySeq DEF Init, DecisionsTraceable
<1> QED
  BY <1>1, <1>2, <1>3
  DEF Init, IInv, SeedNotRevived, UntamperedParse, RowPriorities, SeedingFresh

\* A row stands in for another: the same version of the same rule, which says
\* what it said or is marked as edited.
StandsIn(new, row) ==
  /\ new \in Row
  /\ new.key = row.key /\ new.version = row.version /\ new.priority = row.priority
  /\ new.status = "demoted" => new.demotions > 0
  /\ \/ new.tampered
     \/ ~new.tampered /\ ~row.tampered /\ new.definition = row.definition

LEMMA RowReplaced ==
  ASSUME IInv, NEW row \in rows, NEW new, StandsIn(new, row),
         rows' = (rows \ {row}) \cup {new}, UNCHANGED <<phase, seeded, ledger>>
  PROVE  IInv'
<1>1. TypeOK'
  <2>1. rows' \subseteq Row
    BY DEF IInv, TypeOK, StandsIn
  <2>2. \A r, q \in rows : r.key = q.key /\ r.version = q.version => r = q
    BY DEF IInv, TypeOK
  <2>3. \A r, q \in rows' : r.key = q.key /\ r.version = q.version => r = q
    BY <2>2 DEF StandsIn
  <2> QED
    BY <2>1, <2>3 DEF IInv, TypeOK, StandsIn
<1>2. IsFiniteSet(rows')
  BY FS_RemoveElement, FS_AddElement DEF IInv
<1>3. SeedNotRevived'
  BY DEF IInv, SeedNotRevived, StandsIn
<1>4. DecisionsTraceable'
  <2> SUFFICES ASSUME NEW j \in DOMAIN ledger, ledger[j].path = "deterministic"
               PROVE  \E r \in rows' :
                        /\ r.key = ledger[j].key /\ r.version = ledger[j].version
                        /\ r.tampered \/ r.definition.action.name = ledger[j].action
    BY DEF DecisionsTraceable
  <2>1. PICK r \in rows : /\ r.key = ledger[j].key /\ r.version = ledger[j].version
                          /\ r.tampered \/ r.definition.action.name = ledger[j].action
    BY DEF IInv, DecisionsTraceable
  <2>2. CASE r = row
    <3>1. new \in rows'
      OBVIOUS
    <3> QED
      BY <2>1, <2>2, <3>1 DEF StandsIn
  <2>3. CASE r # row
    BY <2>1, <2>3
  <2> QED
    BY <2>2, <2>3
<1>5. UntamperedParse'
  BY DEF IInv, UntamperedParse, StandsIn
<1>6. RowPriorities'
  BY DEF IInv, RowPriorities, StandsIn
<1>7. SeedingFresh'
  BY DEF IInv, SeedingFresh, StandsIn
<1> QED
  BY <1>1, <1>2, <1>3, <1>4, <1>5, <1>6, <1>7 DEF IInv

LEMMA SetStatusKeeps ==
  ASSUME IInv, NEW row \in rows, NEW status \in Status, set_status(row, status)
  PROVE  IInv'
<1> DEFINE new == [row EXCEPT !.status = status, !.demotions = DemotionsAfter(row, status)]
<1>1. row \in Row /\ MaxDemotions \in Nat
  BY StoreAssumption DEF IInv, TypeOK
<1>2. row.demotions \in 0..MaxDemotions
  BY <1>1 DEF Row
<1>3. /\ DemotionsAfter(row, status) \in 0..MaxDemotions
      /\ status = "demoted" => DemotionsAfter(row, status) > 0
  BY <1>1, <1>2 DEF DemotionsAfter, set_status
<1>4. new \in Row
  BY <1>1, <1>3 DEF Row
<1>5. /\ new.key = row.key /\ new.version = row.version /\ new.priority = row.priority
      /\ new.status = status /\ new.demotions = DemotionsAfter(row, status)
      /\ new.tampered = row.tampered /\ new.definition = row.definition
      /\ row.tampered \in BOOLEAN
  BY <1>1 DEF Row
<1>6. rows' = (rows \ {row}) \cup {new} /\ UNCHANGED <<phase, seeded, ledger>>
  BY DEF set_status
<1> HIDE DEF new
<1>7. StandsIn(new, row)
  BY <1>3, <1>4, <1>5 DEF StandsIn
<1> QED
  BY <1>6, <1>7, RowReplaced

LEMMA TamperKeeps ==
  ASSUME IInv, NEW row \in rows, NEW definition \in Edits, Tamper(row, definition)
  PROVE  IInv'
<1> DEFINE new == [row EXCEPT !.definition = definition, !.tampered = TRUE]
<1>1. row \in Row /\ (row.status = "demoted" => row.demotions > 0)
  BY DEF IInv, TypeOK
<1>2. new \in Row
  BY <1>1 DEF Row, Definition
<1>3. /\ new.key = row.key /\ new.version = row.version /\ new.priority = row.priority
      /\ new.status = row.status /\ new.demotions = row.demotions /\ new.tampered
  BY <1>1 DEF Row
<1>4. rows' = (rows \ {row}) \cup {new} /\ UNCHANGED <<phase, seeded, ledger>>
  BY DEF Tamper
<1> HIDE DEF new
<1>5. StandsIn(new, row)
  BY <1>1, <1>2, <1>3 DEF StandsIn
<1> QED
  BY <1>4, <1>5, RowReplaced

\* The row that add_rule inserts.
NewRow(key, definition, status, priority) ==
  [key |-> key, version |-> NextVersion(key), status |-> status, priority |-> priority,
   definition |-> definition, demotions |-> 0, tampered |-> FALSE]

LEMMA RowAdded ==
  ASSUME IInv, NEW key \in SeedKeys \cup DistilledKeys, NEW definition \in Definition,
         definition # Garbled, NEW status \in {"shadow", "active"}, NEW priority \in Nat,
         Add(key, definition, status, priority), ledger' = ledger
  PROVE  LET new == NewRow(key, definition, status, priority)
         IN  /\ rows' = rows \cup {new} /\ new \in Row
             /\ \A r, q \in rows' : r.key = q.key /\ r.version = q.version => r = q
             /\ \A r \in rows' : r.status = "demoted" => r.demotions > 0
             /\ IsFiniteSet(rows')
             /\ DecisionsTraceable'
             /\ UntamperedParse'
<1> DEFINE new == NewRow(key, definition, status, priority)
<1>1. rows' = rows \cup {new} /\ parse_rule(definition)
  BY DEF Add, Inserted, NewRow
<1>2. NextVersion(key) \in Nat /\ \A r \in rows : r.key = key => r.version # NextVersion(key)
  BY NewVersion DEF IInv
<1>3. /\ new.key = key /\ new.version = NextVersion(key) /\ new.status = status
      /\ new.priority = priority /\ new.definition = definition /\ new.tampered = FALSE
  BY DEF NewRow
<1>4. new \in Row
  <2>1. 0 \in 0..MaxDemotions
    BY StoreAssumption
  <2> QED
    BY <2>1, <1>2 DEF NewRow, Row, Status
<1> HIDE DEF new
<1>5. \A r, q \in rows' : r.key = q.key /\ r.version = q.version => r = q
  BY <1>1, <1>2, <1>3 DEF IInv, TypeOK
<1>6. \A r \in rows' : r.status = "demoted" => r.demotions > 0
  BY <1>1, <1>3 DEF IInv, TypeOK
<1>7. IsFiniteSet(rows')
  BY <1>1, FS_AddElement DEF IInv
<1>8. DecisionsTraceable'
  BY <1>1 DEF IInv, DecisionsTraceable
<1>9. UntamperedParse'
  BY <1>1, <1>3 DEF IInv, UntamperedParse
<1> QED
  BY <1>1, <1>4, <1>5, <1>6, <1>7, <1>8, <1>9 DEF new

LEMMA AddRuleKeeps ==
  ASSUME IInv, NEW key \in DistilledKeys, NEW p \in Proposals,
         NEW status \in {"shadow", "active"}, NEW priority \in Priorities,
         add_rule(key, p, status, priority)
  PROVE  IInv'
<1> DEFINE new == NewRow(key, p, status, priority)
<1>1. /\ Add(key, p, status, priority) /\ phase = "serving"
      /\ UNCHANGED <<phase, seeded, ledger>>
  BY DEF add_rule
<1>2. p \in Definition /\ p # Garbled /\ priority \in Nat
  BY StoreAssumption DEF Definition
<1>3. /\ rows' = rows \cup {new} /\ new \in Row
      /\ \A r, q \in rows' : r.key = q.key /\ r.version = q.version => r = q
      /\ \A r \in rows' : r.status = "demoted" => r.demotions > 0
      /\ IsFiniteSet(rows') /\ DecisionsTraceable' /\ UntamperedParse'
  BY <1>1, <1>2, RowAdded
<1>4. new.key = key /\ new.priority = priority
  BY DEF NewRow
<1> HIDE DEF new
<1>5. key \notin SeedKeys
  BY StoreAssumption
<1>6. TypeOK'
  BY <1>1, <1>3 DEF IInv, TypeOK
<1>7. SeedNotRevived'
  BY <1>3, <1>4, <1>5 DEF IInv, SeedNotRevived
<1>8. RowPriorities'
  BY <1>3, <1>4 DEF IInv, RowPriorities
<1>9. SeedingFresh'
  BY <1>1 DEF IInv, SeedingFresh
<1> QED
  BY <1>3, <1>6, <1>7, <1>8, <1>9 DEF IInv

\* Nothing usable stands where seeding starts, and a row that nobody edited is
\* usable whatever its status.
LEMMA CheckStoreKeeps ==
  ASSUME IInv, CheckStore
  PROVE  IInv'
<1>1. /\ phase = "starting" /\ phase' \in {"down", "seeding", "serving"}
      /\ phase' = "seeding" => StoreIsEmpty
      /\ rows' = rows /\ seeded' = seeded /\ ledger' = ledger
  BY DEF CheckStore
<1>2. seeded = 0 /\ Len(Seeds) \in Nat /\ Len(Seeds) > 0
  BY <1>1, StoreAssumption DEF IInv, SeedingFresh
<1>3. TypeOK'
  BY <1>1 DEF IInv, TypeOK
<1>4. ASSUME StoreIsEmpty, NEW r \in rows, ~r.tampered PROVE FALSE
  <2>1. r.status \in Status
    BY DEF IInv, TypeOK, Row
  <2>2. r \in _load(r.status)
    BY <1>4 DEF IInv, UntamperedParse, _load, WithStatus
  <2> QED
    BY <2>1, <2>2, <1>4 DEF StoreIsEmpty
<1>5. SeedingFresh'
  BY <1>1, <1>2, <1>4 DEF SeedingFresh
<1> QED
  BY <1>1, <1>3, <1>5
  DEF IInv, SeedNotRevived, DecisionsTraceable, UntamperedParse, RowPriorities

LEMMA SeedNextKeeps ==
  ASSUME IInv, SeedNext
  PROVE  IInv'
<1> DEFINE next == Seeds[seeded + 1]
           new  == NewRow(next.key, next.definition, "active", next.priority)
<1>1. phase = "seeding" /\ ledger' = ledger
      /\ Add(next.key, next.definition, "active", next.priority)
  BY DEF SeedNext
<1>2. /\ Len(Seeds) \in Nat /\ seeded \in Nat /\ seeded < Len(Seeds)
      /\ \A r \in rows : r.tampered \/ \E i \in 1..seeded : r.key = Seeds[i].key
  BY <1>1, StoreAssumption DEF IInv, TypeOK, SeedingFresh
<1>3. seeded + 1 \in DOMAIN Seeds /\ \A i \in 1..seeded : i \in DOMAIN Seeds /\ i # seeded + 1
  BY <1>2, StoreAssumption
<1>4. \/ seeded + 1 < Len(Seeds) /\ seeded' = seeded + 1 /\ phase' = "seeding"
      \/ seeded' = 0 /\ phase' = "serving"
  BY <1>1 DEF SeedNext
<1>5. /\ next.key \in SeedKeys \cup DistilledKeys /\ next.definition \in Definition
      /\ next.definition # Garbled /\ next.priority \in Nat
  BY <1>3, StoreAssumption DEF SeedKeys, Definition
<1>6. \A r \in rows : ~r.tampered => r.key # next.key
  BY <1>2, <1>3, StoreAssumption
<1>7. /\ rows' = rows \cup {new} /\ new \in Row
      /\ \A r, q \in rows' : r.key = q.key /\ r.version = q.version => r = q
      /\ \A r \in rows' : r.status = "demoted" => r.demotions > 0
      /\ IsFiniteSet(rows') /\ DecisionsTraceable' /\ UntamperedParse'
  <2> HIDE DEF next
  <2> QED
    BY <1>1, <1>5, RowAdded
<1>8. new.key = next.key /\ new.priority = next.priority
  BY DEF NewRow
<1> HIDE DEF new
<1>9. TypeOK'
  <2>1. seeded' \in 0..Len(Seeds) /\ phase' \in {"seeding", "serving"}
    BY <1>2, <1>4
  <2> QED
    BY <2>1, <1>1, <1>7 DEF IInv, TypeOK
<1>10. SeedNotRevived'
  BY <1>6, <1>7, <1>8 DEF IInv, SeedNotRevived
<1>11. RowPriorities'
  BY <1>3, <1>7, <1>8 DEF IInv, RowPriorities
<1>12. SeedingFresh'
  <2>1. CASE phase' = "serving"
    BY <2>1, <1>4 DEF SeedingFresh
  <2>2. CASE phase' = "seeding"
    <3>1. seeded' = seeded + 1 /\ seeded' < Len(Seeds)
      BY <2>2, <1>4
    <3>2. seeded + 1 \in 1..(seeded + 1) /\ \A i \in 1..seeded : i \in 1..(seeded + 1)
      BY <1>2
    <3>3. \A r \in rows' : r.tampered \/ \E i \in 1..(seeded + 1) : r.key = Seeds[i].key
      BY <3>2, <1>2, <1>7, <1>8
    <3> QED
      BY <3>1, <3>3, <2>2 DEF SeedingFresh
  <2> QED
    BY <2>1, <2>2, <1>4
<1> QED
  BY <1>7, <1>9, <1>10, <1>11, <1>12 DEF IInv

LEMMA RouteKeeps ==
  ASSUME IInv, NEW c, Route(c)
  PROVE  IInv'
<1>1. /\ rows' = rows /\ phase' = phase /\ seeded' = seeded /\ Len(ledger) < MaxCases
      /\ \E d \in Decisions(c) : ledger' = Append(ledger, d)
  BY DEF Route
<1>2. PICK d \in Decisions(c) : ledger' = Append(ledger, d)
  BY <1>1
<1>3. d \in Decision /\ (d.path = "deterministic" =>
                           \E r \in FirstMatches(c) : d = Deterministic(r))
  BY DecisionsType DEF IInv
<1>4. /\ ledger \in Seq(Decision) /\ Len(ledger) \in Nat /\ MaxCases \in Nat
      /\ ledger' \in Seq(Decision) /\ Len(ledger') = Len(ledger) + 1
      /\ \A j \in 1..Len(ledger) : ledger'[j] = ledger[j]
      /\ ledger'[Len(ledger) + 1] = d
      /\ DOMAIN ledger = 1..Len(ledger) /\ DOMAIN ledger' = 1..Len(ledger')
  BY <1>2, <1>3, AppendProperties, LenProperties, StoreAssumption DEF IInv, TypeOK
<1>5. TypeOK'
  BY <1>1, <1>4 DEF IInv, TypeOK
<1>6. DecisionsTraceable'
  <2> SUFFICES ASSUME NEW j \in DOMAIN ledger', ledger'[j].path = "deterministic"
               PROVE  \E r \in rows :
                        /\ r.key = ledger'[j].key /\ r.version = ledger'[j].version
                        /\ r.tampered \/ r.definition.action.name = ledger'[j].action
    BY <1>1 DEF DecisionsTraceable
  <2>1. CASE j \in 1..Len(ledger)
    BY <2>1, <1>4 DEF IInv, DecisionsTraceable
  <2>2. CASE j = Len(ledger) + 1
    <3>1. PICK r \in FirstMatches(c) : d = Deterministic(r)
      BY <2>2, <1>3, <1>4
    <3>2. r \in rows
      BY Deciding
    <3>3. d.key = r.key /\ d.version = r.version /\ d.action = r.definition.action.name
      BY <3>1 DEF Deterministic
    <3> QED
      BY <3>2, <3>3, <2>2, <1>4
  <2> QED
    BY <2>1, <2>2, <1>4
<1> QED
  BY <1>1, <1>5, <1>6
  DEF IInv, SeedNotRevived, UntamperedParse, RowPriorities, SeedingFresh

LEMMA StartCrashKeep ==
  ASSUME IInv, Start \/ Crash
  PROVE  IInv'
<1>1. /\ phase' \in {"starting", "down"} /\ rows' = rows /\ ledger' = ledger
      /\ seeded' = 0
  BY DEF Start, Crash, IInv, SeedingFresh
<1>2. TypeOK'
  BY <1>1, StoreAssumption DEF IInv, TypeOK
<1>3. SeedingFresh'
  BY <1>1 DEF SeedingFresh
<1> QED
  BY <1>1, <1>2, <1>3
  DEF IInv, SeedNotRevived, DecisionsTraceable, UntamperedParse, RowPriorities

LEMMA NextKeepsIInv == IInv /\ [Next]_vars => IInv'
<1> SUFFICES ASSUME IInv, [Next]_vars PROVE IInv'
  OBVIOUS
<1>1. ASSUME NEW key \in DistilledKeys, NEW p \in Proposals,
             NEW status \in {"shadow", "active"}, NEW priority \in Priorities,
             add_rule(key, p, status, priority)
      PROVE  IInv'
  BY <1>1, AddRuleKeeps
<1>2. ASSUME NEW row \in rows, NEW status \in Status \ {row.status}, set_status(row, status)
      PROVE  IInv'
  BY <1>2, SetStatusKeeps
<1>3. ASSUME NEW row \in rows, NEW d \in Edits \ {row.definition}, Tamper(row, d)
      PROVE  IInv'
  BY <1>3, TamperKeeps
<1>4. CASE Start \/ Crash
  BY <1>4, StartCrashKeep
<1>5. CASE CheckStore
  BY <1>5, CheckStoreKeeps
<1>6. CASE SeedNext
  BY <1>6, SeedNextKeeps
<1>7. ASSUME NEW c \in Contexts, Route(c) PROVE IInv'
  BY <1>7, RouteKeeps
<1>8. CASE UNCHANGED vars
  BY <1>8 DEF vars, IInv, TypeOK, SeedNotRevived, DecisionsTraceable, UntamperedParse,
              RowPriorities, SeedingFresh
<1> QED
  BY <1>1, <1>2, <1>3, <1>4, <1>5, <1>6, <1>7, <1>8 DEF Next, Write

-----------------------------------------------------------------------------
(* Theorems *)

\* The invariant, which the theorems below are read off.
THEOREM StoreInductive == Spec => []IInv
<1>1. Init => IInv
  BY InitIInv
<1>2. IInv /\ [Next]_vars => IInv'
  BY NextKeepsIInv
<1> QED
  BY <1>1, <1>2, PTL DEF Spec

\* models.py:77-97: rows have their columns' types, and key and version go on
\* naming one row (versions are counted per key in the inserting transaction).
THEOREM StoreTypesCorrect == Spec => []TypeOK
<1>1. IInv => TypeOK
  BY DEF IInv
<1> QED
  BY <1>1, StoreInductive, PTL

\* A rule that the repository loads can be asked of every case: whatever stands
\* in the database, evaluate never compares values of two kinds.
THEOREM LoadedRulesAlwaysAnswerable == Spec => []LoadedRulesAnswerable
<1>1. LoadedRulesAnswerable
  <2> SUFFICES ASSUME NEW status \in Status, NEW r \in _load(status), NEW c \in Contexts,
                      NEW i \in DOMAIN r.definition.all,
                      r.definition.all[i].field \in DOMAIN c
               PROVE  Answerable(r.definition.all[i], c[r.definition.all[i].field])
    BY DEF LoadedRulesAnswerable
  <2>1. parse_rule(r.definition)
    BY DEF _load
  <2> QED
    BY <2>1, ParsedAnswerable
<1> QED
  BY <1>1, PTL

\* A decision in the ledger goes on naming a row that stands, and the action that
\* the row says, unless somebody edited it.
THEOREM DecisionsStayTraceable == Spec => []DecisionsTraceable
<1>1. IInv => DecisionsTraceable
  BY DEF IInv
<1> QED
  BY <1>1, StoreInductive, PTL

\* No restart puts a seed rule back that was taken out of use.
THEOREM SeedsNeverRevived == Spec => []SeedNotRevived
<1>1. IInv => SeedNotRevived
  BY DEF IInv
<1> QED
  BY <1>1, StoreInductive, PTL

\* Whatever rules are added, a case that a whole and active seed rule matches is
\* decided by a seed rule, if a rule decides it.
THEOREM SeedsDecideFirst == Spec => SeedDecidesFirst
<1> DEFINE Rule == \A c \in Contexts : Route(c) =>
       \A r \in _load("active") :
         /\ r.key \in SeedKeys /\ evaluate(r.definition, c)
         /\ ledger'[Len(ledger')].path = "deterministic"
         => ledger'[Len(ledger')].key \in SeedKeys
<1>1. ASSUME IInv, NEW c \in Contexts, Route(c), NEW r \in _load("active"),
             r.key \in SeedKeys, evaluate(r.definition, c),
             ledger'[Len(ledger')].path = "deterministic"
      PROVE  ledger'[Len(ledger')].key \in SeedKeys
  <2>1. PICK d \in Decisions(c) : ledger' = Append(ledger, d)
    BY <1>1 DEF Route
  <2>2. ledger'[Len(ledger')] = d
    <3>1. ledger \in Seq(Decision) /\ d \in Decision
      BY <1>1, DecisionsType DEF IInv, TypeOK
    <3> QED
      BY <3>1, <2>1, AppendProperties
  <2>3. PICK q \in FirstMatches(c) : d = Deterministic(q)
    BY <1>1, <2>2, DecisionsType DEF IInv
  <2>4. q \in rows /\ q.priority <= r.priority /\ r \in rows
    <3>1. q \in rows /\ q.priority <= r.priority
      BY <1>1, Deciding
    <3> QED
      BY <1>1, <3>1 DEF _load, WithStatus
  <2>5. PICK i \in DOMAIN Seeds : r.priority = Seeds[i].priority
    BY <1>1, <2>4, StoreAssumption DEF IInv, RowPriorities
  <2>6. q.key \in SeedKeys
    <3> SUFFICES ASSUME q.key \notin SeedKeys PROVE FALSE
      OBVIOUS
    <3>1. q.priority \in Priorities
      BY <1>1, <2>4 DEF IInv, RowPriorities, SeedKeys
    <3>2. Seeds[i].priority < q.priority /\ Seeds[i].priority \in Nat /\ q.priority \in Nat
      BY <3>1, StoreAssumption
    <3> QED
      BY <3>2, <2>4, <2>5
  <2> QED
    BY <2>2, <2>3, <2>6 DEF Deterministic
<1>2. IInv /\ [Next]_vars => Rule
  BY <1>1
<1>3. SeedDecidesFirst <=> [][Rule]_vars
  BY DEF SeedDecidesFirst
<1> HIDE DEF Rule
<1> QED
  BY <1>2, <1>3, StoreInductive, PTL DEF Spec

=============================================================================
