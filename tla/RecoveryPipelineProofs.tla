------------------------ MODULE RecoveryPipelineProofs ------------------------
(***************************************************************************)
(* One route per provider event and at most one effect per key, for every  *)
(* set of notifications, every interleaving of their tasks and every crash.*)
(***************************************************************************)
EXTENDS RecoveryPipeline, FiniteSetTheorems, SequenceTheorems, TLAPS

-----------------------------------------------------------------------------
(* The inductive invariant *)

RoutedPaths == {"deterministic", "llm"}

\* The endpoint stores an event per notification, and schedules what it stored
\* before anything else can: the drain is over by then.
HandlerInStep ==
  /\ raw <= deliveries
  /\ phase = "serving" => drain = {}
  /\ handler # None => phase = "serving"
  /\ handler # None /\ handler.pc = "normalise" => Len(events) < raw
  /\ handler # None /\ handler.pc = "schedule" =>
       Len(events) > 0 /\ At(Len(events), "none")

OneHolder == \A i, j \in EventRow : Holds(i) /\ Holds(j) => i = j

\* No row of the ledger routed a delivery of the same event.
Unrouted(id) ==
  EventIdOf(id) # NoEventId =>
    \A i \in DOMAIN ledger : EventIdOf(ledger[i].event) = EventIdOf(id)
      => ledger[i].path \notin RoutedPaths

\* A call that was routed and has no ledger row yet.
Routes(row) ==
  \/ row.pc \in {"route", "agent", "act", "settle", "trajectory"}
  \/ row.pc = "record" /\ row.path \in RoutedPaths

\* What a call knows where it stands; that it checked for a redelivery still holds.
CallOK(id, row) ==
  /\ row \in Work
  /\ row.pc \in {"act", "settle"} => row.tool \in Tools /\ row.path \in RoutedPaths
  /\ row.pc \in {"agent", "trajectory"} => row.path = "llm"
  /\ row.pc = "trajectory" => row.outcome \in Outcomes
  /\ row.pc = "record" => row.path \in Paths /\ row.outcome \in Outcomes
  /\ Routes(row) => Unrouted(id)

CallsKnow == \A id \in EventRow : CallOK(id, work[id])

\* The provider acted under k, and the result is about to be stored.
InSettle(k) == \E id \in EventRow : At(id, "settle") /\ KeyOf(id) = k
OneOf(k)    == IF k \in settled \/ InSettle(k) THEN 1 ELSE 0

\* Every effect is settled, about to be, or its result is lost.
EffectsCounted == \A k \in Keys : effects[k] <= lapses[k] + OneOf(k)

Inv == TypeOK /\ HandlerInStep /\ OneHolder /\ CallsKnow /\ RoutedOncePerEventId /\ EffectsCounted

-----------------------------------------------------------------------------
LEMMA NoWorkOK == NoWork \in Work /\ NoWork.pc = "none"
BY ConfigAssumption DEF NoWork, Work, PC

LEMMA InitInv == Init => Inv
<1> SUFFICES ASSUME Init PROVE Inv
  OBVIOUS
<1>1. TypeOK
  BY ConfigAssumption, NoWorkOK DEF Init, TypeOK, At
<1>2. HandlerInStep /\ OneHolder /\ RoutedOncePerEventId
  BY NoWorkOK DEF Init, HandlerInStep, OneHolder, Holds, RoutedOncePerEventId
<1>3. CallsKnow
  BY NoWorkOK DEF Init, CallsKnow, CallOK, Routes
<1>4. EffectsCounted
  <2>1. \A k \in Keys : OneOf(k) \in {0, 1}
    BY DEF OneOf
  <2> QED
    BY <2>1 DEF Init, EffectsCounted
<1> QED
  BY <1>1, <1>2, <1>3, <1>4 DEF Inv

LEMMA StoredIsRow ==
  ASSUME Inv
  PROVE  /\ DOMAIN events \subseteq EventRow
         /\ Len(events) \in Nat /\ DOMAIN events = 1..Len(events)
BY ConfigAssumption DEF Inv, TypeOK, EventRow

\* A call at work is for a stored event, and an effect it asks for has a key.
LEMMA CallFacts ==
  ASSUME Inv, NEW id \in EventRow, ~At(id, "none")
  PROVE  /\ id \in DOMAIN events /\ events[id] \in Webhooks
         /\ work[id] \in Work /\ CallOK(id, work[id])
         /\ work[id].pc \in {"act", "settle"} => KeyOf(id) \in Keys
<1>1. id \in DOMAIN events /\ events[id] \in Webhooks /\ CallOK(id, work[id])
  BY DEF Inv, TypeOK, CallsKnow
<1> QED
  BY <1>1 DEF CallOK, KeyOf, Keys

-----------------------------------------------------------------------------
(* Steps that change one entry of work *)

\* What is kept when a call of process goes on, or begins with the lock.
LEMMA EntryStep ==
  ASSUME Inv, NEW id \in EventRow, id \in DOMAIN events,
         NEW row, CallOK(id, row), work' = [work EXCEPT ![id] = row],
         UNCHANGED <<raw, events, ledger, phase, handler, bounds>>,
         LockFree \/ Holds(id), phase = "serving" => ~At(id, "none"),
         drain' \subseteq drain
  PROVE  /\ HandlerInStep' /\ OneHolder' /\ CallsKnow' /\ RoutedOncePerEventId'
         /\ work' \in [EventRow -> Work]
         /\ \A i \in EventRow : ~At(i, "none")' => i \in DOMAIN events
         /\ \A i \in EventRow : work'[i] = IF i = id THEN row ELSE work[i]
<1>1. \A i \in EventRow : work'[i] = IF i = id THEN row ELSE work[i]
  BY DEF Inv, TypeOK
<1>2. HandlerInStep'
  <2>1. Len(events) > 0 => Len(events) \in EventRow
    BY StoredIsRow
  <2>2. handler # None /\ handler.pc = "schedule" => id # Len(events)
    BY DEF Inv, HandlerInStep
  <2>3. handler # None /\ handler.pc = "schedule" =>
          Len(events) > 0 /\ At(Len(events), "none")'
    BY <1>1, <2>1, <2>2 DEF Inv, HandlerInStep, At
  <2> QED
    BY <2>3 DEF Inv, HandlerInStep, bounds
<1>3. OneHolder'
  BY <1>1 DEF Inv, OneHolder, LockFree, Holds
<1>4. \A i \in EventRow : Unrouted(i)' = Unrouted(i)
  BY DEF Unrouted, EventIdOf
<1>5. CallsKnow'
  BY <1>1, <1>4 DEF Inv, CallsKnow, CallOK
<1>6. RoutedOncePerEventId'
  BY DEF Inv, RoutedOncePerEventId, EventIdOf
<1>7. work' \in [EventRow -> Work]
  BY DEF Inv, TypeOK, CallOK
<1>8. \A i \in EventRow : ~At(i, "none")' => i \in DOMAIN events
  BY <1>1 DEF Inv, TypeOK, At
<1> QED
  BY <1>1, <1>2, <1>3, <1>5, <1>6, <1>7, <1>8

\* Nor do the effects change, unless the call is about to settle one.
LEMMA QuietEntry ==
  ASSUME Inv, NEW id \in EventRow, id \in DOMAIN events,
         NEW row, CallOK(id, row), work' = [work EXCEPT ![id] = row],
         UNCHANGED <<raw, events, ledger, phase, handler, bounds, settled, history>>,
         LockFree \/ Holds(id), phase = "serving" => ~At(id, "none"),
         ~At(id, "settle"), row.pc # "settle", drain' \subseteq drain,
         trajectories' \in Nat, routed' \subseteq DOMAIN events
  PROVE  Inv'
<1>1. /\ HandlerInStep' /\ OneHolder' /\ CallsKnow' /\ RoutedOncePerEventId'
      /\ work' \in [EventRow -> Work]
      /\ \A i \in EventRow : ~At(i, "none")' => i \in DOMAIN events
      /\ \A i \in EventRow : work'[i] = IF i = id THEN row ELSE work[i]
  BY EntryStep
<1>2. TypeOK'
  BY <1>1 DEF Inv, TypeOK, bounds, history
<1>3. \A k \in Keys : OneOf(k)' = OneOf(k)
  <2>1. \A i \in EventRow : At(i, "settle")' <=> At(i, "settle")
    BY <1>1 DEF At
  <2>2. \A i \in EventRow : At(i, "settle") => KeyOf(i)' = KeyOf(i)
    BY <1>1 DEF At, KeyOf
  <2>3. \A k \in Keys : InSettle(k)' <=> InSettle(k)
    BY <2>1, <2>2 DEF InSettle
  <2> QED
    BY <2>3 DEF OneOf
<1>4. EffectsCounted'
  BY <1>3 DEF Inv, EffectsCounted, history
<1> QED
  BY <1>1, <1>2, <1>4 DEF Inv

\* The lock is taken for a stored event, by a task or by the drain.
LEMMA BeginStep ==
  ASSUME Inv, Begin
  PROVE  Inv'
<1>1. ASSUME NEW id \in EventRow, id \in DOMAIN events, LockFree, Goto(id, "delivery"),
             UNCHANGED <<db, phase, handler, bounds, history>>, drain' \subseteq drain,
             phase = "serving" => ~At(id, "none")
      PROVE  Inv'
  <2>1. work' = [work EXCEPT ![id] = [work[id] EXCEPT !.pc = "delivery"]]
    BY <1>1 DEF Goto, Inv, TypeOK
  <2>2. CallOK(id, [work[id] EXCEPT !.pc = "delivery"])
    BY DEF Inv, TypeOK, CallOK, Routes, Work, PC
  <2>3. ~At(id, "settle") /\ [work[id] EXCEPT !.pc = "delivery"].pc = "delivery"
    BY <1>1 DEF LockFree, Holds, At, Inv, TypeOK, Work
  <2> QED
    BY <1>1, <2>1, <2>2, <2>3, QuietEntry DEF db, Inv, TypeOK
<1>2. ASSUME NEW id \in EventRow, TaskBegins(id) PROVE Inv'
  <2>1. id \in DOMAIN events
    BY <1>2, CallFacts DEF TaskBegins, At
  <2> QED
    BY <1>1, <1>2, <2>1 DEF TaskBegins, service, At
<1>3. CASE DrainNext
  <2>1. PICK id \in drain : Goto(id, "delivery") /\ drain' = drain \ {id}
    BY <1>3 DEF DrainNext
  <2>2. id \in EventRow /\ id \in DOMAIN events
    BY StoredIsRow DEF Inv, TypeOK
  <2>3. phase # "serving"
    BY DEF Inv, HandlerInStep
  <2> QED
    BY <1>1, <1>3, <2>1, <2>2, <2>3 DEF DrainNext
<1> QED
  BY <1>2, <1>3 DEF Begin

-----------------------------------------------------------------------------
(* Steps of the call that holds the lock *)

LEMMA QuietCallStep ==
  ASSUME Inv, NEW id \in EventRow, NEW row, Holds(id), ~At(id, "settle"),
         work' = [work EXCEPT ![id] = row], CallOK(id, row), row.pc # "settle",
         UNCHANGED <<raw, events, ledger, settled, service, history>>,
         trajectories' \in Nat, routed' \subseteq DOMAIN events
  PROVE  Inv'
<1>1. ~At(id, "none")
  BY DEF Holds, At
<1>2. id \in DOMAIN events
  BY <1>1, CallFacts
<1> QED
  BY <1>1, <1>2, QuietEntry DEF service

\* The fields of a ledger row are complete before it is written.
LEMMA ConcludeOK ==
  ASSUME Inv, NEW id \in EventRow, NEW path \in Paths, NEW outcome \in Outcomes,
         path \in RoutedPaths => Unrouted(id)
  PROVE  LET row == [work[id] EXCEPT !.pc = "record", !.path = path, !.outcome = outcome]
         IN  CallOK(id, row) /\ row.pc = "record"
<1> DEFINE row == [work[id] EXCEPT !.pc = "record", !.path = path, !.outcome = outcome]
<1>1. work[id] \in Work
  BY DEF Inv, TypeOK
<1>2. row \in Work /\ row.pc = "record" /\ row.path = path /\ row.outcome = outcome
  BY <1>1 DEF Work, PC
<1> QED
  BY <1>2 DEF CallOK, Routes

LEMMA DecideStep ==
  ASSUME Inv, NEW id \in EventRow,
         CheckDelivery(id) \/ RouteFails(id) \/ RouteToRule(id) \/ RouteToAgent(id)
  PROVE  Inv'
<1>1. work[id] \in Work /\ CallOK(id, work[id])
  BY DEF Inv, TypeOK, CallsKnow
<1>2. /\ UNCHANGED <<db, service, history>>
      /\ Holds(id) /\ ~At(id, "settle")
      /\ trajectories' \in Nat /\ routed' \subseteq DOMAIN events
  BY DEF CheckDelivery, RouteFails, RouteToRule, RouteToAgent, Holds, At, db, Inv, TypeOK
<1>3. \A row : work' = [work EXCEPT ![id] = row] /\ CallOK(id, row) /\ row.pc # "settle" => Inv'
  BY <1>2, QuietCallStep DEF db
<1>4. ASSUME NEW path \in Paths, NEW outcome \in Outcomes, Conclude(id, path, outcome),
             path \in RoutedPaths => Unrouted(id)
      PROVE  Inv'
  BY <1>3, <1>4, ConcludeOK DEF Conclude
<1>5. At(id, "route") => Unrouted(id)
  BY <1>1 DEF CallOK, Routes, At
<1>6. CASE CheckDelivery(id)
  <2>1. CASE Return(id)
    BY <2>1, <1>3, NoWorkOK DEF Return, CallOK, Routes
  <2>2. CASE Conclude(id, "duplicate_delivery", "duplicate")
    BY <2>2, <1>4 DEF Paths, Outcomes, RoutedPaths
  <2>3. CASE ~ProcessedDelivery(id) /\ Goto(id, "route")
    <3>1. Unrouted(id)
      BY <2>3 DEF ProcessedDelivery, Unrouted, RoutedPaths
    <3>2. work' = [work EXCEPT ![id] = [work[id] EXCEPT !.pc = "route"]]
      BY <2>3 DEF Goto, Inv, TypeOK
    <3>3. CallOK(id, [work[id] EXCEPT !.pc = "route"])
      BY <1>1, <3>1 DEF CallOK, Routes, Work, PC
    <3> QED
      BY <1>1, <1>3, <3>2, <3>3 DEF Work
  <2> QED
    BY <1>6, <2>1, <2>2, <2>3 DEF CheckDelivery
<1>7. CASE RouteFails(id)
  BY <1>7, <1>4 DEF RouteFails, Fail, Paths, Outcomes, RoutedPaths
<1>8. CASE RouteToRule(id)
  <2>1. ASSUME NEW outcome \in {"done", "failed"}, Conclude(id, "deterministic", outcome)
        PROVE  Inv'
    BY <2>1, <1>4, <1>5, <1>8 DEF RouteToRule, Paths, Outcomes
  <2>2. ASSUME NEW t \in Tools,
               work' = [work EXCEPT ![id] =
                          [@ EXCEPT !.pc = "act", !.path = "deterministic", !.tool = t]]
        PROVE  Inv'
    <3> DEFINE row == [work[id] EXCEPT !.pc = "act", !.path = "deterministic", !.tool = t]
    <3>1. row \in Work /\ row.pc = "act" /\ row.path = "deterministic" /\ row.tool = t
      BY <1>1 DEF Work, PC, Paths
    <3>2. CallOK(id, row)
      BY <1>5, <1>8, <3>1 DEF RouteToRule, CallOK, RoutedPaths
    <3> QED
      BY <1>3, <2>2, <3>1, <3>2 DEF Inv, TypeOK
  <2> QED
    BY <1>8, <2>1, <2>2 DEF RouteToRule
<1>9. CASE RouteToAgent(id)
  <2> DEFINE row == [work[id] EXCEPT !.pc = "agent", !.path = "llm"]
  <2>1. row \in Work /\ row.pc = "agent" /\ row.path = "llm"
    BY <1>1 DEF Work, PC, Paths
  <2>2. CallOK(id, row)
    BY <1>5, <1>9, <2>1 DEF RouteToAgent, CallOK
  <2> QED
    BY <1>3, <1>9, <2>1, <2>2 DEF RouteToAgent, Inv, TypeOK
<1> QED
  BY <1>6, <1>7, <1>8, <1>9

LEMMA AgentStep ==
  ASSUME Inv, NEW id \in EventRow,
         \/ \E t \in Tools : AgentCallsTool(id, t)
         \/ AgentEnds(id) \/ AgentRaises(id) \/ SaveTrajectory(id)
  PROVE  Inv'
<1>1. work[id] \in Work /\ CallOK(id, work[id])
  BY DEF Inv, TypeOK, CallsKnow
<1>2. /\ UNCHANGED <<raw, events, ledger, settled, service, history>>
      /\ Holds(id) /\ ~At(id, "settle") /\ (At(id, "agent") \/ At(id, "trajectory"))
      /\ trajectories' \in Nat /\ routed' \subseteq DOMAIN events
  <2>1. trajectories \in Nat /\ routed \subseteq DOMAIN events
    BY DEF Inv, TypeOK
  <2>2. CASE SaveTrajectory(id)
    BY <2>1, <2>2 DEF SaveTrajectory, Holds, At
  <2>3. CASE (\E t \in Tools : AgentCallsTool(id, t)) \/ AgentEnds(id) \/ AgentRaises(id)
    BY <2>1, <2>3 DEF AgentCallsTool, AgentEnds, AgentRaises, Holds, At, db
  <2> QED
    BY <2>2, <2>3
<1>3. \A row : work' = [work EXCEPT ![id] = row] /\ CallOK(id, row) /\ row.pc # "settle" => Inv'
  BY <1>2, QuietCallStep
<1>4. Unrouted(id) /\ work[id].path = "llm"
  BY <1>1, <1>2 DEF CallOK, Routes, At
<1>5. ASSUME NEW t \in Tools, AgentCallsTool(id, t) PROVE Inv'
  <2> DEFINE row == [work[id] EXCEPT !.pc = "act", !.tool = t, !.left = work[id].left - 1]
  <2>1. work[id].left - 1 \in 0..MaxIterations
    <3>1. work[id].left \in 0..MaxIterations
      BY <1>1 DEF Work
    <3>2. work[id].left > 0
      BY <1>5 DEF AgentCallsTool
    <3> QED
      BY <3>1, <3>2, ConfigAssumption
  <2>2. row \in Work /\ row.pc = "act" /\ row.path = "llm" /\ row.tool = t
    BY <1>1, <1>4, <2>1 DEF Work, PC
  <2>3. CallOK(id, row)
    BY <1>4, <2>2 DEF CallOK, RoutedPaths
  <2>4. work' = [work EXCEPT ![id] = row]
    BY <1>5 DEF AgentCallsTool, Inv, TypeOK
  <2> QED
    BY <1>3, <2>2, <2>3, <2>4
<1>6. CASE AgentEnds(id)
  <2>1. PICK outcome \in {"done", "failed"} :
          work' = [work EXCEPT ![id] = [work[id] EXCEPT !.pc = "trajectory", !.outcome = outcome]]
    BY <1>6 DEF AgentEnds, Inv, TypeOK
  <2> DEFINE row == [work[id] EXCEPT !.pc = "trajectory", !.outcome = outcome]
  <2>2. /\ row \in Work /\ row.pc = "trajectory" /\ row.path = "llm"
        /\ row.outcome \in Outcomes
    BY <1>1, <1>4 DEF Work, PC, Outcomes
  <2>3. CallOK(id, row)
    BY <1>4, <2>2 DEF CallOK
  <2> QED
    BY <1>3, <2>1, <2>2, <2>3
<1>7. CASE AgentRaises(id)
  <2>1. Conclude(id, "failed", "failed")
    BY <1>7 DEF AgentRaises, Fail
  <2> QED
    BY <1>3, <2>1, ConcludeOK DEF Conclude, Paths, Outcomes, RoutedPaths
<1>8. CASE SaveTrajectory(id)
  <2> DEFINE row == [work[id] EXCEPT !.pc = "record"]
  <2>1. work' = [work EXCEPT ![id] = row]
    BY <1>8 DEF SaveTrajectory, Goto, Inv, TypeOK
  <2>2. row \in Work /\ row.pc = "record" /\ row.path = "llm" /\ row.outcome = work[id].outcome
    BY <1>1, <1>4 DEF Work, PC
  <2>3. CallOK(id, row)
    BY <1>1, <1>4, <1>8, <2>2 DEF SaveTrajectory, At, CallOK, Paths
  <2> QED
    BY <1>3, <2>1, <2>2, <2>3
<1> QED
  BY <1>5, <1>6, <1>7, <1>8

-----------------------------------------------------------------------------
(* Effects and their results *)

\* Only the lock's holder can be about to settle an effect.
LEMMA HolderAlone ==
  ASSUME Inv, NEW id \in EventRow, Holds(id)
  PROVE  /\ id \in DOMAIN events /\ ~At(id, "none")
         /\ \A i \in EventRow : Holds(i) => i = id
         /\ \A i \in EventRow : At(i, "settle") => i = id
         /\ ~At(id, "settle") => \A k \in Keys : ~InSettle(k)
<1>1. ~At(id, "none")
  BY DEF Holds, At
<1>2. \A i \in EventRow : Holds(i) => i = id
  BY DEF Inv, OneHolder
<1>3. \A i \in EventRow : At(i, "settle") => i = id
  BY <1>2 DEF At, Holds
<1>4. ~At(id, "settle") => \A k \in Keys : ~InSettle(k)
  BY <1>3 DEF InSettle
<1> QED
  BY <1>1, <1>2, <1>3, <1>4, CallFacts

\* Where a call goes on from a tool call.
LEMMA AfterActRow ==
  ASSUME Inv, NEW id \in EventRow, At(id, "act") \/ At(id, "settle"), AfterAct(id)
  PROVE  \E row : /\ work' = [work EXCEPT ![id] = row]
                  /\ CallOK(id, row) /\ row.pc # "settle"
<1>1. work[id] \in Work /\ CallOK(id, work[id])
  BY DEF Inv, TypeOK, CallsKnow
<1>2. Unrouted(id)
  BY <1>1 DEF CallOK, Routes, At
<1>3. CASE work[id].path = "deterministic" /\ Conclude(id, "deterministic", "done")
  BY <1>2, <1>3, ConcludeOK DEF Conclude, Paths, Outcomes
<1>4. CASE work[id].path = "llm" /\ Goto(id, "agent")
  <2> DEFINE row == [work[id] EXCEPT !.pc = "agent"]
  <2>1. row \in Work /\ row.pc = "agent" /\ row.path = "llm"
    BY <1>1, <1>4 DEF Work, PC
  <2>2. CallOK(id, row)
    BY <1>2, <2>1 DEF CallOK
  <2> QED
    BY <1>4, <2>1, <2>2 DEF Goto, Inv, TypeOK
<1> QED
  BY <1>3, <1>4 DEF AfterAct

LEMMA NoEffectStep ==
  ASSUME Inv, NEW id \in EventRow, NoEffect(id)
  PROVE  Inv'
<1>1. PICK row : work' = [work EXCEPT ![id] = row] /\ CallOK(id, row) /\ row.pc # "settle"
  BY AfterActRow DEF NoEffect
<1>2. Holds(id) /\ ~At(id, "settle")
  BY DEF NoEffect, Holds, At
<1>3. trajectories' \in Nat /\ routed' \subseteq DOMAIN events
  BY DEF NoEffect, Inv, TypeOK, db
<1>4. UNCHANGED <<raw, events, ledger, settled, service, history>>
  BY DEF NoEffect, db
<1> QED
  BY <1>1, <1>2, <1>3, <1>4, QuietCallStep

\* The provider acts: no result is stored under the key, and nobody else is about
\* to store one.
LEMMA ActStep ==
  ASSUME Inv, NEW id \in EventRow, Act(id)
  PROVE  Inv'
<1> DEFINE row == [work[id] EXCEPT !.pc = "settle"]
<1>1. Holds(id) /\ ~At(id, "settle") /\ ~At(id, "none")
  BY DEF Act, Holds, At
<1>2. work[id] \in Work /\ CallOK(id, work[id])
  BY <1>1, CallFacts DEF Act, At
<1>3. PICK key \in Keys : key = KeyOf(id)
  BY <1>1, CallFacts DEF Act, At
<1>4. row \in Work /\ row.pc = "settle" /\ row.tool = work[id].tool /\ row.path = work[id].path
  BY <1>2 DEF Work, PC
<1>5. CallOK(id, row)
  BY <1>2, <1>4 DEF Act, At, CallOK, Routes
<1>6. work' = [work EXCEPT ![id] = row]
  BY DEF Act, Goto, Inv, TypeOK
<1>7. UNCHANGED <<raw, events, ledger, phase, handler, bounds, drain>> /\ id \in DOMAIN events
  BY <1>1, CallFacts DEF Act, db, service
<1>8. /\ HandlerInStep' /\ OneHolder' /\ CallsKnow' /\ RoutedOncePerEventId'
      /\ work' \in [EventRow -> Work]
      /\ \A i \in EventRow : ~At(i, "none")' => i \in DOMAIN events
      /\ \A i \in EventRow : work'[i] = IF i = id THEN row ELSE work[i]
  BY <1>1, <1>5, <1>6, <1>7, EntryStep
<1>9. /\ effects' = [effects EXCEPT ![key] = effects[key] + 1]
      /\ effects \in [Keys -> Nat] /\ lapses \in [Keys -> Nat]
  BY <1>3 DEF Act, ProviderActs, Inv, TypeOK
<1>10. TypeOK'
  <2>1. effects' \in [Keys -> Nat]
    BY <1>9
  <2>2. UNCHANGED <<db, service, lapses>>
    BY DEF Act
  <2> QED
    BY <1>8, <2>1, <2>2 DEF Inv, TypeOK, db, service, bounds
<1>11. EffectsCounted'
  <2>1. \A k \in Keys : ~InSettle(k)
    BY <1>1, HolderAlone
  <2>2. InSettle(key)'
    BY <1>4, <1>7, <1>8, <1>3 DEF InSettle, At, KeyOf, EventIdOf
  <2>3. key \notin settled /\ settled' = settled /\ lapses' = lapses
    BY <1>3 DEF Act, ExecutorAllows, db
  <2>4. OneOf(key) = 0 /\ OneOf(key)' = 1
    BY <2>1, <2>2, <2>3 DEF OneOf
  <2>5. \A k \in Keys : OneOf(k) \in {0, 1} /\ OneOf(k)' \in {0, 1}
    BY DEF OneOf
  <2>6. \A k \in Keys : k # key => effects'[k] = effects[k] /\ OneOf(k)' >= OneOf(k)
    BY <1>9, <2>1, <2>3, <2>5 DEF OneOf
  <2>7. effects'[key] <= lapses'[key] + OneOf(key)'
    BY <1>9, <2>3, <2>4 DEF Inv, EffectsCounted
  <2>8. \A k \in Keys : k # key => effects'[k] <= lapses'[k] + OneOf(k)'
    BY <1>9, <2>3, <2>5, <2>6 DEF Inv, EffectsCounted
  <2> QED
    BY <2>7, <2>8 DEF EffectsCounted
<1> QED
  BY <1>8, <1>10, <1>11 DEF Inv

\* The handler raises: whatever the provider did is counted as lost.
LEMMA RaiseStep ==
  ASSUME Inv, NEW id \in EventRow, ActRaises(id)
  PROVE  Inv'
<1> DEFINE row == [work[id] EXCEPT !.pc = "record", !.path = "failed", !.outcome = "failed"]
           key == KeyOf(id)
<1>1. Holds(id) /\ ~At(id, "settle") /\ ~At(id, "none")
  BY DEF ActRaises, Holds, At
<1>2. work[id] \in Work /\ key \in Keys /\ id \in DOMAIN events
  BY <1>1, CallFacts DEF ActRaises, At
<1>3. CallOK(id, row) /\ row.pc = "record"
  BY ConcludeOK DEF Paths, Outcomes, RoutedPaths
<1>4. work' = [work EXCEPT ![id] = row]
  BY DEF ActRaises, Fail, Conclude, Inv, TypeOK
<1>5. UNCHANGED <<db, service>>
  BY DEF ActRaises
<1>6. /\ HandlerInStep' /\ OneHolder' /\ CallsKnow' /\ RoutedOncePerEventId'
      /\ work' \in [EventRow -> Work]
      /\ \A i \in EventRow : ~At(i, "none")' => i \in DOMAIN events
      /\ \A i \in EventRow : work'[i] = IF i = id THEN row ELSE work[i]
  BY <1>1, <1>2, <1>3, <1>4, <1>5, EntryStep DEF db, service
<1>7. effects \in [Keys -> Nat] /\ lapses \in [Keys -> Nat]
  BY DEF Inv, TypeOK
<1>8. \/ effects' = effects /\ lapses' = lapses
      \/ /\ effects' = [effects EXCEPT ![key] = effects[key] + 1]
         /\ lapses' = [lapses EXCEPT ![key] = lapses[key] + 1]
  BY <1>7 DEF ActRaises, ProviderActs
<1>9. effects' \in [Keys -> Nat] /\ lapses' \in [Keys -> Nat]
  BY <1>2, <1>7, <1>8
<1>10. TypeOK'
  BY <1>5, <1>6, <1>9 DEF Inv, TypeOK, db, service, bounds
<1>11. EffectsCounted'
  <2>1. \A k \in Keys : ~InSettle(k)
    BY <1>1, HolderAlone
  <2>2. \A i \in EventRow : ~At(i, "settle")'
    BY <1>1, <1>3, <1>6, HolderAlone DEF At
  <2>3. \A k \in Keys : OneOf(k)' = OneOf(k) /\ OneOf(k) \in {0, 1}
    BY <2>1, <2>2, <1>5 DEF OneOf, InSettle, db
  <2>4. \A k \in Keys : effects[k] <= lapses[k] + OneOf(k)
    BY DEF Inv, EffectsCounted
  <2>5. \A k \in Keys : effects'[k] <= lapses'[k] + OneOf(k)
    BY <1>7, <1>8, <2>3, <2>4
  <2> QED
    BY <2>3, <2>5 DEF EffectsCounted
<1> QED
  BY <1>6, <1>10, <1>11 DEF Inv

LEMMA SettleStep ==
  ASSUME Inv, NEW id \in EventRow, Settle(id)
  PROVE  Inv'
<1> DEFINE key == KeyOf(id)
<1>1. At(id, "settle") /\ Holds(id) /\ ~At(id, "none")
  BY DEF Settle, Holds, At
<1>2. key \in Keys /\ id \in DOMAIN events
  BY <1>1, CallFacts DEF At
<1>3. PICK row : work' = [work EXCEPT ![id] = row] /\ CallOK(id, row) /\ row.pc # "settle"
  BY AfterActRow DEF Settle
<1>4. UNCHANGED <<raw, events, ledger, routed, trajectories, service, history>>
  BY DEF Settle
<1>5. /\ HandlerInStep' /\ OneHolder' /\ CallsKnow' /\ RoutedOncePerEventId'
      /\ work' \in [EventRow -> Work]
      /\ \A i \in EventRow : ~At(i, "none")' => i \in DOMAIN events
      /\ \A i \in EventRow : work'[i] = IF i = id THEN row ELSE work[i]
  BY <1>1, <1>2, <1>3, <1>4, EntryStep DEF service
<1>6. settled' = settled \cup {key}
  BY DEF Settle
<1>7. TypeOK'
  BY <1>2, <1>4, <1>5, <1>6 DEF Inv, TypeOK, service, bounds, history
<1>8. \A k \in Keys : OneOf(k) = OneOf(k)'
  <2>1. \A k \in Keys : InSettle(k) <=> k = key
    BY <1>1, HolderAlone DEF InSettle
  <2>2. \A k \in Keys : ~InSettle(k)'
    BY <1>1, <1>3, <1>5, HolderAlone DEF InSettle, At
  <2> QED
    BY <1>6, <2>1, <2>2 DEF OneOf
<1>9. EffectsCounted'
  BY <1>4, <1>8 DEF Inv, EffectsCounted, history
<1> QED
  BY <1>5, <1>7, <1>9 DEF Inv

-----------------------------------------------------------------------------
(* The ledger row and the routing columns *)

LEMMA RecordStep ==
  ASSUME Inv, NEW id \in EventRow, Record(id)
  PROVE  Inv'
<1> DEFINE entry == [event |-> id, path |-> work[id].path, outcome |-> work[id].outcome]
<1>1. At(id, "record") /\ Holds(id) /\ ~At(id, "none") /\ ~At(id, "settle")
  BY DEF Record, Holds, At
<1>2. work[id] \in Work /\ CallOK(id, work[id]) /\ id \in DOMAIN events
  BY <1>1, CallFacts
<1>3. entry \in LedgerRow
  BY <1>1, <1>2 DEF CallOK, At, LedgerRow
<1>4. /\ ledger \in Seq(LedgerRow) /\ ledger' = Append(ledger, entry)
      /\ \A i \in DOMAIN ledger : ledger[i].event \in DOMAIN events
  BY DEF Record, Inv, TypeOK
<1>5. /\ ledger' \in Seq(LedgerRow) /\ DOMAIN ledger' = 1..(Len(ledger) + 1)
      /\ DOMAIN ledger = 1..Len(ledger) /\ Len(ledger) \in Nat
      /\ \A i \in DOMAIN ledger : ledger'[i] = ledger[i]
      /\ ledger'[Len(ledger) + 1] = entry
  BY <1>3, <1>4, AppendProperties
<1>6. UNCHANGED <<raw, events, routed, trajectories, settled, service, history>>
  BY DEF Record
<1>7. PICK row \in Work : /\ work' = [work EXCEPT ![id] = row]
                          /\ row.pc \in {"none", "mark"}
  <2>1. [work[id] EXCEPT !.pc = "mark"] \in Work
    BY <1>2 DEF Work, PC
  <2>2. CASE Return(id)
    BY <2>2, NoWorkOK DEF Return
  <2>3. CASE Goto(id, "mark")
    BY <1>2, <2>1, <2>3 DEF Goto, Inv, TypeOK, Work
  <2> QED
    BY <2>2, <2>3 DEF Record
<1>8. /\ work' \in [EventRow -> Work]
      /\ \A i \in EventRow : work'[i] = IF i = id THEN row ELSE work[i]
  BY <1>7 DEF Inv, TypeOK
<1>9. TypeOK'
  <2>1. \A i \in DOMAIN ledger' : ledger'[i].event \in DOMAIN events
    BY <1>2, <1>4, <1>5
  <2>2. \A i \in EventRow : ~At(i, "none")' => i \in DOMAIN events
    BY <1>2, <1>8 DEF Inv, TypeOK, At
  <2> QED
    BY <1>5, <1>6, <1>8, <2>1, <2>2 DEF Inv, TypeOK, service, bounds, history
<1>10. HandlerInStep'
  <2>1. Len(events) > 0 => Len(events) \in EventRow
    BY StoredIsRow
  <2>2. handler # None /\ handler.pc = "schedule" =>
          Len(events) > 0 /\ At(Len(events), "none")'
    BY <1>1, <1>6, <1>8, <2>1 DEF Inv, HandlerInStep, At
  <2> QED
    BY <1>6, <2>2 DEF Inv, HandlerInStep, service, bounds
<1>11. OneHolder'
  BY <1>1, <1>8, HolderAlone DEF OneHolder, Holds
<1>12. CallsKnow'
  <2>1. \A i \in EventRow : ~Routes(work'[i])
    BY <1>1, <1>7, <1>8, HolderAlone DEF Routes, Holds
  <2>2. CallOK(id, work[id])'
    <3>1. work'[id] = row
      BY <1>8
    <3> QED
      BY <1>7, <2>1, <3>1 DEF CallOK
  <2>3. \A i \in EventRow \ {id} : CallOK(i, work[i])'
    BY <1>8, <2>1 DEF CallOK, Inv, CallsKnow
  <2> QED
    BY <2>2, <2>3 DEF CallsKnow
<1>13. RoutedOncePerEventId'
  <2>1. \A i \in DOMAIN events : EventIdOf(i)' = EventIdOf(i)
    BY <1>6 DEF EventIdOf
  <2>2. work[id].path \in RoutedPaths => Unrouted(id)
    BY <1>1, <1>2 DEF CallOK, Routes, At
  <2>3. ASSUME NEW i \in DOMAIN ledger, NEW n, n = Len(ledger) + 1,
               ledger'[i].path \in RoutedPaths, ledger'[n].path \in RoutedPaths,
               EventIdOf(ledger'[i].event) = EventIdOf(ledger'[n].event),
               EventIdOf(ledger'[i].event) # NoEventId
        PROVE  FALSE
    BY <1>5, <2>2, <2>3 DEF Unrouted
  <2>4. ASSUME NEW i \in DOMAIN ledger', NEW j \in DOMAIN ledger',
               ledger'[i].path \in RoutedPaths, ledger'[j].path \in RoutedPaths,
               EventIdOf(ledger'[i].event) = EventIdOf(ledger'[j].event),
               EventIdOf(ledger'[i].event) # NoEventId
        PROVE  i = j
    <3>1. CASE i \in DOMAIN ledger /\ j \in DOMAIN ledger
      BY <1>5, <2>4, <3>1 DEF Inv, RoutedOncePerEventId, RoutedPaths
    <3>2. CASE i \in DOMAIN ledger /\ j = Len(ledger) + 1
      BY <2>3, <2>4, <3>2
    <3>3. CASE j \in DOMAIN ledger /\ i = Len(ledger) + 1
      BY <2>3, <2>4, <3>3
    <3> QED
      BY <1>5, <2>4, <3>1, <3>2, <3>3
  <2>5. events' = events
    BY <1>6
  <2> QED
    BY <2>4, <2>5 DEF RoutedOncePerEventId, RoutedPaths, EventIdOf
<1>14. EffectsCounted'
  <2>1. \A k \in Keys : ~InSettle(k)
    BY <1>1, HolderAlone
  <2>2. \A i \in EventRow : ~At(i, "settle")'
    BY <1>1, <1>7, <1>8, HolderAlone DEF At
  <2>3. \A k \in Keys : OneOf(k)' = OneOf(k)
    BY <1>6, <2>1, <2>2 DEF OneOf, InSettle
  <2> QED
    BY <1>6, <2>3 DEF Inv, EffectsCounted, history
<1> QED
  BY <1>9, <1>10, <1>11, <1>12, <1>13, <1>14 DEF Inv

LEMMA MarkStep ==
  ASSUME Inv, NEW id \in EventRow, MarkEvent(id)
  PROVE  Inv'
<1>1. Holds(id) /\ ~At(id, "settle") /\ ~At(id, "none")
  BY DEF MarkEvent, Holds, At
<1>2. CallOK(id, NoWork)
  BY NoWorkOK DEF CallOK, Routes
<1>3. work' = [work EXCEPT ![id] = NoWork] /\ NoWork.pc # "settle"
  BY NoWorkOK DEF MarkEvent, Return
<1>4. trajectories' \in Nat /\ routed' \subseteq DOMAIN events
  BY <1>1, CallFacts DEF MarkEvent, Inv, TypeOK
<1>5. UNCHANGED <<raw, events, ledger, settled, service, history>>
  BY DEF MarkEvent
<1> QED
  BY <1>1, <1>2, <1>3, <1>4, <1>5, QuietCallStep

LEMMA ProcessStep ==
  ASSUME Inv, NEW id \in EventRow, Process(id)
  PROVE  Inv'
BY DecideStep, AgentStep, NoEffectStep, ActStep, RaiseStep, SettleStep, RecordStep, MarkStep
   DEF Process

-----------------------------------------------------------------------------
(* The webhook endpoint *)

\* A request that is only received, or whose notification is not understood.
LEMMA ReceiveStep ==
  ASSUME Inv, (\E w \in Webhooks : ReceiveWebhook(w)) \/ NormalisationFails
  PROVE  Inv'
<1>1. UNCHANGED <<events, ledger, routed, trajectories, settled, phase, work, drain, history>>
  BY DEF ReceiveWebhook, NormalisationFails, db, bounds
<1>2. HandlerInStep' /\ raw' \in 0..MaxDeliveries /\ Len(events) <= raw'
      /\ deliveries' \in 0..MaxDeliveries /\ crashes' = crashes
      /\ (handler' = None \/ handler' \in [pc: {"normalise", "schedule"}, webhook: Webhooks])
  <2>1. Len(events) \in Nat
    BY StoredIsRow
  <2>2. CASE NormalisationFails
    BY <1>1, <2>1, <2>2 DEF NormalisationFails, Inv, TypeOK, HandlerInStep, db, bounds
  <2>3. ASSUME NEW w \in Webhooks, ReceiveWebhook(w)
        PROVE  /\ handler' = [pc |-> "normalise", webhook |-> w]
               /\ raw' = raw + 1 /\ deliveries' = deliveries + 1
               /\ deliveries < MaxDeliveries /\ phase = "serving" /\ crashes' = crashes
    BY <2>3 DEF ReceiveWebhook
  <2>4. CASE \E w \in Webhooks : ReceiveWebhook(w)
    BY <1>1, <2>1, <2>3, <2>4, ConfigAssumption DEF Inv, TypeOK, HandlerInStep
  <2> QED
    BY <2>2, <2>4
<1>3. TypeOK'
  BY <1>1, <1>2 DEF Inv, TypeOK, At, history
<1>4. OneHolder' /\ RoutedOncePerEventId'
  BY <1>1 DEF Inv, OneHolder, Holds, RoutedOncePerEventId, EventIdOf
<1>5. CallsKnow'
  BY <1>1 DEF Inv, CallsKnow, CallOK, Routes, Unrouted, EventIdOf
<1>6. EffectsCounted'
  BY <1>1 DEF Inv, EffectsCounted, OneOf, InSettle, At, KeyOf, history
<1> QED
  BY <1>2, <1>3, <1>4, <1>5, <1>6 DEF Inv

\* A new event changes nothing for the calls and the rows of those before it.
LEMMA PersistStep ==
  ASSUME Inv, PersistInternal
  PROVE  Inv'
<1>1. /\ UNCHANGED <<raw, ledger, routed, trajectories, settled, phase, work,
                     drain, bounds, history>>
      /\ events' = Append(events, handler.webhook)
      /\ handler # None /\ handler.pc = "normalise"
      /\ handler' = [handler EXCEPT !.pc = "schedule"]
  BY DEF PersistInternal
<1>2. handler.webhook \in Webhooks /\ Len(events) < raw /\ events \in Seq(Webhooks)
  BY <1>1 DEF Inv, TypeOK, HandlerInStep
<1>3. /\ events' \in Seq(Webhooks) /\ DOMAIN events' = 1..(Len(events) + 1)
      /\ Len(events') = Len(events) + 1
      /\ Len(events) \in Nat /\ DOMAIN events = 1..Len(events)
      /\ \A i \in DOMAIN events : events'[i] = events[i]
  BY <1>1, <1>2, AppendProperties
<1>4. DOMAIN events \subseteq DOMAIN events'
  BY <1>3
<1>5. handler' \in [pc: {"normalise", "schedule"}, webhook: Webhooks] /\ handler'.pc = "schedule"
  BY <1>1 DEF Inv, TypeOK
<1>6. TypeOK'
  <2>1. Len(events') <= raw
    BY <1>2, <1>3 DEF Inv, TypeOK
  <2>2. raw \in 0..MaxDeliveries /\ trajectories \in Nat /\ ledger \in Seq(LedgerRow)
        /\ settled \subseteq Keys /\ phase \in {"down", "draining", "serving"}
        /\ work \in [EventRow -> Work]
        /\ deliveries \in 0..MaxDeliveries /\ crashes \in 0..MaxCrashes
        /\ effects \in [Keys -> Nat] /\ lapses \in [Keys -> Nat]
    BY DEF Inv, TypeOK
  <2>3. /\ \A i \in DOMAIN ledger : ledger[i].event \in DOMAIN events'
        /\ routed \subseteq DOMAIN events' /\ drain \subseteq DOMAIN events'
        /\ \A i \in EventRow : ~At(i, "none") => i \in DOMAIN events'
    BY <1>4 DEF Inv, TypeOK
  <2> QED
    BY <1>1, <1>3, <1>5, <2>1, <2>2, <2>3 DEF TypeOK, At, bounds, history
<1>7. HandlerInStep'
  <2>1. Len(events') \in EventRow /\ Len(events') \notin DOMAIN events
    BY <1>2, <1>3, ConfigAssumption DEF Inv, TypeOK, EventRow
  <2>2. At(Len(events'), "none")
    BY <2>1 DEF Inv, TypeOK
  <2> QED
    BY <1>1, <1>3, <1>5, <2>2 DEF Inv, HandlerInStep, At, bounds
<1>8. \A i \in DOMAIN events : EventIdOf(i)' = EventIdOf(i)
  BY <1>3 DEF EventIdOf
<1>9. \A i \in DOMAIN ledger : ledger[i].event \in DOMAIN events
  BY DEF Inv, TypeOK
<1>10. OneHolder'
  BY <1>1 DEF Inv, OneHolder, Holds
<1>11. RoutedOncePerEventId'
  <2>1. \A i \in DOMAIN ledger : EventIdOf(ledger[i].event)' = EventIdOf(ledger[i].event)
    BY <1>1, <1>8, <1>9
  <2> QED
    BY <1>1, <2>1 DEF Inv, RoutedOncePerEventId
<1>12. CallsKnow'
  <2>1. ASSUME NEW i \in EventRow PROVE CallOK(i, work[i])'
    <3>1. CASE At(i, "none")
      BY <1>1, <3>1 DEF At, CallOK, Routes, Inv, CallsKnow
    <3>2. CASE ~At(i, "none")
      <4>1. i \in DOMAIN events /\ CallOK(i, work[i])
        BY <3>2, CallFacts
      <4>2. Unrouted(i) => Unrouted(i)'
        BY <1>1, <1>3, <1>9, <4>1 DEF Unrouted, EventIdOf
      <4> QED
        BY <1>1, <4>1, <4>2 DEF CallOK
    <3> QED
      BY <3>1, <3>2
  <2> QED
    BY <2>1 DEF CallsKnow
<1>13. EffectsCounted'
  <2>1. \A i \in EventRow : At(i, "settle") => KeyOf(i)' = KeyOf(i)
    BY <1>1, <1>3, CallFacts DEF KeyOf, At
  <2>2. \A k \in Keys : InSettle(k)' <=> InSettle(k)
    BY <1>1, <2>1 DEF InSettle, At
  <2> QED
    BY <1>1, <2>2 DEF Inv, EffectsCounted, OneOf, history
<1> QED
  BY <1>6, <1>7, <1>10, <1>11, <1>12, <1>13 DEF Inv

\* The event just stored has no call yet: scheduling one disturbs none.
LEMMA ScheduleStep ==
  ASSUME Inv, ScheduleAndAnswer
  PROVE  Inv'
<1>1. PICK id : id = Len(events)
  OBVIOUS
<1>2. handler # None /\ At(id, "none") /\ id > 0
      /\ UNCHANGED <<db, phase, drain, bounds, history>> /\ handler' = None
  BY <1>1 DEF ScheduleAndAnswer, Inv, HandlerInStep
<1>3. id \in EventRow /\ id \in DOMAIN events
  BY <1>1, <1>2, StoredIsRow
<1>4. work \in [EventRow -> Work]
  BY DEF Inv, TypeOK
<1>5. /\ work' \in [EventRow -> Work]
      /\ \A i \in EventRow : i # id => work'[i] = work[i]
      /\ work'[id].pc \in {"none", "scheduled"}
  <2>1. CASE work' = work
    BY <1>2, <1>4, <2>1 DEF At
  <2>2. CASE work' = [work EXCEPT ![id].pc = "scheduled"]
    <3>1. [work[id] EXCEPT !.pc = "scheduled"] \in Work
      BY <1>3, <1>4 DEF Work, PC
    <3>2. work' = [work EXCEPT ![id] = [work[id] EXCEPT !.pc = "scheduled"]]
      BY <1>3, <1>4, <2>2
    <3>3. [work[id] EXCEPT !.pc = "scheduled"].pc = "scheduled"
      BY <1>3, <1>4 DEF Work
    <3> QED
      BY <1>3, <1>4, <3>1, <3>2, <3>3
  <2> QED
    BY <1>1, <2>1, <2>2 DEF ScheduleAndAnswer
<1>6. TypeOK'
  <2>1. \A i \in EventRow : ~At(i, "none")' => i \in DOMAIN events
    BY <1>3, <1>5 DEF Inv, TypeOK, At
  <2> QED
    BY <1>2, <1>5, <2>1 DEF Inv, TypeOK, db, bounds, history
<1>7. HandlerInStep'
  BY <1>2 DEF Inv, HandlerInStep, db, bounds
<1>8. OneHolder'
  BY <1>5 DEF Inv, OneHolder, Holds
<1>9. RoutedOncePerEventId'
  BY <1>2 DEF Inv, RoutedOncePerEventId, EventIdOf, db
<1>10. CallsKnow'
  <2>1. CallOK(id, work[id])'
    BY <1>3, <1>5 DEF CallOK, Routes
  <2>2. \A i \in EventRow \ {id} : CallOK(i, work[i])'
    BY <1>2, <1>5 DEF Inv, CallsKnow, CallOK, Unrouted, EventIdOf, db
  <2> QED
    BY <2>1, <2>2 DEF CallsKnow
<1>11. EffectsCounted'
  <2>1. \A i \in EventRow : At(i, "settle")' <=> At(i, "settle")
    BY <1>2, <1>5 DEF At
  <2>2. \A i \in EventRow : At(i, "settle") => KeyOf(i)' = KeyOf(i)
    BY <1>2, <1>5 DEF At, KeyOf, db
  <2>3. \A k \in Keys : InSettle(k)' <=> InSettle(k)
    BY <2>1, <2>2 DEF InSettle
  <2> QED
    BY <1>2, <2>3 DEF Inv, EffectsCounted, OneOf, db, history
<1> QED
  BY <1>6, <1>7, <1>8, <1>9, <1>10, <1>11 DEF Inv

-----------------------------------------------------------------------------
(* Startup and failure *)

LEMMA StartStep ==
  ASSUME Inv, Boot \/ Serve
  PROVE  Inv'
<1>1. UNCHANGED <<db, handler, work, bounds, history>>
  BY DEF Boot, Serve
<1>2. phase' \in {"draining", "serving"} /\ phase # "serving"
  BY DEF Boot, Serve
<1>3. drain' \subseteq DOMAIN events /\ (phase' = "serving" => drain' = {})
  BY DEF Boot, Serve, FirstOfBacklog, Backlog, Inv, TypeOK
<1>4. TypeOK' /\ HandlerInStep'
  BY <1>1, <1>2, <1>3 DEF Inv, TypeOK, HandlerInStep, At, db, bounds, history
<1>5. OneHolder' /\ RoutedOncePerEventId' /\ CallsKnow'
  BY <1>1 DEF Inv, OneHolder, Holds, RoutedOncePerEventId, CallsKnow, CallOK, Routes,
              Unrouted, EventIdOf, db
<1>6. EffectsCounted'
  BY <1>1 DEF Inv, EffectsCounted, OneOf, InSettle, At, KeyOf, EventIdOf, db, history
<1> QED
  BY <1>4, <1>5, <1>6 DEF Inv

\* A crash loses the result of the effect that was about to be settled.
LEMMA CrashStep ==
  ASSUME Inv, Crash
  PROVE  Inv'
<1>1. /\ crashes < MaxCrashes /\ crashes' = crashes + 1 /\ phase' = "down"
      /\ handler' = None /\ drain' = {}
      /\ work' = [id \in EventRow |-> NoWork]
      /\ UNCHANGED <<db, deliveries, effects>>
  BY DEF Crash
<1> DEFINE Settling(k) == {id \in EventRow : At(id, "settle") /\ KeyOf(id) = k}
<1>2. \A k \in Keys : lapses'[k] = lapses[k] + Cardinality(Settling(k))
  BY DEF Crash
<1>3. \A k \in Keys : IsFiniteSet(Settling(k)) /\ Cardinality(Settling(k)) \in Nat
  <2>1. IsFiniteSet(EventRow)
    BY ConfigAssumption, FS_Interval DEF EventRow
  <2> QED
    BY <2>1, FS_Subset, FS_CardinalityType
<1>4. \A k \in Keys : InSettle(k) => Cardinality(Settling(k)) >= 1
  <2>1. \A k \in Keys : InSettle(k) => Settling(k) # {}
    BY DEF InSettle
  <2> HIDE DEF Settling
  <2> QED
    BY <1>3, <2>1, FS_EmptySet
<1> HIDE DEF Settling
<1>5. lapses' \in [Keys -> Nat]
  <2>1. lapses' = [k \in Keys |-> lapses'[k]]
    BY DEF Crash
  <2>2. \A k \in Keys : lapses'[k] \in Nat
    BY <1>2, <1>3 DEF Inv, TypeOK
  <2> QED
    BY <2>1, <2>2
<1>6. \A i \in EventRow : work'[i] = NoWork
  BY <1>1
<1>7. TypeOK'
  BY <1>1, <1>5, <1>6, NoWorkOK, ConfigAssumption DEF Inv, TypeOK, At, db
<1>8. HandlerInStep' /\ OneHolder'
  BY <1>1, <1>6, NoWorkOK DEF Inv, HandlerInStep, OneHolder, Holds, db
<1>9. CallsKnow' /\ RoutedOncePerEventId'
  BY <1>1, <1>6, NoWorkOK DEF Inv, CallsKnow, CallOK, Routes, RoutedOncePerEventId, EventIdOf, db
<1>10. EffectsCounted'
  <2>1. \A k \in Keys : effects[k] <= lapses[k] + OneOf(k)
    BY DEF Inv, EffectsCounted
  <2>2. \A k \in Keys : OneOf(k) \in {0, 1} /\ OneOf(k)' \in {0, 1}
    BY DEF OneOf
  <2>3. \A k \in Keys : k \in settled => OneOf(k)' = 1
    BY <1>1 DEF OneOf, db
  <2>4. \A k \in Keys : k \notin settled => OneOf(k) <= Cardinality(Settling(k))
    BY <1>3, <1>4 DEF OneOf
  <2>5. effects \in [Keys -> Nat] /\ lapses \in [Keys -> Nat]
    BY DEF Inv, TypeOK
  <2>6. ASSUME NEW k \in Keys PROVE effects[k] <= lapses'[k] + OneOf(k)'
    <3>1. effects[k] \in Nat /\ lapses[k] \in Nat
      BY <2>5
    <3>2. CASE k \in settled
      BY <1>2, <1>3, <2>1, <2>2, <2>3, <3>1, <3>2
    <3>3. CASE k \notin settled
      BY <1>2, <1>3, <2>1, <2>2, <2>4, <3>1, <3>3
    <3> QED
      BY <3>2, <3>3
  <2> QED
    BY <1>1, <2>6 DEF EffectsCounted
<1> QED
  BY <1>7, <1>8, <1>9, <1>10 DEF Inv

LEMMA StutterStep ==
  ASSUME Inv, UNCHANGED vars
  PROVE  Inv'
BY DEF vars, db, bounds, history, Inv, TypeOK, HandlerInStep, OneHolder, CallsKnow, CallOK,
       Routes, Unrouted, RoutedOncePerEventId, EffectsCounted, OneOf, InSettle, At, Holds,
       KeyOf, EventIdOf

LEMMA StepInv == Inv /\ [Next]_vars => Inv'
BY ReceiveStep, PersistStep, ScheduleStep, BeginStep, ProcessStep, StartStep, CrashStep,
   StutterStep DEF Next, Handle, Quiet

-----------------------------------------------------------------------------
(* The theorems *)

\* Whatever is recorded or worked on is a row that was stored before, the calls
\* of process included (pipeline.py:120-193).
THEOREM PipelineTypes == Spec => []TypeOK
<1>1. Inv => TypeOK
  BY DEF Inv
<1> QED
  BY InitInv, StepInv, <1>1, PTL DEF Spec

\* However the tasks interleave and wherever the process dies, at most one
\* delivery of a provider event is routed (pipeline.py:120-193, ledger.py).
THEOREM PipelineRoutesOnce == Spec => []RoutedOncePerEventId
<1>1. Inv => RoutedOncePerEventId
  BY DEF Inv
<1> QED
  BY InitInv, StepInv, <1>1, PTL DEF Spec

\* For every key the provider acted at most once more than results under it
\* were lost, over any number of events, tasks and restarts.
THEOREM PipelineActsOnce == Spec => []AtMostOnce
<1>1. Inv => AtMostOnce
  <2>1. \A k \in Keys : OneOf(k) \in {0, 1}
    BY DEF OneOf
  <2>2. Inv => \A k \in Keys : effects[k] \in Nat /\ lapses[k] \in Nat
    BY DEF Inv, TypeOK
  <2>3. Inv => \A k \in Keys : effects[k] <= lapses[k] + OneOf(k)
    BY DEF Inv, EffectsCounted
  <2> QED
    BY <2>1, <2>2, <2>3 DEF AtMostOnce
<1> QED
  BY InitInv, StepInv, <1>1, PTL DEF Spec

\* A delivery of an event that has a routed row in the ledger never reaches the
\* provider: the check made before the routing still stands when the call acts.
THEOREM PipelineIgnoresRedelivery == Spec => RedeliveryNeverActs
<1> DEFINE Quietly ==
      \A id \in EventRow : At(id, "act") /\ work'[id] # work[id]
           /\ effects' # effects /\ EventIdOf(id) # NoEventId =>
         \A i \in DOMAIN ledger : EventIdOf(ledger[i].event) = EventIdOf(id)
           => ledger[i].path \in {"duplicate_delivery", "failed"}
<1>1. Inv => Quietly
  <2> SUFFICES ASSUME Inv, NEW id \in EventRow, At(id, "act"), EventIdOf(id) # NoEventId,
                      NEW i \in DOMAIN ledger, EventIdOf(ledger[i].event) = EventIdOf(id)
               PROVE  ledger[i].path \in {"duplicate_delivery", "failed"}
    BY Zenon
  <2>1. ledger[i].path \notin RoutedPaths
    BY DEF Inv, CallsKnow, CallOK, Routes, Unrouted, At
  <2>2. ledger[i].path \in Paths
    <3>1. ledger \in Seq(LedgerRow)
      BY DEF Inv, TypeOK
    <3>2. ledger[i] \in LedgerRow
      BY <3>1
    <3> QED
      BY <3>2 DEF LedgerRow
  <2> QED
    BY <2>1, <2>2 DEF Paths, RoutedPaths
<1>2. RedeliveryNeverActs <=> [][Quietly]_vars
  BY DEF RedeliveryNeverActs
<1> HIDE DEF Quietly
<1> QED
  BY InitInv, StepInv, <1>1, <1>2, PTL DEF Spec

=============================================================================
