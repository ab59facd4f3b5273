--------------------------- MODULE RecoveryPipeline ---------------------------
(***************************************************************************)
(* The live recovery service: the webhook endpoint (recovery/webhooks.py), *)
(* the pipeline it schedules (recovery/pipeline.py), the outcome ledger    *)
(* (recovery/ledger.py) and the startup drain (recovery/app.py).           *)
(*                                                                         *)
(* The endpoint runs on the event loop and never waits between its first   *)
(* commit and its answer; the background tasks run in a thread pool and    *)
(* contend for the pipeline's lock.  Every session_scope is a transaction  *)
(* and a step.  A crash keeps the database and loses all the rest.         *)
(***************************************************************************)
EXTENDS Naturals, Sequences, FiniteSets

CONSTANTS
  Webhooks,       \* verified notifications a provider may deliver
  NoEventId,      \* the event id of a notification that carries none
  Tools,          \* effect tools: each has one idempotency key per payment
  DrainLimit,     \* process_pending's limit (500)
  MaxIterations,  \* effects one agent run may ask for (max_iterations)
  MaxDeliveries,  \* bound: notifications received in a behaviour
  MaxCrashes,     \* bound: crashes in a behaviour
  None            \* nothing under way

ASSUME ConfigAssumption ==
  /\ \A w \in Webhooks : DOMAIN w = {"event_id", "payment", "failed"}
                         /\ w.failed \in BOOLEAN
  /\ DrainLimit \in Nat /\ MaxIterations \in Nat
  /\ MaxDeliveries \in Nat /\ MaxCrashes \in Nat

VARIABLES
  raw,           \* raw_webhook_events, by count
  events,        \* internal_events: the row id is the position
  ledger,        \* ledger_entries, in row-id order
  routed,        \* internal events whose routing columns are filled
  trajectories,  \* trajectories saved, by count
  settled,       \* guard store: keys with a stored terminal result
  phase,         \* of the process: down, draining its backlog, serving
  handler,       \* the webhook request under way
  work,          \* per internal event, the call of process, if any
  drain,         \* internal ids process_pending has yet to process
  deliveries,    \* notifications received so far
  crashes,       \* crashes so far
  \* history of the outside world, read by no guard
  effects,       \* times the provider acted, per key
  lapses         \* effects whose result was never stored, per key

db       == <<raw, events, ledger, routed, trajectories, settled>>
bounds   == <<deliveries, crashes>>
history  == <<effects, lapses>>
vars     == <<db, phase, handler, work, drain, bounds, history>>

-----------------------------------------------------------------------------
(* Values *)

EventRow == 1..MaxDeliveries
Keys     == {w.payment : w \in Webhooks} \X Tools
Paths    == {"deterministic", "llm", "duplicate_delivery", "failed"}
Outcomes == {"done", "failed", "duplicate"}
LedgerRow == [event: EventRow, path: Paths, outcome: Outcomes]

\* Where a call of process stands: scheduled calls wait for the lock.
PC == {"none", "scheduled", "delivery", "route", "agent", "act", "settle",
       "trajectory", "record", "mark"}
Work == [pc: PC, path: Paths \cup {None}, outcome: Outcomes \cup {None},
         tool: Tools \cup {None}, left: 0..MaxIterations]
NoWork == [pc |-> "none", path |-> None, outcome |-> None, tool |-> None,
           left |-> MaxIterations]

EventIdOf(id) == events[id].event_id
KeyOf(id)     == <<events[id].payment, work[id].tool>>
Ledgered(id)  == \E i \in DOMAIN ledger : ledger[i].event = id
At(id, pc)    == work[id].pc = pc
Holds(id)     == work[id].pc \notin {"none", "scheduled"}

\* Faulty: redeliveries are not recognised.
NoProcessedDelivery(id) == FALSE
\* processed_delivery: an earlier row for the same event id that got as far as
\* a route.  An event without an id is never a redelivery.
ProcessedDelivery(id) ==
  /\ EventIdOf(id) # NoEventId
  /\ \E i \in DOMAIN ledger :
       /\ EventIdOf(ledger[i].event) = EventIdOf(id)
       /\ ledger[i].path \notin {"duplicate_delivery", "failed"}

-----------------------------------------------------------------------------
(* The webhook endpoint *)

\* Step (2): the raw event is committed before anything else.
ReceiveWebhook(w) ==
  /\ phase = "serving" /\ handler = None
  /\ deliveries < MaxDeliveries
  /\ deliveries' = deliveries + 1
  /\ raw' = raw + 1
  /\ handler' = [pc |-> "normalise", webhook |-> w]
  /\ UNCHANGED <<events, ledger, routed, trajectories, settled, phase, work,
                 drain, crashes, history>>

\* Step (3) fails: answered 200, and only the raw event is kept.
NormalisationFails ==
  /\ handler # None /\ handler.pc = "normalise"
  /\ handler' = None
  /\ UNCHANGED <<db, phase, work, drain, bounds, history>>

PersistInternal ==
  /\ handler # None /\ handler.pc = "normalise"
  /\ events' = Append(events, handler.webhook)
  /\ handler' = [handler EXCEPT !.pc = "schedule"]
  /\ UNCHANGED <<raw, ledger, routed, trajectories, settled, phase, work,
                 drain, bounds, history>>

\* Step (4): the background task of a failure starts once the answer has left.
ScheduleAndAnswer ==
  /\ handler # None /\ handler.pc = "schedule"
  /\ LET id == Len(events) IN
       /\ work' = IF events[id].failed
                  THEN [work EXCEPT ![id].pc = "scheduled"] ELSE work
  /\ handler' = None
  /\ UNCHANGED <<db, phase, drain, bounds, history>>

-----------------------------------------------------------------------------
(* process and _process_locked.  A step of a call changes its own entry of  *)
(* work, and nothing of the service around it.                             *)

service == <<phase, handler, drain, bounds>>

\* Faulty: process without its lock.
LockIgnored == TRUE
LockFree == \A id \in EventRow : ~Holds(id)

Goto(id, pc) == work' = [work EXCEPT ![id].pc = pc]
Return(id)   == work' = [work EXCEPT ![id] = NoWork]

\* Faulty: the outcome column is left empty.
OutcomeMissing(id, path, outcome) ==
  work' = [work EXCEPT ![id] = [@ EXCEPT !.pc = "record", !.path = path]]
\* The fields of the ledger row are known: it is written next.
Conclude(id, path, outcome) ==
  work' = [work EXCEPT ![id] =
             [@ EXCEPT !.pc = "record", !.path = path, !.outcome = outcome]]

\* Everything _route_and_act raises is caught and recorded as a failed path.
Fail(id) == Conclude(id, "failed", "failed")

\* A background task of the pool gets the lock; the order is the scheduler's.
TaskBegins(id) ==
  /\ At(id, "scheduled") /\ LockFree
  /\ Goto(id, "delivery")
  /\ UNCHANGED <<db, service, history>>

\* The drain processes one event after the other, oldest first, before anything
\* is served.
DrainNext ==
  /\ LockFree
  /\ \E id \in drain :
       /\ \A other \in drain : id <= other
       /\ Goto(id, "delivery")
       /\ drain' = drain \ {id}
  /\ UNCHANGED <<db, phase, handler, bounds, history>>

\* Three reads that only the lock's holder could invalidate, as one step: an
\* event already in the ledger, or no failure, is left alone.
CheckDelivery(id) ==
  /\ At(id, "delivery")
  /\ IF Ledgered(id) \/ ~events[id].failed
     THEN Return(id)
     ELSE \/ /\ ProcessedDelivery(id)
             /\ Conclude(id, "duplicate_delivery", "duplicate")
          \/ ~ProcessedDelivery(id) /\ Goto(id, "route")
  /\ UNCHANGED <<db, service, history>>

-----------------------------------------------------------------------------
(* _route_and_act: what the rules, the model and the provider will say is   *)
(* open, so each of their answers is a choice.                             *)

\* The provider lookup fails, or no adapter is registered.
RouteFails(id) ==
  /\ At(id, "route")
  /\ Fail(id)
  /\ UNCHANGED <<db, service, history>>

\* An active rule matches; its arguments may be invalid, or its action none.
RouteToRule(id) ==
  /\ At(id, "route")
  /\ \/ \E outcome \in {"done", "failed"} : Conclude(id, "deterministic", outcome)
     \/ \E t \in Tools :
          work' = [work EXCEPT ![id] =
                     [@ EXCEPT !.pc = "act", !.path = "deterministic", !.tool = t]]
  /\ UNCHANGED <<db, service, history>>

RouteToAgent(id) ==
  /\ At(id, "route")
  /\ work' = [work EXCEPT ![id] = [@ EXCEPT !.pc = "agent", !.path = "llm"]]
  /\ UNCHANGED <<db, service, history>>

\* The model asks for an effect.
AgentCallsTool(id, t) ==
  /\ At(id, "agent")
  /\ work[id].left > 0
  /\ work' = [work EXCEPT ![id] =
                [@ EXCEPT !.pc = "act", !.tool = t, !.left = work[id].left - 1]]
  /\ UNCHANGED <<db, service, history>>

\* A final answer, or malformed output, the timeout or the iteration limit:
\* a trajectory in every case.
AgentEnds(id) ==
  /\ At(id, "agent")
  /\ \E outcome \in {"done", "failed"} :
       work' = [work EXCEPT ![id] =
                  [@ EXCEPT !.pc = "trajectory", !.outcome = outcome]]
  /\ UNCHANGED <<db, service, history>>

\* The model client or a read tool raises, and the trajectory with it is lost.
AgentRaises(id) ==
  /\ At(id, "agent")
  /\ Fail(id)
  /\ UNCHANGED <<db, service, history>>

SaveTrajectory(id) ==
  /\ At(id, "trajectory")
  /\ trajectories' = trajectories + 1
  /\ Goto(id, "record")
  /\ UNCHANGED <<raw, events, ledger, routed, settled, service, history>>

\* After a tool call a rule is done, and the agent reads the result.
AfterAct(id) ==
  \/ work[id].path = "deterministic" /\ Conclude(id, "deterministic", "done")
  \/ work[id].path = "llm" /\ Goto(id, "agent")

-----------------------------------------------------------------------------
(* The guarded executor, as far as the pipeline can tell: GuardedExecutor   *)
(* models its checks.  It never acts under a settled key.                  *)

\* A duplicate, or refused by the approval gate, the budget, cap or breaker.
NoEffect(id) ==
  /\ At(id, "act")
  /\ AfterAct(id)
  /\ UNCHANGED <<db, service, history>>

\* Faulty: settled keys are not remembered.
ExecutorForgets(key) == TRUE
ExecutorAllows(key) == key \notin settled

ProviderActs(id) == effects' = [effects EXCEPT ![KeyOf(id)] = @ + 1]

Act(id) ==
  /\ At(id, "act") /\ ExecutorAllows(KeyOf(id))
  /\ ProviderActs(id)
  /\ Goto(id, "settle")
  /\ UNCHANGED <<db, service, lapses>>

\* The handler raises, before the provider acted or after.
ActRaises(id) ==
  /\ At(id, "act") /\ ExecutorAllows(KeyOf(id))
  /\ \/ UNCHANGED <<effects, lapses>>
     \/ /\ ProviderActs(id)
        /\ lapses' = [lapses EXCEPT ![KeyOf(id)] = @ + 1]
  /\ Fail(id)
  /\ UNCHANGED <<db, service>>

Settle(id) ==
  /\ At(id, "settle")
  /\ settled' = settled \cup {KeyOf(id)}
  /\ AfterAct(id)
  /\ UNCHANGED <<raw, events, ledger, routed, trajectories, service, history>>

-----------------------------------------------------------------------------
(* The ledger row, then the routing columns, in two transactions *)

Record(id) ==
  /\ At(id, "record")
  /\ ledger' = Append(ledger, [event |-> id, path |-> work[id].path,
                               outcome |-> work[id].outcome])
  /\ \/ work[id].path = "duplicate_delivery" /\ Return(id)
     \/ work[id].path # "duplicate_delivery" /\ Goto(id, "mark")
  /\ UNCHANGED <<raw, events, routed, trajectories, settled, service, history>>

MarkEvent(id) ==
  /\ At(id, "mark")
  /\ routed' = IF work[id].path = "failed" THEN routed ELSE routed \cup {id}
  /\ Return(id)
  /\ UNCHANGED <<raw, events, ledger, trajectories, settled, service, history>>

-----------------------------------------------------------------------------
(* Startup and failure *)

\* Faulty: the ledger is joined on the provider's id, not on the row's.
JoinsOnEventId ==
  {id \in DOMAIN events : /\ events[id].failed
     /\ ~ \E i \in DOMAIN ledger : EventIdOf(ledger[i].event) = EventIdOf(id)}

\* process_pending: the failures without a ledger row ...
Backlog == {id \in DOMAIN events : events[id].failed /\ ~Ledgered(id)}

\* ... the oldest, and no more than the limit.
FirstOfBacklog == {id \in Backlog : Cardinality({j \in Backlog : j < id}) < DrainLimit}

Boot ==
  /\ phase = "down"
  /\ phase' = "draining"
  /\ drain' = FirstOfBacklog
  /\ UNCHANGED <<db, handler, work, bounds, history>>

\* The lifespan hook yields: requests are accepted from here on.
Serve ==
  /\ phase = "draining" /\ LockFree /\ drain = {}
  /\ phase' = "serving"
  /\ UNCHANGED <<db, handler, work, drain, bounds, history>>

Crash ==
  /\ phase # "down"
  /\ crashes < MaxCrashes
  /\ crashes' = crashes + 1
  /\ phase' = "down"
  /\ handler' = None /\ drain' = {}
  /\ work' = [id \in EventRow |-> NoWork]
  /\ lapses' = [k \in Keys |->
       lapses[k] + Cardinality({id \in EventRow : At(id, "settle") /\ KeyOf(id) = k})]
  /\ UNCHANGED <<db, deliveries, effects>>

\* Nothing under way: the service waits for requests.
Quiet ==
  /\ phase = "serving" /\ handler = None
  /\ \A id \in EventRow : At(id, "none")
  /\ UNCHANGED vars

-----------------------------------------------------------------------------
Init ==
  /\ raw = 0 /\ events = <<>> /\ ledger = <<>> /\ routed = {}
  /\ trajectories = 0 /\ settled = {}
  /\ phase = "down" /\ handler = None /\ drain = {}
  /\ work = [id \in EventRow |-> NoWork]
  /\ deliveries = 0 /\ crashes = 0
  /\ effects = [k \in Keys |-> 0] /\ lapses = [k \in Keys |-> 0]

Handle  == NormalisationFails \/ PersistInternal \/ ScheduleAndAnswer
Begin   == DrainNext \/ \E id \in EventRow : TaskBegins(id)
Process(id) ==
  \/ CheckDelivery(id)
  \/ RouteFails(id) \/ RouteToRule(id) \/ RouteToAgent(id)
  \/ (\E t \in Tools : AgentCallsTool(id, t)) \/ AgentEnds(id) \/ AgentRaises(id)
  \/ NoEffect(id) \/ Act(id) \/ ActRaises(id) \/ Settle(id)
  \/ SaveTrajectory(id) \/ Record(id) \/ MarkEvent(id)

Next ==
  \/ \E w \in Webhooks : ReceiveWebhook(w)
  \/ Handle \/ Begin
  \/ \E id \in EventRow : Process(id)
  \/ Boot \/ Serve \/ Crash
  \/ Quiet

\* A request is handled to its end, the lock's holder runs, a free lock is
\* taken while somebody waits, and a process that died is started again.
Fairness ==
  /\ WF_vars(Handle) /\ WF_vars(Begin)
  /\ \A id \in EventRow : WF_vars(Process(id))
  /\ WF_vars(Boot) /\ WF_vars(Serve)

Spec == Init /\ [][Next]_vars /\ Fairness

-----------------------------------------------------------------------------
(* Properties *)

\* Every variable has its type, and whatever is recorded or worked on
\* is a row that was stored before.
TypeOK ==
  /\ raw \in 0..MaxDeliveries /\ trajectories \in Nat
  /\ events \in Seq(Webhooks) /\ Len(events) <= raw
  /\ ledger \in Seq(LedgerRow)
  /\ \A i \in DOMAIN ledger : ledger[i].event \in DOMAIN events
  /\ routed \subseteq DOMAIN events
  /\ settled \subseteq Keys
  /\ phase \in {"down", "draining", "serving"}
  /\ handler = None \/ handler \in [pc: {"normalise", "schedule"}, webhook: Webhooks]
  /\ drain \subseteq DOMAIN events
  /\ work \in [EventRow -> Work]
  /\ \A id \in EventRow : ~At(id, "none") => id \in DOMAIN events
  /\ deliveries \in 0..MaxDeliveries /\ crashes \in 0..MaxCrashes
  /\ effects \in [Keys -> Nat] /\ lapses \in [Keys -> Nat]

\* README.md:226-228: of all the deliveries of one provider event at most one
\* is routed, however their tasks interleave and whatever crashes: the check of
\* processed_delivery and the ledger row it looks for are separate steps.
RoutedOncePerEventId ==
  \A i, j \in DOMAIN ledger :
    /\ ledger[i].path \in {"deterministic", "llm"}
    /\ ledger[j].path \in {"deterministic", "llm"}
    /\ EventIdOf(ledger[i].event) = EventIdOf(ledger[j].event)
    /\ EventIdOf(ledger[i].event) # NoEventId
    => i = j

\* No second action for a redelivery: the provider never acts for an event id
\* that already has a routed row in the ledger.
RedeliveryNeverActs ==
  [][\A id \in EventRow : At(id, "act") /\ work'[id] # work[id]
        /\ effects' # effects /\ EventIdOf(id) # NoEventId =>
       \A i \in DOMAIN ledger : EventIdOf(ledger[i].event) = EventIdOf(id)
         => ledger[i].path \in {"duplicate_delivery", "failed"}]_vars

\* Distinct events about one payment, retries and restarts together: a key
\* acts at most once more than results under it were lost (pipeline.py:17-21).
AtMostOnce == \A k \in Keys : effects[k] <= lapses[k] + 1

\* README.md:212-216: a crash between the 200 and processing loses nothing.  A
\* stored failure gets its ledger row, when the backlog fits one drain.
EveryFailureLedgered ==
  \A id \in EventRow :
    id \in DOMAIN events /\ events[id].failed ~> Ledgered(id)

=============================================================================
