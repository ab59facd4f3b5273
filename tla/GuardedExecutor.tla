--------------------------- MODULE GuardedExecutor ---------------------------
(***************************************************************************)
(* The guarded executor (agentcore/guardrails/executor.py), the only path  *)
(* from a decision to a provider side effect, over a durable GuardStore    *)
(* (agentcore/guardrails/store.py).                                        *)
(*                                                                         *)
(* Every store method is a transaction of its own, so a call of execute,   *)
(* approve or reject_approval is a sequence of steps and the process can   *)
(* die between any two of them.  One step here is one store transaction,   *)
(* or the handler's call to the provider.  The store survives a crash, the *)
(* calls in progress do not.                                               *)
(***************************************************************************)
EXTENDS Naturals, Sequences

CONSTANTS
  Runs,               \* run_id of an executor: one per payment under recovery
  Callers,            \* threads that may call an executor
  Subjects, Keys,     \* subject ids and idempotency keys
  Names,              \* action names ...
  Registered,         \* ... and those with a registered handler
  Actions,            \* the Action values that may be submitted
  ApprovalThreshold,  \* GuardPolicy.approval_threshold
  ActionBudget,       \* GuardPolicy.per_subject_action_budget
  SpendCap,           \* GuardPolicy.per_run_spend_cap
  Serialised,         \* TRUE: one call at a time (the pipeline's lock)
  MaxCalls,           \* bound: calls begun in a behaviour
  MaxCrashes,         \* bound: process crashes in a behaviour
  None                \* no run, no action, no decision

ASSUME ConfigAssumption ==
  /\ Registered \subseteq Names
  /\ Actions \subseteq [name: Names, subject: Subjects, key: Keys, cost: Nat]
  /\ ApprovalThreshold \in Nat /\ ActionBudget \in Nat /\ SpendCap \in Nat
  /\ Serialised \in BOOLEAN
  /\ MaxCalls \in Nat /\ MaxCrashes \in Nat

VARIABLES
  results,    \* idempotency table: ids with a stored terminal result
  approvals,  \* approval records, by id
  count,      \* effects recorded per run and subject
  spend,      \* cost recorded per run
  breaker,    \* is the run's spend-cap breaker open?
  audit,      \* per run, the append-only audit log; seq is the position
  call,       \* per caller, the call in progress (program counter, locals)
  calls,      \* calls begun so far
  crashes,    \* crashes so far
  \* history of the outside world, read by no guard
  effects,    \* times the provider acted under an id
  outlay,     \* cost the provider really incurred, per run
  lapses,     \* effects under an id whose result was never stored
  denied      \* ids that reject_approval has denied

store   == <<results, approvals, count, spend, breaker, audit>>
history == <<effects, outlay, lapses, denied>>
bounds  == <<calls, crashes>>
vars    == <<store, call, bounds, history>>

-----------------------------------------------------------------------------
(* Values *)

\* A result, and an approval, belong to a run and an idempotency key; the
\* random approval_id is abstracted to that pair.
Ids == Runs \X Keys

ApprovalState == {"pending", "approved", "rejected"}
NoApproval    == [state |-> "none", action |-> None]

ExecutionStatus ==
  {"executed", "duplicate", "pending_approval", "rejected_action_budget",
   "rejected_spend_cap", "rejected_breaker_open"}
Decisions  == ExecutionStatus \cup {"error"}
AuditEntry == [action: Actions, decision: Decisions]

\* What a call does next.
PC == {"idle", "approve", "breaker", "idempotency", "gate", "enqueue",
       "budget", "cap", "trip", "handler", "record", "put", "audit"}
Idle == [pc |-> "idle", run |-> None, action |-> None, decision |-> None]
Call == [pc: PC, run: Runs \cup {None}, action: Actions \cup {None},
         decision: Decisions \cup {None}]

At(c, pc) == call[c].pc = pc
RunOf(c)  == call[c].run
ActOf(c)  == call[c].action
IdOf(c)   == <<call[c].run, call[c].action.key>>
\* The provider has acted but the result is not stored yet.
Unsettled(c) == call[c].pc \in {"record", "put"}

-----------------------------------------------------------------------------
(* The checks of execute, in code order, each preceded by faulty variants. *)

BreakerForgotten(r) == FALSE
BreakerOpen(r) == breaker[r]

SettledForgotten(id) == FALSE
Settled(id) == id \in results

GateTooHigh(a) == a.cost > ApprovalThreshold + 1
NeedsApproval(a) == a.cost > ApprovalThreshold

AnyRecordApproves(id) == approvals[id].state \in ApprovalState
Approved(id) == approvals[id].state = "approved"

BudgetOffByOne(r, s) == count[<<r, s>>] > ActionBudget
BudgetExhausted(r, s) == count[<<r, s>>] >= ActionBudget

CapIgnoresThisCost(r, a) == spend[r] > SpendCap
ExceedsCap(r, a) == spend[r] + a.cost > SpendCap

-----------------------------------------------------------------------------
(* Control flow inside a call *)

Goto(c, pc) == call' = [call EXCEPT ![c].pc = pc]

\* Faulty: the decision is not noted.
UndecidedFinish(c, status) == Goto(c, "audit")
\* _finish and _audit: the decision is settled, only the audit entry is left.
Finish(c, status) ==
  call' = [call EXCEPT ![c].pc = "audit", ![c].decision = status]

Return(c) == call' = [call EXCEPT ![c] = Idle]

\* Faulty: the lock is not taken.
LockNotTaken(c) == At(c, "idle") /\ calls < MaxCalls
\* A thread may enter a call; under the pipeline's lock only when no call runs.
MayBegin(c) ==
  /\ At(c, "idle")
  /\ Serialised => \A d \in Callers : At(d, "idle")
  /\ calls < MaxCalls

Begin(c, pc, r, a) ==
  /\ MayBegin(c)
  /\ call' = [call EXCEPT ![c] =
                [pc |-> pc, run |-> r, action |-> a, decision |-> None]]
  /\ calls' = calls + 1
  /\ UNCHANGED crashes

-----------------------------------------------------------------------------
(* execute *)

Execute(c, r, a) ==
  /\ Begin(c, "breaker", r, a)
  /\ UNCHANGED <<store, history>>

CheckBreaker(c) ==
  /\ At(c, "breaker")
  /\ \/ BreakerOpen(RunOf(c)) /\ Finish(c, "rejected_breaker_open")
     \/ ~BreakerOpen(RunOf(c)) /\ Goto(c, "idempotency")
  /\ UNCHANGED <<store, bounds, history>>

CheckIdempotency(c) ==
  /\ At(c, "idempotency")
  /\ \/ Settled(IdOf(c)) /\ Finish(c, "duplicate")
     \/ ~Settled(IdOf(c)) /\ Goto(c, "gate")
  /\ UNCHANGED <<store, bounds, history>>

\* An action without a handler raises, and leaves no audit entry.
RaiseUnknownAction(c) ==
  /\ At(c, "gate")
  /\ ActOf(c).name \notin Registered
  /\ Return(c)
  /\ UNCHANGED <<store, bounds, history>>

\* Both readings of an approval record: approved goes on, else the call waits.
Gated(c, id) ==
  \/ Approved(id) /\ Goto(c, "budget")
  \/ ~Approved(id) /\ Finish(c, "pending_approval")

CheckGate(c) ==
  /\ At(c, "gate")
  /\ ActOf(c).name \in Registered
  /\ \/ ~NeedsApproval(ActOf(c)) /\ Goto(c, "budget")
     \/ /\ NeedsApproval(ActOf(c))
        /\ \/ approvals[IdOf(c)] = NoApproval /\ Goto(c, "enqueue")
           \/ approvals[IdOf(c)] # NoApproval /\ Gated(c, IdOf(c))
  /\ UNCHANGED <<store, bounds, history>>

\* create_pending: atomic get-or-create, so a key has one record.
CreatePending(c) ==
  /\ At(c, "enqueue")
  /\ \/ /\ approvals[IdOf(c)] = NoApproval
        /\ approvals' = [approvals EXCEPT ![IdOf(c)] =
                           [state |-> "pending", action |-> ActOf(c)]]
        /\ Finish(c, "pending_approval")
     \/ /\ approvals[IdOf(c)] # NoApproval
        /\ Gated(c, IdOf(c))
        /\ UNCHANGED approvals
  /\ UNCHANGED <<results, count, spend, breaker, audit, bounds, history>>

CheckBudget(c) ==
  /\ At(c, "budget")
  /\ \/ /\ BudgetExhausted(RunOf(c), ActOf(c).subject)
        /\ Finish(c, "rejected_action_budget")
     \/ ~BudgetExhausted(RunOf(c), ActOf(c).subject) /\ Goto(c, "cap")
  /\ UNCHANGED <<store, bounds, history>>

CheckCap(c) ==
  /\ At(c, "cap")
  /\ \/ ExceedsCap(RunOf(c), ActOf(c)) /\ Goto(c, "trip")
     \/ ~ExceedsCap(RunOf(c), ActOf(c)) /\ Goto(c, "handler")
  /\ UNCHANGED <<store, bounds, history>>

TripBreaker(c) ==
  /\ At(c, "trip")
  /\ breaker' = [breaker EXCEPT ![RunOf(c)] = TRUE]
  /\ Finish(c, "rejected_spend_cap")
  /\ UNCHANGED <<results, approvals, count, spend, audit, bounds, history>>

\* The provider acts, whether or not the handler goes on to return.
ProviderActs(c) ==
  /\ effects' = [effects EXCEPT ![IdOf(c)] = @ + 1]
  /\ outlay' = [outlay EXCEPT ![RunOf(c)] = @ + ActOf(c).cost]

\* Faulty: the log runs ahead of the books.
UnbookedReturn(c) ==
  /\ At(c, "handler")
  /\ ProviderActs(c)
  /\ Finish(c, "executed")
  /\ UNCHANGED <<store, bounds, lapses, denied>>

HandlerReturns(c) ==
  /\ At(c, "handler")
  /\ ProviderActs(c)
  /\ Goto(c, "record")
  /\ UNCHANGED <<store, bounds, lapses, denied>>

\* The handler raises; a timed-out provider call may still have acted.
HandlerRaises(c) ==
  /\ At(c, "handler")
  /\ \/ UNCHANGED <<effects, outlay, lapses>>
     \/ /\ ProviderActs(c)
        /\ lapses' = [lapses EXCEPT ![IdOf(c)] = @ + 1]
  /\ Finish(c, "error")
  /\ UNCHANGED <<store, bounds, denied>>

\* Faulty: the count is written, the spend is not.
SpendNotRecorded(c) ==
  /\ At(c, "record")
  /\ count' = [count EXCEPT ![<<RunOf(c), ActOf(c).subject>>] = @ + 1]
  /\ Goto(c, "put")
  /\ UNCHANGED <<results, approvals, spend, breaker, audit, bounds, history>>

RecordExecution(c) ==
  /\ At(c, "record")
  /\ spend' = [spend EXCEPT ![RunOf(c)] = @ + ActOf(c).cost]
  /\ count' = [count EXCEPT ![<<RunOf(c), ActOf(c).subject>>] = @ + 1]
  /\ Goto(c, "put")
  /\ UNCHANGED <<results, approvals, breaker, audit, bounds, history>>

PutResult(c) ==
  /\ At(c, "put")
  /\ results' = results \cup {IdOf(c)}
  /\ Finish(c, "executed")
  /\ UNCHANGED <<approvals, count, spend, breaker, audit, bounds, history>>

AppendAudit(c) ==
  /\ At(c, "audit")
  /\ audit' = [audit EXCEPT ![RunOf(c)] =
       Append(@, [action |-> ActOf(c), decision |-> call[c].decision])]
  /\ Return(c)
  /\ UNCHANGED <<results, approvals, count, spend, breaker, bounds, history>>

-----------------------------------------------------------------------------
(* approve and reject_approval: a record of another run, or none, raises    *)
(* ApprovalError before anything is written, which changes no state.       *)

\* The action that runs is rebuilt from the stored record.
Approve(c, id) ==
  /\ approvals[id] # NoApproval
  /\ Begin(c, IF Approved(id) THEN "breaker" ELSE "approve",
           id[1], approvals[id].action)
  /\ UNCHANGED <<store, history>>

SetApproved(c) ==
  /\ At(c, "approve")
  /\ approvals' = [approvals EXCEPT ![IdOf(c)].state = "approved"]
  /\ Goto(c, "breaker")
  /\ UNCHANGED <<results, count, spend, breaker, audit, bounds, history>>

\* One read that changes nothing, then one write: a single step.
RejectApproval(c, id) ==
  /\ MayBegin(c)
  /\ approvals[id] # NoApproval
  /\ approvals' = [approvals EXCEPT ![id].state = "rejected"]
  /\ denied' = denied \cup {id}
  /\ calls' = calls + 1
  /\ UNCHANGED <<results, count, spend, breaker, audit, call, crashes,
                 effects, outlay, lapses>>

-----------------------------------------------------------------------------
(* Failure *)

\* The process dies: the store survives, every call in progress is lost.
Crash ==
  /\ crashes < MaxCrashes
  /\ call' = [c \in Callers |-> Idle]
  /\ lapses' = [id \in Ids |->
       IF \E c \in Callers : Unsettled(c) /\ IdOf(c) = id
       THEN lapses[id] + 1 ELSE lapses[id]]
  /\ crashes' = crashes + 1
  /\ UNCHANGED <<store, calls, effects, outlay, denied>>

\* No caller has anything left to ask: the executor rests.
Rest ==
  /\ calls = MaxCalls
  /\ \A c \in Callers : At(c, "idle")
  /\ UNCHANGED vars

-----------------------------------------------------------------------------
Init ==
  /\ results = {}
  /\ approvals = [id \in Ids |-> NoApproval]
  /\ count = [rs \in Runs \X Subjects |-> 0]
  /\ spend = [r \in Runs |-> 0]
  /\ breaker = [r \in Runs |-> FALSE]
  /\ audit = [r \in Runs |-> <<>>]
  /\ call = [c \in Callers |-> Idle]
  /\ calls = 0 /\ crashes = 0
  /\ effects = [id \in Ids |-> 0]
  /\ outlay = [r \in Runs |-> 0]
  /\ lapses = [id \in Ids |-> 0]
  /\ denied = {}

Step(c) ==
  \/ CheckBreaker(c) \/ CheckIdempotency(c)
  \/ RaiseUnknownAction(c) \/ CheckGate(c) \/ CreatePending(c)
  \/ CheckBudget(c) \/ CheckCap(c) \/ TripBreaker(c)
  \/ HandlerReturns(c) \/ HandlerRaises(c)
  \/ RecordExecution(c) \/ PutResult(c) \/ AppendAudit(c)
  \/ SetApproved(c)

Next ==
  \/ \E c \in Callers :
       \/ Step(c)
       \/ \E r \in Runs, a \in Actions : Execute(c, r, a)
       \/ \E id \in Ids : Approve(c, id) \/ RejectApproval(c, id)
  \/ Crash
  \/ Rest

Spec == Init /\ [][Next]_vars

-----------------------------------------------------------------------------
(* Properties *)

StoreTypeOK ==
  /\ results \subseteq Ids
  /\ approvals \in [Ids -> [state: ApprovalState \cup {"none"},
                            action: Actions \cup {None}]]
  /\ count \in [Runs \X Subjects -> Nat]
  /\ spend \in [Runs -> Nat]
  /\ breaker \in [Runs -> BOOLEAN]
  /\ audit \in [Runs -> Seq(AuditEntry)]

\* A call in progress names a run and an action, and a settled call a decision.
CallTypeOK ==
  /\ call \in [Callers -> Call]
  /\ \A c \in Callers :
       /\ call[c].pc # "idle" => call[c].run \in Runs /\ call[c].action \in Actions
       /\ call[c].pc = "audit" => call[c].decision \in Decisions

\* A record holds an action under its own key; a call that approves has one.
ApprovalsTypeOK ==
  /\ \A id \in Ids : approvals[id] # NoApproval =>
       /\ approvals[id].state \in ApprovalState
       /\ approvals[id].action \in Actions
       /\ approvals[id].action.key = id[2]
  /\ \A c \in Callers :
       call[c].pc = "approve" => approvals[IdOf(c)] # NoApproval

HistoryTypeOK ==
  /\ calls \in 0..MaxCalls /\ crashes \in 0..MaxCrashes
  /\ effects \in [Ids -> Nat] /\ lapses \in [Ids -> Nat]
  /\ outlay \in [Runs -> Nat] /\ denied \subseteq Ids

\* Every variable has its type: the store's tables, the calls under way (which
\* always know their run and action: execute and approve build both before
\* their first check), the approval records and the history.
TypeOK == StoreTypeOK /\ CallTypeOK /\ ApprovalsTypeOK /\ HistoryTypeOK

\* GuardPolicy: the cost recorded for a run never passes the cap, although the
\* cap is read (CheckCap) two transactions before the spend is written.
SpendWithinCap == \A r \in Runs : spend[r] <= SpendCap

\* GuardPolicy: no subject has more recorded effects in a run than its budget,
\* although the count is read three transactions before it is written.
BudgetRespected ==
  \A r \in Runs, s \in Subjects : count[<<r, s>>] <= ActionBudget

\* execute's idempotency check (executor.py:84-92): the provider acts under a
\* key at most once more than the number of effects whose result was lost, by
\* a crash before put_result or by a handler that raised after acting.
AtMostOnce == \A id \in Ids : effects[id] <= lapses[id] + 1

\* What the cap is for: as long as no result of a run was lost, the money that
\* really left, and not only the money recorded, stays within the cap.
OutlayWithinCap ==
  \A r \in Runs :
    (\A k \in Keys : lapses[<<r, k>>] = 0) => outlay[r] <= SpendCap

\* The approval gate (executor.py:98-121): a step in which more than the
\* threshold leaves acts under a key whose approval stands approved.
GateHolds ==
  [][\A r \in Runs : outlay'[r] > outlay[r] + ApprovalThreshold =>
       \E k \in Keys : /\ effects'[<<r, k>>] > effects[<<r, k>>]
                       /\ approvals[<<r, k>>].state = "approved"]_vars

\* The breaker halts the run (executor.py:76-82): once it is open it stays
\* open and no effect, not even of a call already under way, follows.
HaltIsFinal ==
  [][\A r \in Runs : breaker[r] =>
       /\ breaker'[r]
       /\ \A k \in Keys : effects'[<<r, k>>] = effects[<<r, k>>]]_vars

\* executor.py:181 says of a denied action that it "will never execute under
\* its key".
DeniedNeverExecutes ==
  [][\A id \in Ids : effects'[id] > effects[id] => id \notin denied]_vars

-----------------------------------------------------------------------------
(* Why they hold when calls are serialised: what a call has established so *)
(* far stays true until it acts on it, because nobody else moves.          *)

PastCap         == {"handler", "record"}
PastBudget      == {"cap", "trip"} \cup PastCap
PastGate        == {"budget", "put"} \cup PastBudget
PastIdempotency == {"gate", "enqueue"} \cup PastGate
PastBreaker     == {"idempotency"} \cup PastIdempotency

OneAtATime ==
  \A c, d \in Callers : ~At(c, "idle") /\ ~At(d, "idle") => c = d

ChecksStillHold ==
  \A c \in Callers :
    /\ call[c].pc \in PastBreaker => ~breaker[RunOf(c)]
    /\ call[c].pc \in PastIdempotency => IdOf(c) \notin results
    /\ call[c].pc \in PastGate =>
         \/ ActOf(c).cost <= ApprovalThreshold
         \/ approvals[IdOf(c)].state = "approved"
    /\ call[c].pc \in PastBudget =>
         count[<<RunOf(c), ActOf(c).subject>>] < ActionBudget
    /\ call[c].pc \in PastCap => spend[RunOf(c)] + ActOf(c).cost <= SpendCap

\* Every effect is settled, lost, or in the hands of the call that made it.
EffectsAccounted ==
  \A id \in Ids :
    effects[id] = lapses[id]
                  + (IF id \in results THEN 1 ELSE 0)
                  + (IF \E c \in Callers : Unsettled(c) /\ IdOf(c) = id
                     THEN 1 ELSE 0)

\* Unless a result of the run was lost, only the call about to record its
\* execution separates the money gone from the money on the books.
OutlayRecorded ==
  \A r \in Runs : (\A k \in Keys : lapses[<<r, k>>] = 0) =>
    /\ (\A c \in Callers : At(c, "record") => RunOf(c) # r)
         => outlay[r] = spend[r]
    /\ \A c \in Callers : At(c, "record") /\ RunOf(c) = r
         => outlay[r] = spend[r] + ActOf(c).cost

\* The inductive invariant behind the safety properties above: one call at a
\* time, what it checked in executor.py:76-144 still true when it acts at 148,
\* and every effect and rupee accounted for between lines 148 and 160.
IInv ==
  /\ TypeOK /\ OneAtATime /\ ChecksStillHold
  /\ SpendWithinCap /\ BudgetRespected
  /\ EffectsAccounted /\ OutlayRecorded

=============================================================================
