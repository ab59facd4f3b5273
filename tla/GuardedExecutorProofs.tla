------------------------ MODULE GuardedExecutorProofs ------------------------
(***************************************************************************)
(* Proofs about GuardedExecutor for every set of runs, callers and actions *)
(* and every threshold, budget, cap and bound: its invariants, that it     *)
(* implements GuardContract, and what AuditReplay makes of its log.        *)
(***************************************************************************)
EXTENDS GuardedExecutorRefinement, AuditReplay, FiniteSetTheorems, SequenceTheorems,
        WellFoundedInduction, TLAPS

\* A call in progress works on an action with a known key, subject and cost.
LEMMA CallTypes ==
  ASSUME CallTypeOK, NEW c \in Callers, call[c].pc # "idle"
  PROVE  /\ RunOf(c) \in Runs /\ ActOf(c) \in Actions
         /\ ActOf(c).key \in Keys /\ ActOf(c).subject \in Subjects
         /\ ActOf(c).cost \in Nat
         /\ IdOf(c) \in Ids /\ IdOf(c)[2] = ActOf(c).key
         /\ <<RunOf(c), ActOf(c).subject>> \in Runs \X Subjects
BY ConfigAssumption DEF CallTypeOK, IdOf, Ids, RunOf, ActOf

-----------------------------------------------------------------------------
(* Every step of a call moves it on, settles its decision, or ends it.     *)

Moves(c) ==
  \/ \E pc \in PC \ {"idle", "approve", "audit"} : Goto(c, pc)
  \/ \E status \in Decisions : Finish(c, status)
  \/ Return(c)

LEMMA MovesType ==
  ASSUME CallTypeOK, NEW c \in Callers, call[c].pc # "idle", Moves(c)
  PROVE  /\ CallTypeOK'
         /\ \A d \in Callers : call'[d].pc = "approve" => call'[d] = call[d]
<1>1. ASSUME NEW pc \in PC \ {"idle", "approve", "audit"}, Goto(c, pc)
      PROVE  /\ CallTypeOK'
             /\ \A d \in Callers : call'[d].pc = "approve" => call'[d] = call[d]
  BY <1>1 DEF CallTypeOK, Goto, Call
<1>2. ASSUME NEW status \in Decisions, Finish(c, status)
      PROVE  /\ CallTypeOK'
             /\ \A d \in Callers : call'[d].pc = "approve" => call'[d] = call[d]
  BY <1>2 DEF CallTypeOK, Finish, Call, PC
<1>3. CASE Return(c)
  BY <1>3 DEF CallTypeOK, Return, Idle, Call, PC
<1> QED
  BY <1>1, <1>2, <1>3 DEF Moves

\* A step after the first is a move of a call in progress.
LEMMA StepMoves ==
  ASSUME CallTypeOK, NEW c \in Callers, Step(c)
  PROVE  call[c].pc # "idle" /\ Moves(c)
<1> USE DEF At, Moves, PC, Decisions, ExecutionStatus
<1>1. CASE CheckBreaker(c)
  BY <1>1 DEF CheckBreaker
<1>2. CASE CheckIdempotency(c)
  BY <1>2 DEF CheckIdempotency
<1>3. CASE RaiseUnknownAction(c)
  BY <1>3 DEF RaiseUnknownAction
<1>4. CASE CheckGate(c)
  BY <1>4 DEF CheckGate, Gated
<1>5. CASE CreatePending(c)
  BY <1>5 DEF CreatePending, Gated
<1>6. CASE CheckBudget(c)
  BY <1>6 DEF CheckBudget
<1>7. CASE CheckCap(c)
  BY <1>7 DEF CheckCap
<1>8. CASE TripBreaker(c)
  BY <1>8 DEF TripBreaker
<1>9. CASE HandlerReturns(c)
  BY <1>9 DEF HandlerReturns
<1>10. CASE HandlerRaises(c)
  BY <1>10 DEF HandlerRaises
<1>11. CASE RecordExecution(c)
  BY <1>11 DEF RecordExecution
<1>12. CASE PutResult(c)
  BY <1>12 DEF PutResult
<1>13. CASE AppendAudit(c)
  BY <1>13 DEF AppendAudit
<1>14. CASE SetApproved(c)
  BY <1>14 DEF SetApproved
<1> QED
  BY <1>1, <1>2, <1>3, <1>4, <1>5, <1>6, <1>7, <1>8, <1>9, <1>10, <1>11,
     <1>12, <1>13, <1>14 DEF Step

-----------------------------------------------------------------------------
(* Type correctness *)

LEMMA InitTypeOK == Init => TypeOK
<1> SUFFICES ASSUME Init PROVE TypeOK
  OBVIOUS
<1>1. StoreTypeOK
  BY DEF Init, StoreTypeOK, Ids, NoApproval
<1>2. CallTypeOK
  BY DEF Init, CallTypeOK, Idle, Call, PC
<1>3. ApprovalsTypeOK
  BY DEF Init, ApprovalsTypeOK, Idle
<1>4. HistoryTypeOK
  BY ConfigAssumption DEF Init, HistoryTypeOK
<1> QED
  BY <1>1, <1>2, <1>3, <1>4 DEF TypeOK


\* The tables written by a step keep their types.
LEMMA StepStoreTypeOK ==
  ASSUME TypeOK, NEW c \in Callers, Step(c)
  PROVE  StoreTypeOK' /\ ApprovalsTypeOK' /\ HistoryTypeOK'
<1> USE DEF TypeOK, store, bounds, history
<1>0. call[c].pc # "idle" /\ Moves(c)
  BY StepMoves
<1>id. /\ RunOf(c) \in Runs /\ ActOf(c) \in Actions
       /\ ActOf(c).cost \in Nat
       /\ IdOf(c) \in Ids /\ IdOf(c)[2] = ActOf(c).key
       /\ <<RunOf(c), ActOf(c).subject>> \in Runs \X Subjects
  BY <1>0, CallTypes
<1>kept. UNCHANGED approvals => ApprovalsTypeOK'
  BY <1>0, MovesType DEF ApprovalsTypeOK, IdOf
<1>1. CASE UNCHANGED <<store, bounds, history>>
  BY <1>1, <1>kept DEF StoreTypeOK, HistoryTypeOK
<1>2. CASE CreatePending(c)
  <2>1. /\ StoreTypeOK' /\ HistoryTypeOK'
    <3>1. \/ UNCHANGED approvals
          \/ approvals' = [approvals EXCEPT ![IdOf(c)] =
                             [state |-> "pending", action |-> ActOf(c)]]
      BY <1>2 DEF CreatePending
    <3>2. [state |-> "pending", action |-> ActOf(c)]
            \in [state: ApprovalState \cup {"none"}, action: Actions \cup {None}]
      BY <1>id DEF ApprovalState
    <3>3. approvals' \in [Ids -> [state: ApprovalState \cup {"none"},
                                  action: Actions \cup {None}]]
      BY <3>1, <3>2, <1>id DEF StoreTypeOK
    <3> QED
      BY <1>2, <3>3 DEF CreatePending, StoreTypeOK, HistoryTypeOK
  <2>2. CASE UNCHANGED approvals
    BY <2>1, <2>2, <1>kept
  <2>3. CASE approvals' = [approvals EXCEPT ![IdOf(c)] =
                             [state |-> "pending", action |-> ActOf(c)]]
    <3>1. \A id \in Ids : approvals'[id] =
            IF id = IdOf(c) THEN [state |-> "pending", action |-> ActOf(c)]
            ELSE approvals[id]
      BY <2>3 DEF StoreTypeOK
    <3>2. \A d \in Callers : call'[d].pc = "approve" =>
            call'[d] = call[d] /\ IdOf(d) \in Ids
      BY <1>0, MovesType, CallTypes
    <3>3. \A d \in Callers : call'[d].pc = "approve" =>
            approvals'[IdOf(d)] # NoApproval
      BY <3>1, <3>2 DEF ApprovalsTypeOK, NoApproval
    <3>4. \A d \in Callers : call'[d].pc = "approve" => IdOf(d)' = IdOf(d)
      BY <3>2 DEF IdOf
    <3> QED
      BY <3>1, <3>3, <3>4, <1>id, <2>1 DEF ApprovalsTypeOK, ApprovalState
  <2> QED
    BY <1>2, <2>2, <2>3 DEF CreatePending
<1>3. CASE TripBreaker(c)
  BY <1>3, <1>id, <1>kept DEF TripBreaker, StoreTypeOK, HistoryTypeOK
<1>acts. ASSUME ProviderActs(c)
         PROVE  effects' \in [Ids -> Nat] /\ outlay' \in [Runs -> Nat]
  <2>1. effects' \in [Ids -> Nat]
    BY <1>acts, <1>id DEF ProviderActs, HistoryTypeOK
  <2>2. outlay' \in [Runs -> Nat]
    BY <1>acts, <1>id DEF ProviderActs, HistoryTypeOK
  <2> QED
    BY <2>1, <2>2
<1>4. CASE HandlerReturns(c)
  BY <1>4, <1>acts, <1>kept DEF HandlerReturns, StoreTypeOK, HistoryTypeOK
<1>5. CASE HandlerRaises(c)
  <2>1. StoreTypeOK' /\ UNCHANGED <<approvals, bounds, denied>>
    BY <1>5 DEF HandlerRaises, StoreTypeOK
  <2>2. effects' \in [Ids -> Nat] /\ outlay' \in [Runs -> Nat]
    BY <1>5, <1>acts DEF HandlerRaises, HistoryTypeOK
  <2>3. lapses' \in [Ids -> Nat]
    BY <1>5, <1>id DEF HandlerRaises, HistoryTypeOK
  <2> QED
    BY <2>1, <2>2, <2>3, <1>kept DEF HistoryTypeOK
<1>6. CASE RecordExecution(c)
  <2>1. spend' \in [Runs -> Nat]
    BY <1>6, <1>id DEF RecordExecution, StoreTypeOK
  <2>2. count' \in [Runs \X Subjects -> Nat]
    BY <1>6, <1>id DEF RecordExecution, StoreTypeOK
  <2> QED
    BY <2>1, <2>2, <1>6, <1>kept DEF RecordExecution, StoreTypeOK, HistoryTypeOK
<1>7. CASE PutResult(c)
  BY <1>7, <1>id, <1>kept DEF PutResult, StoreTypeOK, HistoryTypeOK
<1>8. CASE AppendAudit(c)
  <2>1. call[c].decision \in Decisions
    BY <1>8 DEF AppendAudit, At, CallTypeOK
  <2>2. [action |-> ActOf(c), decision |-> call[c].decision] \in AuditEntry
    BY <2>1, <1>id DEF AuditEntry
  <2>3. audit' \in [Runs -> Seq(AuditEntry)]
    BY <2>2, <1>8, <1>id DEF AppendAudit, StoreTypeOK
  <2> QED
    BY <2>3, <1>8, <1>kept DEF AppendAudit, StoreTypeOK, HistoryTypeOK
<1>9. CASE SetApproved(c)
  <2>1. /\ StoreTypeOK' /\ HistoryTypeOK'
    BY <1>9, <1>id DEF SetApproved, StoreTypeOK, HistoryTypeOK, ApprovalState
  <2>2. \A id \in Ids : approvals'[id] =
          IF id = IdOf(c) THEN [approvals[id] EXCEPT !.state = "approved"]
          ELSE approvals[id]
    BY <1>9 DEF SetApproved, StoreTypeOK
  <2>3. approvals[IdOf(c)] # NoApproval
    BY <1>9 DEF SetApproved, At, ApprovalsTypeOK
  <2>4. \A d \in Callers : call'[d].pc = "approve" =>
          /\ call'[d] = call[d] /\ IdOf(d) \in Ids
          /\ approvals[IdOf(d)] # NoApproval
    BY <1>0, MovesType, CallTypes DEF ApprovalsTypeOK
  <2>5. \A d \in Callers : call'[d].pc = "approve" => IdOf(d)' = IdOf(d)
    BY <2>4 DEF IdOf
  <2>6. \A id \in Ids : approvals'[id] = NoApproval => approvals[id] = NoApproval
    <3>1. approvals'[IdOf(c)].state = "approved"
      BY <2>2, <1>id DEF StoreTypeOK
    <3>2. approvals'[IdOf(c)] # NoApproval
      BY <3>1 DEF NoApproval
    <3> QED
      BY <2>2, <3>2
  <2>7. \A id \in Ids : approvals'[id] # NoApproval =>
          /\ approvals'[id].state \in ApprovalState
          /\ approvals'[id].action \in Actions
          /\ approvals'[id].action.key = id[2]
    BY <2>2, <2>3, <1>id DEF ApprovalsTypeOK, ApprovalState, StoreTypeOK
  <2> QED
    BY <2>1, <2>4, <2>5, <2>6, <2>7 DEF ApprovalsTypeOK
<1> QED
  BY <1>1, <1>2, <1>3, <1>4, <1>5, <1>6, <1>7, <1>8, <1>9
     DEF Step, CheckBreaker, CheckIdempotency, RaiseUnknownAction, CheckGate,
         CheckBudget, CheckCap

LEMMA StepTypeOK ==
  ASSUME TypeOK, NEW c \in Callers, Step(c)
  PROVE  TypeOK'
BY StepMoves, MovesType, StepStoreTypeOK DEF TypeOK

LEMMA ExecuteTypeOK ==
  ASSUME TypeOK, NEW c \in Callers, NEW r \in Runs, NEW a \in Actions,
         Execute(c, r, a)
  PROVE  TypeOK'
<1> USE DEF TypeOK, Execute, Begin, MayBegin, store, history
<1>1. StoreTypeOK' /\ HistoryTypeOK'
  BY ConfigAssumption DEF StoreTypeOK, HistoryTypeOK
<1>2. CallTypeOK'
  BY DEF CallTypeOK, Call, PC
<1>3. ApprovalsTypeOK'
  <2>1. \A d \in Callers : call'[d].pc = "approve" => call'[d] = call[d]
    BY DEF CallTypeOK, Call
  <2> QED
    BY <2>1 DEF ApprovalsTypeOK, IdOf
<1> QED
  BY <1>1, <1>2, <1>3

LEMMA ApproveTypeOK ==
  ASSUME TypeOK, NEW c \in Callers, NEW id \in Ids, Approve(c, id)
  PROVE  TypeOK'
<1> USE DEF TypeOK, Approve, Begin, MayBegin, store, history
<1>1. StoreTypeOK' /\ HistoryTypeOK'
  BY ConfigAssumption DEF StoreTypeOK, HistoryTypeOK
<1>2. /\ id[1] \in Runs /\ id = <<id[1], id[2]>>
      /\ approvals[id].action \in Actions /\ approvals[id].action.key = id[2]
  BY DEF ApprovalsTypeOK, Ids
<1>3. CallTypeOK'
  BY <1>2 DEF CallTypeOK, Call, PC
<1>4. ApprovalsTypeOK'
  <2>1. \A d \in Callers \ {c} : call'[d] = call[d]
    BY DEF CallTypeOK
  <2>2. call'[c].run = id[1] /\ call'[c].action = approvals[id].action
    BY DEF CallTypeOK
  <2>3. IdOf(c)' = id
    BY <2>2, <1>2 DEF IdOf
  <2>4. \A d \in Callers \ {c} : IdOf(d)' = IdOf(d)
    BY <2>1 DEF IdOf
  <2> QED
    BY <2>1, <2>3, <2>4 DEF ApprovalsTypeOK
<1> QED
  BY <1>1, <1>3, <1>4

LEMMA RejectTypeOK ==
  ASSUME TypeOK, NEW c \in Callers, NEW id \in Ids, RejectApproval(c, id)
  PROVE  TypeOK'
<1> USE DEF TypeOK, RejectApproval, MayBegin
<1>1. StoreTypeOK' /\ HistoryTypeOK'
  <2>1. approvals' \in [Ids -> [state: ApprovalState \cup {"none"},
                                action: Actions \cup {None}]]
    BY DEF StoreTypeOK, ApprovalState
  <2> QED
    BY <2>1, ConfigAssumption DEF StoreTypeOK, HistoryTypeOK
<1>2. CallTypeOK'
  BY DEF CallTypeOK
<1>3. \A i \in Ids : approvals'[i] =
        IF i = id THEN [approvals[i] EXCEPT !.state = "rejected"]
        ELSE approvals[i]
  BY DEF StoreTypeOK
<1>4. \A i \in Ids : approvals'[i] = NoApproval => approvals[i] = NoApproval
  <2>1. approvals'[id].state = "rejected"
    BY <1>3 DEF StoreTypeOK
  <2>2. approvals'[id] # NoApproval
    BY <2>1 DEF NoApproval
  <2> QED
    BY <1>3, <2>2
<1>5. \A i \in Ids : approvals'[i] # NoApproval =>
        /\ approvals'[i].state \in ApprovalState
        /\ approvals'[i].action \in Actions
        /\ approvals'[i].action.key = i[2]
  BY <1>3 DEF ApprovalsTypeOK, ApprovalState, StoreTypeOK
<1>6. \A d \in Callers : /\ IdOf(d)' = IdOf(d)
                         /\ call[d].pc = "approve" => IdOf(d) \in Ids
  BY CallTypes DEF IdOf
<1> QED
  BY <1>1, <1>2, <1>4, <1>5, <1>6 DEF ApprovalsTypeOK

LEMMA CrashTypeOK == TypeOK /\ Crash => TypeOK'
<1> SUFFICES ASSUME TypeOK, Crash PROVE TypeOK'
  OBVIOUS
<1> USE DEF TypeOK, Crash, store
<1>1. StoreTypeOK'
  BY DEF StoreTypeOK
<1>2. HistoryTypeOK'
  BY ConfigAssumption DEF HistoryTypeOK
<1>3. CallTypeOK'
  BY DEF CallTypeOK, Idle, Call, PC
<1>4. ApprovalsTypeOK'
  BY DEF ApprovalsTypeOK, Idle
<1> QED
  BY <1>1, <1>2, <1>3, <1>4

LEMMA NextTypeOK == TypeOK /\ [Next]_vars => TypeOK'
<1> SUFFICES ASSUME TypeOK, [Next]_vars PROVE TypeOK'
  OBVIOUS
<1>1. ASSUME UNCHANGED vars PROVE TypeOK'
  BY <1>1 DEF vars, store, bounds, history, TypeOK, StoreTypeOK, CallTypeOK,
              ApprovalsTypeOK, HistoryTypeOK, IdOf
<1>2. CASE Rest
  BY <1>2, <1>1 DEF Rest
<1> QED
  BY <1>1, <1>2, StepTypeOK, ExecuteTypeOK, ApproveTypeOK, RejectTypeOK,
     CrashTypeOK DEF Next

\* Every variable keeps its type, and a call in progress always knows its run
\* and its action (executor.py:74-163): with or without the pipeline's lock.
THEOREM TypeCorrect == Spec => []TypeOK
<1>1. Init => TypeOK
  BY InitTypeOK
<1>2. TypeOK /\ [Next]_vars => TypeOK'
  BY NextTypeOK
<1> QED
  BY <1>1, <1>2, PTL DEF Spec

-----------------------------------------------------------------------------
(* Serialised calls: one at a time, so nobody disturbs what a call checked. *)

\* While a call makes a step every other caller is idle and stays so, and the
\* call either ends or goes on with the same run and action.
LEMMA StepFrame ==
  ASSUME TypeOK, OneAtATime, NEW c \in Callers, Step(c)
  PROVE  /\ call[c].pc # "idle"
         /\ \A d \in Callers \ {c} : call[d].pc = "idle" /\ call'[d] = call[d]
         /\ \/ call'[c] = Idle
            \/ RunOf(c)' = RunOf(c) /\ ActOf(c)' = ActOf(c) /\ IdOf(c)' = IdOf(c)
         /\ OneAtATime'
<1>1. call[c].pc # "idle" /\ Moves(c)
  BY StepMoves DEF TypeOK
<1>2. \A d \in Callers \ {c} : call[d].pc = "idle" /\ call'[d] = call[d]
  BY <1>1 DEF OneAtATime, At, Moves, Goto, Finish, Return, TypeOK, CallTypeOK
<1>3. \/ call'[c] = Idle
      \/ call'[c].run = call[c].run /\ call'[c].action = call[c].action
  BY <1>1 DEF Moves, Goto, Finish, Return, TypeOK, CallTypeOK, Call
<1>4. OneAtATime'
  BY <1>2 DEF OneAtATime, At
<1> QED
  BY <1>1, <1>2, <1>3, <1>4 DEF RunOf, ActOf, IdOf

\* Where a step takes the call's program counter.
LEMMA GotoPC ==
  ASSUME TypeOK, NEW c \in Callers, NEW pc, Goto(c, pc)
  PROVE  call'[c].pc = pc
BY DEF Goto, TypeOK, CallTypeOK, Call

LEMMA FinishPC ==
  ASSUME TypeOK, NEW c \in Callers, NEW status, Finish(c, status)
  PROVE  call'[c].pc = "audit"
BY DEF Finish, TypeOK, CallTypeOK, Call

\* What a call has established still holds when it takes its next step.
LEMMA StepChecks ==
  ASSUME TypeOK, OneAtATime, ChecksStillHold, NEW c \in Callers, Step(c)
  PROVE  ChecksStillHold'
<1> USE DEF At, PastCap, PastBudget, PastGate, PastIdempotency, PastBreaker
<1>frame. /\ call[c].pc # "idle"
          /\ \A d \in Callers \ {c} : call[d].pc = "idle" /\ call'[d] = call[d]
          /\ \/ call'[c].pc = "idle"
             \/ RunOf(c)' = RunOf(c) /\ ActOf(c)' = ActOf(c) /\ IdOf(c)' = IdOf(c)
  BY StepFrame DEF Idle
<1> SUFFICES ASSUME call'[c].pc \in PastBreaker
             PROVE
    /\ ~breaker'[RunOf(c)]
    /\ call'[c].pc \in PastIdempotency => IdOf(c) \notin results'
    /\ call'[c].pc \in PastGate =>
         \/ ActOf(c).cost <= ApprovalThreshold
         \/ approvals'[IdOf(c)].state = "approved"
    /\ call'[c].pc \in PastBudget =>
         count'[<<RunOf(c), ActOf(c).subject>>] < ActionBudget
    /\ call'[c].pc \in PastCap =>
         spend'[RunOf(c)] + ActOf(c).cost <= SpendCap
  BY <1>frame DEF ChecksStillHold
<1>types. /\ RunOf(c) \in Runs /\ ActOf(c).cost \in Nat /\ IdOf(c) \in Ids
          /\ <<RunOf(c), ActOf(c).subject>> \in Runs \X Subjects
          /\ spend[RunOf(c)] \in Nat
          /\ count[<<RunOf(c), ActOf(c).subject>>] \in Nat
  <2>1. /\ RunOf(c) \in Runs /\ ActOf(c).cost \in Nat /\ IdOf(c) \in Ids
        /\ <<RunOf(c), ActOf(c).subject>> \in Runs \X Subjects
    BY <1>frame, CallTypes DEF TypeOK
  <2>2. spend[RunOf(c)] \in Nat
    BY <2>1 DEF TypeOK, StoreTypeOK
  <2>3. count[<<RunOf(c), ActOf(c).subject>>] \in Nat
    BY <2>1 DEF TypeOK, StoreTypeOK
  <2> QED
    BY <2>1, <2>2, <2>3
<1>1. CASE CheckBreaker(c)
  BY <1>1, GotoPC, FinishPC DEF CheckBreaker, BreakerOpen, store
<1>2. CASE CheckIdempotency(c)
  BY <1>2, GotoPC, FinishPC DEF CheckIdempotency, Settled, store, ChecksStillHold
<1>3. CASE RaiseUnknownAction(c)
  BY <1>3 DEF RaiseUnknownAction, Return, Idle, TypeOK, CallTypeOK
<1>4. CASE CheckGate(c)
  <2>1. CASE ~NeedsApproval(ActOf(c)) /\ Goto(c, "budget")
    <3>1. ActOf(c).cost <= ApprovalThreshold
      BY <2>1, <1>types, ConfigAssumption DEF NeedsApproval
    <3>2. call'[c].pc = "budget"
      BY <2>1, GotoPC
    <3> QED
      BY <1>4, <3>1, <3>2 DEF CheckGate, store, ChecksStillHold
  <2>2. CASE Goto(c, "enqueue")
    BY <1>4, <2>2, GotoPC DEF CheckGate, store, ChecksStillHold
  <2>3. CASE Gated(c, IdOf(c))
    BY <1>4, <2>3, GotoPC, FinishPC DEF CheckGate, Gated, Approved, store, ChecksStillHold
  <2> QED
    BY <1>4, <2>1, <2>2, <2>3 DEF CheckGate
<1>5. CASE CreatePending(c)
  BY <1>5, GotoPC, FinishPC DEF CreatePending, Gated, Approved, ChecksStillHold
<1>6. CASE CheckBudget(c)
  <2>1. call'[c].pc = "cap" /\ ~BudgetExhausted(RunOf(c), ActOf(c).subject)
    BY <1>6, GotoPC, FinishPC DEF CheckBudget
  <2>2. count[<<RunOf(c), ActOf(c).subject>>] < ActionBudget
    BY <2>1, <1>types, ConfigAssumption DEF BudgetExhausted
  <2> QED
    BY <1>6, <2>1, <2>2 DEF CheckBudget, store, ChecksStillHold
<1>7. CASE CheckCap(c)
  <2>1. \/ call'[c].pc = "trip"
        \/ call'[c].pc = "handler" /\ ~ExceedsCap(RunOf(c), ActOf(c))
    BY <1>7, GotoPC DEF CheckCap
  <2>2. ~ExceedsCap(RunOf(c), ActOf(c)) =>
          spend[RunOf(c)] + ActOf(c).cost <= SpendCap
    BY <1>types, ConfigAssumption DEF ExceedsCap
  <2> QED
    BY <1>7, <2>1, <2>2 DEF CheckCap, store, ChecksStillHold
<1>8. CASE TripBreaker(c)
  BY <1>8, FinishPC DEF TripBreaker
<1>9. CASE HandlerReturns(c)
  BY <1>9, GotoPC DEF HandlerReturns, store, ChecksStillHold
<1>10. CASE HandlerRaises(c)
  BY <1>10, FinishPC DEF HandlerRaises
<1>11. CASE RecordExecution(c)
  BY <1>11, GotoPC DEF RecordExecution, ChecksStillHold
<1>12. CASE PutResult(c)
  BY <1>12, FinishPC DEF PutResult
<1>13. CASE AppendAudit(c)
  BY <1>13 DEF AppendAudit, Return, Idle, TypeOK, CallTypeOK
<1>14. CASE SetApproved(c)
  BY <1>14, GotoPC DEF SetApproved
<1> QED
  BY <1>1, <1>2, <1>3, <1>4, <1>5, <1>6, <1>7, <1>8, <1>9, <1>10, <1>11,
     <1>12, <1>13, <1>14 DEF Step

\* Only the call that moves can be between the provider and put_result.
LEMMA OnlyUnsettled ==
  ASSUME TypeOK, OneAtATime, NEW c \in Callers, Step(c), NEW id
  PROVE  /\ (\E d \in Callers : Unsettled(d) /\ IdOf(d) = id)
              <=> Unsettled(c) /\ IdOf(c) = id
         /\ (\E d \in Callers : Unsettled(d) /\ IdOf(d) = id)'
              <=> call'[c].pc \in {"record", "put"} /\ IdOf(c) = id
<1>1. /\ \A d \in Callers \ {c} : call[d].pc = "idle" /\ call'[d] = call[d]
      /\ \/ call'[c].pc = "idle"
         \/ IdOf(c)' = IdOf(c)
  BY StepFrame DEF Idle
<1> QED
  BY <1>1 DEF Unsettled

\* A step leaves every effect settled, lost, or in the hands of its call.
LEMMA StepAccounts ==
  ASSUME TypeOK, OneAtATime, ChecksStillHold, EffectsAccounted,
         NEW c \in Callers, Step(c)
  PROVE  EffectsAccounted'
<1> USE DEF At
<1>0. call[c].pc # "idle"
  BY StepFrame
<1>types. /\ IdOf(c) \in Ids
          /\ \A id \in Ids : effects[id] \in Nat /\ lapses[id] \in Nat
  BY <1>0, CallTypes DEF TypeOK, HistoryTypeOK
<1>old. \A id \in Ids :
    effects[id] = lapses[id] + (IF id \in results THEN 1 ELSE 0)
                  + (IF Unsettled(c) /\ IdOf(c) = id THEN 1 ELSE 0)
  BY OnlyUnsettled DEF EffectsAccounted
<1> SUFFICES \A id \in Ids :
    effects'[id] = lapses'[id] + (IF id \in results' THEN 1 ELSE 0)
         + (IF call'[c].pc \in {"record", "put"} /\ IdOf(c) = id THEN 1 ELSE 0)
  BY OnlyUnsettled DEF EffectsAccounted
<1>quiet. CASE /\ UNCHANGED <<results, effects, lapses>>
               /\ call[c].pc \notin {"record", "put"}
               /\ call'[c].pc \notin {"record", "put"}
  BY <1>quiet, <1>old DEF Unsettled
<1>1. CASE HandlerReturns(c)
  <2>1. /\ call[c].pc = "handler" /\ call'[c].pc = "record"
        /\ UNCHANGED <<results, lapses>>
    BY <1>1, GotoPC DEF HandlerReturns, store
  <2>2. \A id \in Ids : effects'[id] = IF id = IdOf(c) THEN effects[id] + 1
                                       ELSE effects[id]
    BY <1>1 DEF HandlerReturns, ProviderActs, TypeOK, HistoryTypeOK
  <2> QED
    BY <2>1, <2>2, <1>old, <1>types DEF Unsettled
<1>2. CASE HandlerRaises(c)
  <2>1. /\ call[c].pc = "handler" /\ call'[c].pc = "audit" /\ UNCHANGED results
    BY <1>2, FinishPC DEF HandlerRaises, store
  <2>2. CASE UNCHANGED <<effects, lapses>>
    BY <2>1, <2>2, <1>old DEF Unsettled
  <2>3. CASE /\ effects' = [effects EXCEPT ![IdOf(c)] = @ + 1]
             /\ lapses' = [lapses EXCEPT ![IdOf(c)] = @ + 1]
    <3>1. \A id \in Ids :
            /\ effects'[id] = IF id = IdOf(c) THEN effects[id] + 1 ELSE effects[id]
            /\ lapses'[id] = IF id = IdOf(c) THEN lapses[id] + 1 ELSE lapses[id]
      BY <2>3 DEF TypeOK, HistoryTypeOK
    <3> QED
      BY <2>1, <3>1, <1>old, <1>types DEF Unsettled
  <2> QED
    BY <1>2, <2>2, <2>3 DEF HandlerRaises, ProviderActs
<1>3. CASE RecordExecution(c)
  <2>1. /\ call[c].pc = "record" /\ call'[c].pc = "put"
        /\ UNCHANGED <<results, effects, lapses>>
    BY <1>3, GotoPC DEF RecordExecution, history
  <2> QED
    BY <2>1, <1>old DEF Unsettled
<1>4. CASE PutResult(c)
  <2>1. /\ call[c].pc = "put" /\ call'[c].pc = "audit"
        /\ results' = results \cup {IdOf(c)} /\ UNCHANGED <<effects, lapses>>
    BY <1>4, FinishPC DEF PutResult, history
  <2>2. IdOf(c) \notin results
    BY <2>1 DEF ChecksStillHold, PastIdempotency, PastGate
  <2> QED
    BY <2>1, <2>2, <1>old, <1>types DEF Unsettled
<1>5. \/ HandlerReturns(c) \/ HandlerRaises(c) \/ RecordExecution(c) \/ PutResult(c)
      \/ /\ UNCHANGED <<results, effects, lapses>>
         /\ call[c].pc \notin {"record", "put"}
         /\ call'[c].pc \notin {"record", "put"}
  <2> USE GotoPC, FinishPC DEF store, history
  <2>1. Return(c) => call'[c].pc = "idle"
    BY DEF Return, Idle, TypeOK, CallTypeOK
  <2>2. CASE CheckBreaker(c)
    BY <2>2 DEF CheckBreaker
  <2>3. CASE CheckIdempotency(c)
    BY <2>3 DEF CheckIdempotency
  <2>4. CASE RaiseUnknownAction(c)
    BY <2>4, <2>1 DEF RaiseUnknownAction
  <2>5. CASE CheckGate(c)
    BY <2>5 DEF CheckGate, Gated
  <2>6. CASE CreatePending(c)
    BY <2>6 DEF CreatePending, Gated
  <2>7. CASE CheckBudget(c)
    BY <2>7 DEF CheckBudget
  <2>8. CASE CheckCap(c)
    BY <2>8 DEF CheckCap
  <2>9. CASE TripBreaker(c)
    BY <2>9 DEF TripBreaker
  <2>10. CASE AppendAudit(c)
    BY <2>10, <2>1 DEF AppendAudit
  <2>11. CASE SetApproved(c)
    BY <2>11 DEF SetApproved
  <2> QED
    BY <2>2, <2>3, <2>4, <2>5, <2>6, <2>7, <2>8, <2>9, <2>10, <2>11 DEF Step
<1> QED
  BY <1>quiet, <1>1, <1>2, <1>3, <1>4, <1>5

\* Only record_execution writes the spend and the count, and it does so within
\* the cap and the budget that its call checked.
LEMMA StepBooks ==
  ASSUME TypeOK, OneAtATime, ChecksStillHold, SpendWithinCap, BudgetRespected,
         NEW c \in Callers, Step(c)
  PROVE  SpendWithinCap' /\ BudgetRespected'
<1>1. CASE RecordExecution(c)
  <2>1. call[c].pc = "record"
    BY <1>1 DEF RecordExecution, At
  <2>2. /\ RunOf(c) \in Runs /\ ActOf(c).cost \in Nat
        /\ <<RunOf(c), ActOf(c).subject>> \in Runs \X Subjects
    BY <2>1, CallTypes DEF TypeOK
  <2>3. /\ spend[RunOf(c)] + ActOf(c).cost <= SpendCap
        /\ count[<<RunOf(c), ActOf(c).subject>>] < ActionBudget
    BY <2>1 DEF ChecksStillHold, PastCap, PastBudget
  <2>4. SpendWithinCap'
    <3>1. \A r \in Runs : spend'[r] = IF r = RunOf(c)
                                      THEN spend[r] + ActOf(c).cost ELSE spend[r]
      BY <1>1 DEF RecordExecution, TypeOK, StoreTypeOK
    <3> QED
      BY <3>1, <2>3 DEF SpendWithinCap
  <2>5. BudgetRespected'
    <3>1. \A rs \in Runs \X Subjects :
            count'[rs] = IF rs = <<RunOf(c), ActOf(c).subject>>
                         THEN count[rs] + 1 ELSE count[rs]
      BY <1>1 DEF RecordExecution, TypeOK, StoreTypeOK
    <3>2. count[<<RunOf(c), ActOf(c).subject>>] + 1 <= ActionBudget
      BY <2>2, <2>3, ConfigAssumption DEF TypeOK, StoreTypeOK
    <3> QED
      BY <3>1, <3>2 DEF BudgetRespected
  <2> QED
    BY <2>4, <2>5
<1>2. CASE UNCHANGED <<spend, count>>
  BY <1>2 DEF SpendWithinCap, BudgetRespected
<1> QED
  BY <1>1, <1>2
     DEF Step, CheckBreaker, CheckIdempotency, RaiseUnknownAction, CheckGate,
         CreatePending, CheckBudget, CheckCap, TripBreaker, HandlerReturns,
         HandlerRaises, PutResult, AppendAudit, SetApproved, store

\* Without a lost result the outlay is what is on the books, plus the cost of
\* the call that is about to record it.
LEMMA StepOutlay ==
  ASSUME TypeOK, OneAtATime, OutlayRecorded, NEW c \in Callers, Step(c)
  PROVE  OutlayRecorded'
<1> USE GotoPC, FinishPC DEF At
<1>frame. /\ call[c].pc # "idle"
          /\ \A d \in Callers \ {c} : call[d].pc = "idle" /\ call'[d] = call[d]
          /\ \/ call'[c].pc = "idle"
             \/ RunOf(c)' = RunOf(c) /\ ActOf(c)' = ActOf(c)
  BY StepFrame DEF Idle
<1>types. /\ RunOf(c) \in Runs /\ ActOf(c).key \in Keys /\ ActOf(c).cost \in Nat
          /\ IdOf(c) = <<RunOf(c), ActOf(c).key>> /\ IdOf(c) \in Ids
  BY <1>frame, CallTypes DEF TypeOK, IdOf, RunOf, ActOf
<1>old. \A r \in Runs : (\A k \in Keys : lapses[<<r, k>>] = 0) =>
          outlay[r] = IF call[c].pc = "record" /\ RunOf(c) = r
                      THEN spend[r] + ActOf(c).cost ELSE spend[r]
  BY <1>frame DEF OutlayRecorded
<1> SUFFICES
      \A r \in Runs : (\A k \in Keys : lapses'[<<r, k>>] = 0) =>
        outlay'[r] = IF call'[c].pc = "record" /\ RunOf(c) = r
                     THEN spend'[r] + ActOf(c).cost ELSE spend'[r]
  BY <1>frame DEF OutlayRecorded
<1>quiet. CASE /\ UNCHANGED <<spend, outlay, lapses>>
               /\ call[c].pc # "record" /\ call'[c].pc # "record"
  BY <1>quiet, <1>old
<1>acts. ASSUME ProviderActs(c)
         PROVE  \A r \in Runs : outlay'[r] = IF r = RunOf(c)
                                  THEN outlay[r] + ActOf(c).cost ELSE outlay[r]
  BY <1>acts DEF ProviderActs, TypeOK, HistoryTypeOK
<1>1. CASE HandlerReturns(c)
  <2>1. /\ call[c].pc = "handler" /\ call'[c].pc = "record"
        /\ UNCHANGED <<spend, lapses>>
    BY <1>1 DEF HandlerReturns, store
  <2> QED
    BY <2>1, <1>1, <1>acts, <1>old DEF HandlerReturns
<1>2. CASE HandlerRaises(c)
  <2>1. /\ call[c].pc = "handler" /\ call'[c].pc = "audit" /\ UNCHANGED spend
    BY <1>2 DEF HandlerRaises, store
  <2>2. CASE UNCHANGED <<effects, outlay, lapses>>
    BY <2>1, <2>2, <1>old
  <2>3. CASE ProviderActs(c) /\ lapses' = [lapses EXCEPT ![IdOf(c)] = @ + 1]
    <3>1. /\ lapses'[IdOf(c)] = lapses[IdOf(c)] + 1 /\ lapses[IdOf(c)] \in Nat
          /\ \A id \in Ids \ {IdOf(c)} : lapses'[id] = lapses[id]
      BY <2>3, <1>types DEF TypeOK, HistoryTypeOK
    <3>2. lapses'[<<RunOf(c), ActOf(c).key>>] # 0
      BY <3>1, <1>types
    <3>3. \A r \in Runs, k \in Keys : r # RunOf(c) => lapses'[<<r, k>>] = lapses[<<r, k>>]
      BY <3>1, <1>types DEF Ids
    <3> QED
      BY <3>2, <3>3, <2>1, <2>3, <1>types, <1>acts, <1>old
  <2> QED
    BY <1>2, <2>2, <2>3 DEF HandlerRaises
<1>3. CASE RecordExecution(c)
  <2>1. /\ call[c].pc = "record" /\ call'[c].pc = "put"
        /\ UNCHANGED <<outlay, lapses>>
    BY <1>3 DEF RecordExecution, history
  <2>2. \A r \in Runs : spend'[r] = IF r = RunOf(c)
                                    THEN spend[r] + ActOf(c).cost ELSE spend[r]
    BY <1>3 DEF RecordExecution, TypeOK, StoreTypeOK
  <2> QED
    BY <2>1, <2>2, <1>old
<1>4. \/ HandlerReturns(c) \/ HandlerRaises(c) \/ RecordExecution(c)
      \/ /\ UNCHANGED <<spend, outlay, lapses>>
         /\ call[c].pc # "record" /\ call'[c].pc # "record"
  <2> USE DEF store, history
  <2>1. Return(c) => call'[c].pc = "idle"
    BY DEF Return, Idle, TypeOK, CallTypeOK
  <2>2. CASE CheckBreaker(c)
    BY <2>2 DEF CheckBreaker
  <2>3. CASE CheckIdempotency(c)
    BY <2>3 DEF CheckIdempotency
  <2>4. CASE RaiseUnknownAction(c)
    BY <2>4, <2>1 DEF RaiseUnknownAction
  <2>5. CASE CheckGate(c)
    BY <2>5 DEF CheckGate, Gated
  <2>6. CASE CreatePending(c)
    BY <2>6 DEF CreatePending, Gated
  <2>7. CASE CheckBudget(c)
    BY <2>7 DEF CheckBudget
  <2>8. CASE CheckCap(c)
    BY <2>8 DEF CheckCap
  <2>9. CASE TripBreaker(c)
    BY <2>9 DEF TripBreaker
  <2>10. CASE PutResult(c)
    BY <2>10 DEF PutResult
  <2>11. CASE AppendAudit(c)
    BY <2>11, <2>1 DEF AppendAudit
  <2>12. CASE SetApproved(c)
    BY <2>12 DEF SetApproved
  <2> QED
    BY <2>2, <2>3, <2>4, <2>5, <2>6, <2>7, <2>8, <2>9, <2>10, <2>11, <2>12 DEF Step
<1> QED
  BY <1>quiet, <1>1, <1>2, <1>3, <1>4

LEMMA StepIInv ==
  ASSUME IInv, NEW c \in Callers, Step(c)
  PROVE  IInv'
BY StepTypeOK, StepFrame, StepChecks, StepBooks, StepAccounts, StepOutlay DEF IInv

\* A serialised call begins when nobody else is inside: it has checked nothing.
LEMMA BeginIInv ==
  ASSUME Serialised, IInv, TypeOK', UNCHANGED <<store, history>>,
         NEW c \in Callers, NEW pc \in {"breaker", "approve"}, NEW r, NEW a,
         Begin(c, pc, r, a)
  PROVE  IInv'
<1>1. /\ \A d \in Callers : call[d].pc = "idle"
      /\ \A d \in Callers \ {c} : call'[d].pc = "idle"
      /\ call'[c].pc \in {"breaker", "approve"}
  BY DEF Begin, MayBegin, At, IInv, TypeOK, CallTypeOK
<1>2. OneAtATime'
  BY <1>1 DEF OneAtATime, At
<1>3. ChecksStillHold'
  BY <1>1 DEF ChecksStillHold, PastBreaker, PastIdempotency, PastGate,
              PastBudget, PastCap
<1>4. SpendWithinCap' /\ BudgetRespected'
  BY DEF IInv, SpendWithinCap, BudgetRespected, store
<1>5. EffectsAccounted'
  BY <1>1 DEF IInv, EffectsAccounted, Unsettled, store, history
<1>6. OutlayRecorded'
  BY <1>1 DEF IInv, OutlayRecorded, At, store, history
<1> QED
  BY <1>2, <1>3, <1>4, <1>5, <1>6 DEF IInv

\* A rejection, too, finds every caller idle, and touches no effect.
LEMMA RejectIInv ==
  ASSUME Serialised, IInv, NEW c \in Callers, NEW id \in Ids, RejectApproval(c, id)
  PROVE  IInv'
<1>1. /\ \A d \in Callers : call[d].pc = "idle"
      /\ UNCHANGED <<call, results, count, spend, breaker, effects, outlay, lapses>>
  BY DEF RejectApproval, MayBegin, At
<1>2. TypeOK'
  BY RejectTypeOK DEF IInv
<1>3. OneAtATime' /\ ChecksStillHold'
  BY <1>1 DEF OneAtATime, ChecksStillHold, At, PastBreaker, PastIdempotency,
              PastGate, PastBudget, PastCap
<1>4. SpendWithinCap' /\ BudgetRespected'
  BY <1>1 DEF IInv, SpendWithinCap, BudgetRespected
<1>5. EffectsAccounted'
  BY <1>1 DEF IInv, EffectsAccounted, Unsettled, IdOf
<1>6. OutlayRecorded'
  BY <1>1 DEF IInv, OutlayRecorded, At, RunOf, ActOf
<1> QED
  BY <1>2, <1>3, <1>4, <1>5, <1>6 DEF IInv

\* A crash turns the effect in a call's hands into a lapse.
LEMMA CrashIInv ==
  ASSUME IInv, Crash
  PROVE  IInv'
<1>1. /\ \A d \in Callers : call'[d].pc = "idle"
      /\ UNCHANGED <<results, count, spend, breaker, effects, outlay>>
      /\ \A id \in Ids : lapses'[id] =
           IF \E c \in Callers : Unsettled(c) /\ IdOf(c) = id
           THEN lapses[id] + 1 ELSE lapses[id]
  BY DEF Crash, store, Idle
<1>2. TypeOK'
  BY CrashTypeOK DEF IInv
<1>3. OneAtATime' /\ ChecksStillHold'
  BY <1>1 DEF OneAtATime, ChecksStillHold, At, PastBreaker, PastIdempotency,
              PastGate, PastBudget, PastCap
<1>4. SpendWithinCap' /\ BudgetRespected'
  BY <1>1 DEF IInv, SpendWithinCap, BudgetRespected
<1>5. \A id \in Ids : lapses[id] \in Nat /\ effects[id] \in Nat
  BY DEF IInv, TypeOK, HistoryTypeOK
<1>6. EffectsAccounted'
  <2>1. \A id \in Ids : ~ (\E d \in Callers : Unsettled(d) /\ IdOf(d) = id)'
    BY <1>1 DEF Unsettled
  <2> QED
    BY <2>1, <1>1, <1>5 DEF IInv, EffectsAccounted
<1>7. OutlayRecorded'
  <2> SUFFICES ASSUME NEW r \in Runs, \A k \in Keys : lapses'[<<r, k>>] = 0
               PROVE  outlay[r] = spend[r]
    BY <1>1 DEF OutlayRecorded, At
  <2>1. \A k \in Keys : <<r, k>> \in Ids
    BY DEF Ids
  <2>2. \A k \in Keys : /\ lapses[<<r, k>>] = 0
                        /\ ~ \E c \in Callers : Unsettled(c) /\ IdOf(c) = <<r, k>>
    BY <2>1, <1>1, <1>5
  <2>3. \A c \in Callers : At(c, "record") => RunOf(c) # r
    <3> SUFFICES ASSUME NEW c \in Callers, At(c, "record"), RunOf(c) = r
                 PROVE  FALSE
      OBVIOUS
    <3>1. ActOf(c).key \in Keys
      BY CallTypes DEF At, IInv, TypeOK
    <3>2. Unsettled(c) /\ IdOf(c) = <<r, ActOf(c).key>>
      BY DEF At, Unsettled, IdOf, RunOf, ActOf
    <3> QED
      BY <3>1, <3>2, <2>2
  <2> QED
    BY <2>2, <2>3 DEF IInv, OutlayRecorded
<1> QED
  BY <1>2, <1>3, <1>4, <1>6, <1>7 DEF IInv

LEMMA InitIInv == Init => IInv
<1> SUFFICES ASSUME Init PROVE IInv
  OBVIOUS
<1>1. \A d \in Callers : call[d].pc = "idle"
  BY DEF Init, Idle
<1>2. OneAtATime /\ ChecksStillHold
  BY <1>1 DEF OneAtATime, ChecksStillHold, At, PastBreaker, PastIdempotency,
              PastGate, PastBudget, PastCap
<1>3. SpendWithinCap /\ BudgetRespected
  BY ConfigAssumption DEF Init, SpendWithinCap, BudgetRespected
<1>4. EffectsAccounted
  BY <1>1 DEF Init, EffectsAccounted, Unsettled
<1>5. OutlayRecorded
  BY <1>1 DEF Init, OutlayRecorded, At
<1> QED
  BY <1>2, <1>3, <1>4, <1>5, InitTypeOK DEF IInv

LEMMA NextIInv ==
  ASSUME Serialised, IInv, [Next]_vars
  PROVE  IInv'
<1>1. ASSUME UNCHANGED vars PROVE IInv'
  <2>1. TypeOK'
    BY <1>1, NextTypeOK DEF IInv
  <2>2. OneAtATime' /\ ChecksStillHold'
    BY <1>1 DEF vars, store, IInv, OneAtATime, ChecksStillHold, At, RunOf,
                ActOf, IdOf
  <2>3. SpendWithinCap' /\ BudgetRespected'
    BY <1>1 DEF vars, store, IInv, SpendWithinCap, BudgetRespected
  <2>4. EffectsAccounted'
    BY <1>1 DEF vars, store, history, IInv, EffectsAccounted, Unsettled, IdOf
  <2>5. OutlayRecorded'
    BY <1>1 DEF vars, store, history, IInv, OutlayRecorded, At, RunOf, ActOf
  <2> QED
    BY <2>1, <2>2, <2>3, <2>4, <2>5 DEF IInv
<1>2. ASSUME NEW c \in Callers, NEW r \in Runs, NEW a \in Actions, Execute(c, r, a)
      PROVE  IInv'
  BY <1>2, BeginIInv, ExecuteTypeOK DEF Execute, IInv
<1>3. ASSUME NEW c \in Callers, NEW id \in Ids, Approve(c, id)
      PROVE  IInv'
  BY <1>3, BeginIInv, ApproveTypeOK DEF Approve, IInv
<1>4. CASE Rest
  BY <1>4, <1>1 DEF Rest
<1> QED
  BY <1>1, <1>2, <1>3, <1>4, StepIInv, RejectIInv, CrashIInv DEF Next

-----------------------------------------------------------------------------
(* The safety theorems, for calls serialised by the pipeline's lock. *)

\* What a call has checked, and where each effect stands, is an invariant.
THEOREM Inductive == ASSUME Serialised PROVE Spec => []IInv
<1>1. Init => IInv
  BY InitIInv
<1>2. IInv /\ [Next]_vars => IInv'
  BY NextIInv
<1> QED
  BY <1>1, <1>2, PTL DEF Spec

\* The recorded spend of a run never passes the cap (executor.py:132-154).
THEOREM SpendNeverPassesCap == ASSUME Serialised PROVE Spec => []SpendWithinCap
<1>1. IInv => SpendWithinCap
  BY DEF IInv
<1> QED
  BY <1>1, Inductive, PTL

\* No subject gets more effects recorded than its budget (executor.py:123-154).
THEOREM BudgetNeverPassed == ASSUME Serialised PROVE Spec => []BudgetRespected
<1>1. IInv => BudgetRespected
  BY DEF IInv
<1> QED
  BY <1>1, Inductive, PTL

\* An idempotency key acts at most once more than results under it were lost,
\* however often the process crashes or the handler raises (executor.py:84-160).
THEOREM EffectsAtMostOnce == ASSUME Serialised PROVE Spec => []AtMostOnce
<1>1. IInv => AtMostOnce
  <2> SUFFICES ASSUME IInv, NEW id \in Ids PROVE effects[id] <= lapses[id] + 1
    BY DEF AtMostOnce
  <2>1. effects[id] = lapses[id] + (IF id \in results THEN 1 ELSE 0)
          + (IF \E c \in Callers : Unsettled(c) /\ IdOf(c) = id THEN 1 ELSE 0)
    BY DEF IInv, EffectsAccounted
  <2>2. ~(id \in results /\ \E c \in Callers : Unsettled(c) /\ IdOf(c) = id)
    BY DEF IInv, ChecksStillHold, Unsettled, PastIdempotency, PastGate,
           PastBudget, PastCap
  <2>3. lapses[id] \in Nat /\ effects[id] \in Nat
    BY DEF IInv, TypeOK, HistoryTypeOK
  <2> QED
    BY <2>1, <2>2, <2>3
<1> QED
  BY <1>1, Inductive, PTL

\* While no result of a run is lost, the money that left stays within the cap.
THEOREM OutlayNeverPassesCap == ASSUME Serialised PROVE Spec => []OutlayWithinCap
<1>1. IInv => OutlayWithinCap
  <2> SUFFICES ASSUME IInv, NEW r \in Runs, \A k \in Keys : lapses[<<r, k>>] = 0
               PROVE  outlay[r] <= SpendCap
    BY DEF OutlayWithinCap
  <2>1. CASE \E c \in Callers : At(c, "record") /\ RunOf(c) = r
    BY <2>1 DEF IInv, OutlayRecorded, ChecksStillHold, PastCap, At
  <2>2. CASE \A c \in Callers : At(c, "record") => RunOf(c) # r
    BY <2>2 DEF IInv, OutlayRecorded, SpendWithinCap
  <2> QED
    BY <2>1, <2>2
<1> QED
  BY <1>1, Inductive, PTL

\* The provider is reached by a call at its handler, and by nothing else.
LEMMA OnlyHandlersAct ==
  ASSUME TypeOK, [Next]_vars
  PROVE  \/ UNCHANGED <<effects, outlay>>
         \/ \E c \in Callers : At(c, "handler") /\ ProviderActs(c)
<1> USE DEF store, history
<1>1. ASSUME NEW c \in Callers, Step(c)
      PROVE  UNCHANGED <<effects, outlay>> \/ (At(c, "handler") /\ ProviderActs(c))
  BY <1>1 DEF Step, CheckBreaker, CheckIdempotency, RaiseUnknownAction, CheckGate,
              CreatePending, CheckBudget, CheckCap, TripBreaker, HandlerReturns,
              HandlerRaises, RecordExecution, PutResult, AppendAudit, SetApproved
<1> QED
  BY <1>1 DEF Next, Execute, Approve, RejectApproval, Crash, Rest, vars

\* A provider's action counts one effect under the call's key and costs what
\* the call's action costs, in the call's run.
LEMMA ActsHere ==
  ASSUME TypeOK, NEW c \in Callers, At(c, "handler"), ProviderActs(c)
  PROVE  /\ RunOf(c) \in Runs /\ ActOf(c).key \in Keys /\ ActOf(c).cost \in Nat
         /\ IdOf(c) = <<RunOf(c), ActOf(c).key>>
         /\ effects'[IdOf(c)] = effects[IdOf(c)] + 1 /\ effects[IdOf(c)] \in Nat
         /\ \A id \in Ids \ {IdOf(c)} : effects'[id] = effects[id]
         /\ \A r \in Runs : /\ outlay[r] \in Nat
                            /\ outlay'[r] = IF r = RunOf(c)
                                  THEN outlay[r] + ActOf(c).cost ELSE outlay[r]
<1>1. /\ RunOf(c) \in Runs /\ ActOf(c).key \in Keys /\ ActOf(c).cost \in Nat
      /\ IdOf(c) \in Ids
  BY CallTypes DEF At, TypeOK
<1>2. IdOf(c) = <<RunOf(c), ActOf(c).key>>
  BY DEF IdOf, RunOf, ActOf
<1>3. /\ effects'[IdOf(c)] = effects[IdOf(c)] + 1 /\ effects[IdOf(c)] \in Nat
      /\ \A id \in Ids \ {IdOf(c)} : effects'[id] = effects[id]
  BY <1>1 DEF ProviderActs, TypeOK, HistoryTypeOK
<1>4. \A r \in Runs : /\ outlay[r] \in Nat
                      /\ outlay'[r] = IF r = RunOf(c)
                            THEN outlay[r] + ActOf(c).cost ELSE outlay[r]
  BY <1>1 DEF ProviderActs, TypeOK, HistoryTypeOK
<1> QED
  BY <1>1, <1>2, <1>3, <1>4

\* More than the threshold leaves only under a key whose approval stands
\* approved at that very moment (executor.py:98-121).
THEOREM GateNeverPassed == ASSUME Serialised PROVE Spec => GateHolds
<1> DEFINE Gate == \A r \in Runs : outlay'[r] > outlay[r] + ApprovalThreshold =>
                     \E k \in Keys : /\ effects'[<<r, k>>] > effects[<<r, k>>]
                                     /\ approvals[<<r, k>>].state = "approved"
<1>1. IInv /\ [Next]_vars => [Gate]_vars
  <2> SUFFICES ASSUME IInv, [Next]_vars, NEW r \in Runs,
                      outlay'[r] > outlay[r] + ApprovalThreshold
               PROVE  \E k \in Keys : /\ effects'[<<r, k>>] > effects[<<r, k>>]
                                      /\ approvals[<<r, k>>].state = "approved"
    OBVIOUS
  <2>1. outlay[r] \in Nat
    BY DEF IInv, TypeOK, HistoryTypeOK
  <2>2. PICK c \in Callers : At(c, "handler") /\ ProviderActs(c)
    BY <2>1, OnlyHandlersAct, ConfigAssumption DEF IInv
  <2>3. /\ ActOf(c).key \in Keys /\ ActOf(c).cost \in Nat
        /\ IdOf(c) = <<RunOf(c), ActOf(c).key>>
        /\ effects'[IdOf(c)] = effects[IdOf(c)] + 1 /\ effects[IdOf(c)] \in Nat
        /\ outlay'[r] = IF r = RunOf(c) THEN outlay[r] + ActOf(c).cost ELSE outlay[r]
    BY <2>2, ActsHere DEF IInv
  <2>4. r = RunOf(c) /\ ~(ActOf(c).cost <= ApprovalThreshold)
    BY <2>1, <2>3, ConfigAssumption
  <2>5. approvals[IdOf(c)].state = "approved"
    BY <2>2, <2>4 DEF IInv, ChecksStillHold, At, PastGate, PastBudget, PastCap
  <2> QED
    BY <2>3, <2>4, <2>5
<1> QED
  BY <1>1, Inductive, PTL DEF Spec, GateHolds

\* Once a run's breaker is open it stays open, and not even a call already
\* under way causes another effect (executor.py:76-82, 132-144).
THEOREM HaltedRunsRest == ASSUME Serialised PROVE Spec => HaltIsFinal
<1> DEFINE Halt == \A r \in Runs : breaker[r] =>
                     /\ breaker'[r]
                     /\ \A k \in Keys : effects'[<<r, k>>] = effects[<<r, k>>]
<1>1. IInv /\ [Next]_vars => [Halt]_vars
  <2> SUFFICES ASSUME IInv, [Next]_vars, NEW r \in Runs, breaker[r]
               PROVE  /\ breaker'[r]
                      /\ \A k \in Keys : effects'[<<r, k>>] = effects[<<r, k>>]
    OBVIOUS
  <2>1. breaker'[r]
    <3>1. ASSUME NEW c \in Callers, Step(c) PROVE breaker'[r]
      <4>1. CASE TripBreaker(c)
        BY <4>1 DEF TripBreaker, IInv, TypeOK, StoreTypeOK
      <4>2. CASE UNCHANGED breaker
        BY <4>2
      <4> QED
        BY <3>1, <4>1, <4>2
           DEF Step, CheckBreaker, CheckIdempotency, RaiseUnknownAction,
               CheckGate, CreatePending, CheckBudget, CheckCap, HandlerReturns,
               HandlerRaises, RecordExecution, PutResult, AppendAudit,
               SetApproved, store
    <3> QED
      BY <3>1 DEF Next, Execute, Approve, RejectApproval, Crash, Rest, vars, store
  <2>2. ASSUME NEW c \in Callers, At(c, "handler"), ProviderActs(c), NEW k \in Keys
        PROVE  effects'[<<r, k>>] = effects[<<r, k>>]
    <3>1. RunOf(c) # r
      BY <2>2 DEF IInv, ChecksStillHold, At, PastBreaker, PastIdempotency,
                  PastGate, PastBudget, PastCap
    <3> QED
      BY <3>1, <2>2, ActsHere DEF IInv, Ids
  <2> QED
    BY <2>1, <2>2, OnlyHandlersAct DEF IInv
<1> QED
  BY <1>1, Inductive, PTL DEF Spec, HaltIsFinal

-----------------------------------------------------------------------------
(* The executor implements GuardContract *)

\* While all but one caller are idle, the effect outstanding is that caller's.
LEMMA DueOfCaller ==
  ASSUME NEW c \in Callers,
         \A d \in Callers \ {c} : call[d].pc = "idle" /\ call'[d].pc = "idle"
  PROVE  /\ \A r : Due(r) = IF Unsettled(c) /\ RunOf(c) = r THEN Outstanding(c) ELSE None
         /\ \A r : Due(r)' = IF Unsettled(c)' /\ RunOf(c)' = r THEN Outstanding(c)' ELSE None
<1> DEFINE P(d, r) == Unsettled(d) /\ RunOf(d) = r
<1>1. ASSUME NEW r
      PROVE  Due(r) = IF P(c, r) THEN Outstanding(c) ELSE None
  <2>1. \A d \in Callers : P(d, r) => d = c
    BY DEF Unsettled
  <2>2. CASE P(c, r)
    <3>1. (CHOOSE d \in Callers : P(d, r)) = c
      BY <2>1, <2>2
    <3> QED
      BY <2>2, <3>1 DEF Due
  <2>3. CASE ~P(c, r)
    BY <2>1, <2>3 DEF Due
  <2> QED
    BY <2>2, <2>3
<1>2. ASSUME NEW r
      PROVE  Due(r)' = IF P(c, r)' THEN Outstanding(c)' ELSE None
  <2>1. \A d \in Callers : P(d, r)' => d = c
    BY DEF Unsettled
  <2>2. CASE P(c, r)'
    <3>1. (CHOOSE d \in Callers : P(d, r)') = c
      BY <2>1, <2>2
    <3> QED
      BY <2>2, <3>1 DEF Due
  <2>3. CASE ~P(c, r)'
    BY <2>1, <2>3 DEF Due
  <2> QED
    BY <2>2, <2>3
<1> QED
  BY <1>1, <1>2

\* Checks, refusals and the audit entry are nothing to the contract.
LEMMA ContractStutters ==
  ASSUME NEW c \in Callers,
         \A d \in Callers \ {c} : call[d].pc = "idle" /\ call'[d].pc = "idle",
         ~Unsettled(c), ~Unsettled(c)',
         UNCHANGED <<effects, outlay, spend, results, breaker>>,
         \A id \in Ids : Approved(id)' <=> Approved(id)
  PROVE  UNCHANGED Contract!vars
<1>1. \A r : Due(r)' = Due(r)
  BY DueOfCaller
<1>2. {id \in Ids : Approved(id)}' = {id \in Ids : Approved(id)}
  OBVIOUS
<1> QED
  BY <1>1, <1>2 DEF Contract!vars

\* When the provider acts the contract allows it: the call's checks still hold,
\* and no other effect of the run is outstanding.
LEMMA ContractPermits ==
  ASSUME IInv, NEW c \in Callers, At(c, "handler"), ProviderActs(c),
         \A d \in Callers \ {c} : call[d].pc = "idle" /\ call'[d].pc = "idle"
  PROVE  /\ Contract!MayAct(RunOf(c), ActOf(c).key, ActOf(c).cost)
         /\ Contract!Pay(RunOf(c), ActOf(c).key, ActOf(c).cost)
<1>1. /\ RunOf(c) \in Runs /\ ActOf(c).key \in Keys /\ ActOf(c).cost \in Nat
      /\ IdOf(c) = <<RunOf(c), ActOf(c).key>> /\ IdOf(c) \in Ids
  BY CallTypes DEF IInv, TypeOK, At, IdOf, RunOf, ActOf
<1>2. /\ ~breaker[RunOf(c)] /\ IdOf(c) \notin results
      /\ ActOf(c).cost <= ApprovalThreshold \/ Approved(IdOf(c))
      /\ spend[RunOf(c)] + ActOf(c).cost <= SpendCap
  BY DEF IInv, ChecksStillHold, At, PastBreaker, PastIdempotency, PastGate, PastBudget,
         PastCap, Approved
<1>3. Due(RunOf(c)) = None
  BY DueOfCaller DEF Unsettled, At
<1>4. ActOf(c).cost > ApprovalThreshold => Approved(IdOf(c))
  BY <1>1, <1>2, ConfigAssumption
<1>5. Contract!MayAct(RunOf(c), ActOf(c).key, ActOf(c).cost)
  BY <1>1, <1>2, <1>3, <1>4 DEF Contract!MayAct
<1>6. Contract!Pay(RunOf(c), ActOf(c).key, ActOf(c).cost)
  BY <1>1 DEF Contract!Pay, ProviderActs
<1> QED
  BY <1>5, <1>6

LEMMA EffectIsNotNone ==
  ASSUME NEW k \in Keys, NEW n \in Nat, NEW b \in BOOLEAN
  PROVE  [key |-> k, cost |-> n, booked |-> b] # None
BY NoneAssumption

\* handler, record_execution and put_result are the contract's Act, Book and
\* Settle; a decision of a human and a tripped breaker are its Decide and Halt.
LEMMA ContractStep ==
  ASSUME IInv, NEW c \in Callers, Step(c)
  PROVE  [Contract!Next]_(Contract!vars)
<1> USE GotoPC, FinishPC DEF At
<1>types. TypeOK /\ CallTypeOK
  BY DEF IInv, TypeOK
<1>frame. /\ call[c].pc # "idle"
          /\ \A d \in Callers \ {c} : call[d].pc = "idle" /\ call'[d].pc = "idle"
          /\ \/ call'[c].pc = "idle"
             \/ RunOf(c)' = RunOf(c) /\ ActOf(c)' = ActOf(c) /\ IdOf(c)' = IdOf(c)
  BY StepFrame DEF IInv, Idle
<1>ids. /\ RunOf(c) \in Runs /\ ActOf(c) \in Actions /\ ActOf(c).key \in Keys
        /\ ActOf(c).cost \in Nat /\ ActOf(c).cost \in {a.cost : a \in Actions}
        /\ IdOf(c) = <<RunOf(c), ActOf(c).key>> /\ IdOf(c) \in Ids
  BY <1>frame, <1>types, CallTypes DEF IdOf, RunOf, ActOf
<1>due. /\ \A r : Due(r) = IF Unsettled(c) /\ RunOf(c) = r THEN Outstanding(c) ELSE None
        /\ \A r : Due(r)' = IF Unsettled(c)' /\ RunOf(c)' = r THEN Outstanding(c)' ELSE None
  BY <1>frame, DueOfCaller
<1>1. CASE HandlerReturns(c)
  <2>1. /\ call[c].pc = "handler" /\ call'[c].pc = "record" /\ ProviderActs(c)
        /\ UNCHANGED <<results, approvals, spend, breaker>>
    BY <1>1, <1>types DEF HandlerReturns, store
  <2>2. /\ Contract!MayAct(RunOf(c), ActOf(c).key, ActOf(c).cost)
        /\ Contract!Pay(RunOf(c), ActOf(c).key, ActOf(c).cost)
    BY <2>1, <1>frame, ContractPermits
  <2>3. [r \in Runs |-> Due(r)]' = [[r \in Runs |-> Due(r)] EXCEPT ![RunOf(c)] =
          [key |-> ActOf(c).key, cost |-> ActOf(c).cost, booked |-> FALSE]]
    BY <2>1, <1>frame, <1>ids, <1>due DEF Unsettled, Outstanding
  <2>4. {id \in Ids : Approved(id)}' = {id \in Ids : Approved(id)}
    BY <2>1 DEF Approved
  <2>5. Contract!Act(RunOf(c), ActOf(c).key, ActOf(c).cost)
    BY <2>1, <2>2, <2>3, <2>4 DEF Contract!Act
  <2> QED
    BY <2>5, <1>ids DEF Contract!Next
<1>2. CASE HandlerRaises(c)
  <2>1. /\ call[c].pc = "handler" /\ call'[c].pc = "audit"
        /\ UNCHANGED <<results, approvals, spend, breaker>>
        /\ UNCHANGED <<effects, outlay>> \/ ProviderActs(c)
    BY <1>2, <1>types DEF HandlerRaises, store
  <2>2. \A r : Due(r)' = Due(r)
    BY <2>1, <1>due DEF Unsettled
  <2>3. {id \in Ids : Approved(id)}' = {id \in Ids : Approved(id)}
    BY <2>1 DEF Approved
  <2>4. CASE UNCHANGED <<effects, outlay>>
    BY <2>1, <2>2, <2>3, <2>4 DEF Contract!vars
  <2>5. CASE ProviderActs(c)
    <3>1. /\ Contract!MayAct(RunOf(c), ActOf(c).key, ActOf(c).cost)
          /\ Contract!Pay(RunOf(c), ActOf(c).key, ActOf(c).cost)
      BY <2>1, <2>5, <1>frame, ContractPermits
    <3>2. Contract!ActUnseen(RunOf(c), ActOf(c).key, ActOf(c).cost)
      BY <2>1, <2>2, <2>3, <3>1 DEF Contract!ActUnseen
    <3> QED
      BY <3>2, <1>ids DEF Contract!Next
  <2> QED
    BY <2>1, <2>4, <2>5
<1>3. CASE RecordExecution(c)
  <2>1. /\ call[c].pc = "record" /\ call'[c].pc = "put"
        /\ UNCHANGED <<results, approvals, breaker, effects, outlay>>
        /\ spend' = [spend EXCEPT ![RunOf(c)] = @ + ActOf(c).cost]
    BY <1>3, <1>types DEF RecordExecution, history
  <2>2. Due(RunOf(c)) = [key |-> ActOf(c).key, cost |-> ActOf(c).cost, booked |-> FALSE]
    BY <2>1, <1>due DEF Unsettled, Outstanding
  <2>3. Due(RunOf(c)) # None
    <3>1. \A b \in BOOLEAN :
            [key |-> ActOf(c).key, cost |-> ActOf(c).cost, booked |-> b] # None
      BY <1>ids, EffectIsNotNone
    <3> QED
      BY <2>2, <3>1
  <2>4. [r \in Runs |-> Due(r)]' = [[r \in Runs |-> Due(r)] EXCEPT ![RunOf(c)].booked = TRUE]
    BY <2>1, <2>2, <1>frame, <1>ids, <1>due DEF Unsettled, Outstanding
  <2>5. {id \in Ids : Approved(id)}' = {id \in Ids : Approved(id)}
    BY <2>1 DEF Approved
  <2>6. Contract!Book(RunOf(c))
    <3>1. [r \in Runs |-> Due(r)][RunOf(c)] = Due(RunOf(c))
      BY <1>ids
    <3>2. Due(RunOf(c)).cost = ActOf(c).cost /\ ~Due(RunOf(c)).booked
      BY <2>2
    <3> QED
      BY <2>1, <2>3, <2>4, <2>5, <3>1, <3>2 DEF Contract!Book
  <2> QED
    BY <2>6, <1>ids DEF Contract!Next
<1>4. CASE PutResult(c)
  <2>1. /\ call[c].pc = "put" /\ call'[c].pc = "audit"
        /\ UNCHANGED <<spend, approvals, breaker, effects, outlay>>
        /\ results' = results \cup {IdOf(c)}
    BY <1>4, <1>types DEF PutResult, history
  <2>2. Due(RunOf(c)) = [key |-> ActOf(c).key, cost |-> ActOf(c).cost, booked |-> TRUE]
    BY <2>1, <1>due DEF Unsettled, Outstanding
  <2>3. Due(RunOf(c)) # None
    <3>1. \A b \in BOOLEAN :
            [key |-> ActOf(c).key, cost |-> ActOf(c).cost, booked |-> b] # None
      BY <1>ids, EffectIsNotNone
    <3> QED
      BY <2>2, <3>1
  <2>4. [r \in Runs |-> Due(r)]' = [[r \in Runs |-> Due(r)] EXCEPT ![RunOf(c)] = None]
    BY <2>1, <1>ids, <1>due DEF Unsettled
  <2>5. {id \in Ids : Approved(id)}' = {id \in Ids : Approved(id)}
    BY <2>1 DEF Approved
  <2>6. Contract!Settle(RunOf(c))
    BY <2>1, <2>2, <2>3, <2>4, <2>5, <1>ids DEF Contract!Settle
  <2> QED
    BY <2>6, <1>ids DEF Contract!Next
<1>5. CASE TripBreaker(c)
  <2>1. /\ call[c].pc = "trip" /\ call'[c].pc = "audit"
        /\ UNCHANGED <<results, spend, approvals, effects, outlay>>
        /\ breaker' = [breaker EXCEPT ![RunOf(c)] = TRUE]
    BY <1>5, <1>types DEF TripBreaker, history
  <2>2. \A r : Due(r)' = Due(r)
    BY <2>1, <1>due DEF Unsettled
  <2>3. {id \in Ids : Approved(id)}' = {id \in Ids : Approved(id)}
    BY <2>1 DEF Approved
  <2>4. Contract!Halt(RunOf(c))
    BY <2>1, <2>2, <2>3 DEF Contract!Halt
  <2> QED
    BY <2>4, <1>ids DEF Contract!Next
<1>6. CASE SetApproved(c)
  <2>1. /\ call[c].pc = "approve" /\ call'[c].pc = "breaker"
        /\ UNCHANGED <<results, spend, breaker, effects, outlay>>
        /\ approvals' = [approvals EXCEPT ![IdOf(c)].state = "approved"]
    BY <1>6, <1>types DEF SetApproved, history
  <2>2. \A r : Due(r)' = Due(r)
    BY <2>1, <1>due DEF Unsettled
  <2>3. \A id \in Ids : Approved(id)' <=> (Approved(id) \/ id = IdOf(c))
    BY <2>1, <1>types, <1>ids DEF Approved, TypeOK, StoreTypeOK
  <2>4. {id \in Ids : Approved(id)}' = {id \in Ids : Approved(id)} \cup {IdOf(c)}
    BY <2>3, <1>ids
  <2>5. Contract!Decide(IdOf(c))
    BY <2>1, <2>2, <2>4 DEF Contract!Decide
  <2>6. Contract!Ids = Ids
    BY DEF Contract!Ids, Ids
  <2> QED
    BY <2>5, <2>6, <1>ids DEF Contract!Next
<1>7. CASE CreatePending(c)
  <2>1. \A id \in Ids : Approved(id)' <=> Approved(id)
    <3>1. \/ UNCHANGED approvals
          \/ /\ approvals[IdOf(c)] = NoApproval
             /\ approvals' = [approvals EXCEPT ![IdOf(c)] =
                                [state |-> "pending", action |-> ActOf(c)]]
      BY <1>7 DEF CreatePending
    <3>2. CASE UNCHANGED approvals
      BY <3>2 DEF Approved
    <3>3. CASE /\ approvals[IdOf(c)] = NoApproval
               /\ approvals' = [approvals EXCEPT ![IdOf(c)] =
                                  [state |-> "pending", action |-> ActOf(c)]]
      <4>1. approvals[IdOf(c)].state = "none" /\ approvals'[IdOf(c)].state = "pending"
        BY <3>3, <1>types, <1>ids DEF NoApproval, TypeOK, StoreTypeOK
      <4>2. \A id \in Ids \ {IdOf(c)} : approvals'[id] = approvals[id]
        BY <3>3, <1>types DEF TypeOK, StoreTypeOK
      <4> QED
        BY <4>1, <4>2 DEF Approved
    <3> QED
      BY <3>1, <3>2, <3>3
  <2>2. ~Unsettled(c) /\ ~Unsettled(c)'
    BY <1>7, <1>types DEF CreatePending, Gated, Unsettled
  <2>3. UNCHANGED <<effects, outlay, spend, results, breaker>>
    BY <1>7 DEF CreatePending, history
  <2> QED
    BY <2>1, <2>2, <2>3, <1>frame, ContractStutters
<1>8. CASE UNCHANGED <<results, approvals, spend, breaker, history>>
           /\ ~Unsettled(c) /\ ~Unsettled(c)'
  BY <1>8, <1>frame, ContractStutters DEF Approved, history
<1>9. \/ HandlerReturns(c) \/ HandlerRaises(c) \/ RecordExecution(c) \/ PutResult(c)
      \/ TripBreaker(c) \/ SetApproved(c) \/ CreatePending(c)
      \/ /\ UNCHANGED <<results, approvals, spend, breaker, history>>
         /\ ~Unsettled(c) /\ ~Unsettled(c)'
  <2> USE <1>types DEF store, Unsettled
  <2>1. Return(c) => call'[c].pc = "idle"
    BY DEF Return, Idle, CallTypeOK
  <2>2. CASE CheckBreaker(c)
    BY <2>2 DEF CheckBreaker
  <2>3. CASE CheckIdempotency(c)
    BY <2>3 DEF CheckIdempotency
  <2>4. CASE RaiseUnknownAction(c)
    BY <2>4, <2>1 DEF RaiseUnknownAction
  <2>5. CASE CheckGate(c)
    BY <2>5 DEF CheckGate, Gated
  <2>6. CASE CheckBudget(c)
    BY <2>6 DEF CheckBudget
  <2>7. CASE CheckCap(c)
    BY <2>7 DEF CheckCap
  <2>8. CASE AppendAudit(c)
    BY <2>8, <2>1 DEF AppendAudit
  <2> QED
    BY <2>2, <2>3, <2>4, <2>5, <2>6, <2>7, <2>8 DEF Step
<1> QED
  BY <1>1, <1>2, <1>3, <1>4, <1>5, <1>6, <1>7, <1>8, <1>9

\* A denial is the contract's Decide, a crash its Forget, the rest is nothing to it.
LEMMA ContractNext ==
  ASSUME Serialised, IInv, [Next]_vars
  PROVE  [Contract!Next]_(Contract!vars)
<1>types. TypeOK /\ CallTypeOK
  BY DEF IInv, TypeOK
<1>same. ASSUME UNCHANGED <<results, approvals, spend, breaker, effects, outlay>>,
                \A c \in Callers : ~Unsettled(c) /\ ~Unsettled(c)'
         PROVE  UNCHANGED Contract!vars
  BY <1>same DEF Contract!vars, Due, Approved
<1>1. ASSUME NEW c \in Callers, MayBegin(c)
      PROVE  \A d \in Callers : call[d].pc = "idle"
  BY <1>1 DEF MayBegin, At
<1>2. ASSUME NEW c \in Callers, NEW pc, NEW r, NEW a, Begin(c, pc, r, a), pc \in {"breaker", "approve"}
      PROVE  \A d \in Callers : ~Unsettled(d) /\ ~Unsettled(d)'
  BY <1>2, <1>1, <1>types DEF Begin, Unsettled, CallTypeOK
<1>3. ASSUME NEW c \in Callers, NEW r \in Runs, NEW a \in Actions, Execute(c, r, a)
      PROVE  UNCHANGED Contract!vars
  BY <1>3, <1>2, <1>same DEF Execute, store, history
<1>4. ASSUME NEW c \in Callers, NEW id \in Ids, Approve(c, id)
      PROVE  UNCHANGED Contract!vars
  BY <1>4, <1>2, <1>same DEF Approve, store, history
<1>5. ASSUME NEW c \in Callers, NEW id \in Ids, RejectApproval(c, id)
      PROVE  Contract!Next
  <2>1. /\ UNCHANGED <<results, spend, breaker, effects, outlay, call>>
        /\ approvals' = [approvals EXCEPT ![id].state = "rejected"]
    BY <1>5 DEF RejectApproval
  <2>2. \A r : Due(r)' = Due(r)
    BY <2>1 DEF Due, Outstanding, Unsettled, RunOf, ActOf, At
  <2>3. \A i \in Ids : Approved(i)' <=> (Approved(i) /\ i # id)
    BY <2>1, <1>types DEF Approved, TypeOK, StoreTypeOK
  <2>4. {i \in Ids : Approved(i)}' = {i \in Ids : Approved(i)} \ {id}
    BY <2>3
  <2>5. Contract!Decide(id)
    BY <2>1, <2>2, <2>4 DEF Contract!Decide
  <2>6. Contract!Ids = Ids
    BY DEF Contract!Ids, Ids
  <2> QED
    BY <2>5, <2>6 DEF Contract!Next
<1>6. CASE Crash
  <2>1. /\ UNCHANGED <<results, approvals, spend, breaker, effects, outlay>>
        /\ \A c \in Callers : call'[c] = Idle
    BY <1>6 DEF Crash, store
  <2>2. \A r : Due(r)' = None
    BY <2>1 DEF Due, Unsettled, Idle
  <2>3. {id \in Ids : Approved(id)}' = {id \in Ids : Approved(id)}
    BY <2>1 DEF Approved
  <2>4. Contract!Forget
    BY <2>1, <2>2, <2>3 DEF Contract!Forget
  <2> QED
    BY <2>4 DEF Contract!Next
<1>7. CASE UNCHANGED vars
  BY <1>7 DEF vars, store, history, Contract!vars, Due, Outstanding, Unsettled, RunOf, ActOf,
              At, Approved
<1> QED
  BY <1>3, <1>4, <1>5, <1>6, <1>7, ContractStep DEF Next, Rest

LEMMA ContractInit == Init => Contract!Init
<1> SUFFICES ASSUME Init PROVE Contract!Init
  OBVIOUS
<1>1. \A c \in Callers : ~Unsettled(c)
  BY DEF Init, Idle, Unsettled
<1>2. [r \in Runs |-> Due(r)] = [r \in Runs |-> None]
  BY <1>1 DEF Due
<1>3. {id \in Ids : Approved(id)} = {}
  BY DEF Init, Approved, NoApproval
<1> QED
  BY <1>2, <1>3 DEF Init, Contract!Init, Contract!Ids, Ids

\* Behind the pipeline's lock the dozen transactions of execute, approve and
\* reject_approval amount to what GuardContract promises, through any crash.
THEOREM ContractKept == ASSUME Serialised PROVE Spec => ImplementsContract
<1>1. Init => Contract!Init
  BY ContractInit
<1>2. IInv /\ [Next]_vars => [Contract!Next]_(Contract!vars)
  BY ContractNext
<1>3. Spec => []IInv
  BY Inductive
<1> QED
  BY <1>1, <1>2, <1>3, PTL DEF Spec, ImplementsContract, Contract!Spec

-----------------------------------------------------------------------------
(* Recursion over a log (AuditReplay): the function that reconstruct       *)
(* defines exists and unfolds, one entry at a time.                        *)

\* Induction over the numbers, for a set of them: were n outside S, the least
\* of the intervals m..n with m in S would have a smaller one, (m + 1)..n.
LEMMA Induction ==
  ASSUME NEW S \in SUBSET Nat, 0 \in S, \A n \in S : n + 1 \in S
  PROVE  S = Nat
<1> SUFFICES ASSUME NEW n \in Nat, n \notin S PROVE FALSE
  OBVIOUS
<1> DEFINE Above(m) == {i \in 0..n : m <= i}
           Sets == {Above(m) : m \in S \cap (0..n)}
           R == StrictSubsetOrdering(0..n)
<1>1. IsWellFoundedOn(R, SUBSET (0..n))
  <2>1. IsFiniteSet(0..n)
    BY FS_Interval
  <2> QED
    BY <2>1, FS_StrictSubsetOrderingWellFounded, FS_FiniteSubsetsOfFinite
<1>2. Sets \subseteq SUBSET (0..n) /\ Above(0) \in Sets
  OBVIOUS
<1>3. PICK x \in Sets : \A y \in Sets : ~(<<y, x>> \in R)
  <2> HIDE DEF R, Sets
  <2> QED
    BY <1>1, <1>2, WFMin
<1>4. PICK m \in S \cap (0..n) : x = Above(m)
  BY <1>3
<1>5. m + 1 \in S \cap (0..n)
  BY <1>4
<1>6. Above(m + 1) \subseteq Above(m) /\ m \in Above(m) /\ m \notin Above(m + 1)
  BY <1>4
<1>7. <<Above(m + 1), Above(m)>> \in R
  BY <1>6 DEF StrictSubsetOrdering
<1> QED
  BY <1>3, <1>4, <1>5, <1>7

\* The recursive definition of reconstruct has a solution over every log.
LEMMA PrefixesExist ==
  ASSUME NEW s, Len(s) \in Nat
  PROVE  \E f : f = [n \in 0..Len(s) |->
                       IF n = 0 THEN EmptyReplay ELSE Replayed(f[n - 1], s[n])]
<1> DEFINE Upto(k, f) == f = [n \in 0..k |->
                       IF n = 0 THEN EmptyReplay ELSE Replayed(f[n - 1], s[n])]
           S == {k \in Nat : \E f : Upto(k, f)}
<1>1. 0 \in S
  <2>1. Upto(0, [n \in 0..0 |-> EmptyReplay])
    OBVIOUS
  <2> QED
    BY <2>1
<1>2. ASSUME NEW k \in S PROVE k + 1 \in S
  <2>1. PICK f : Upto(k, f)
    OBVIOUS
  <2> DEFINE g == [n \in 0..(k + 1) |-> IF n = k + 1 THEN Replayed(f[k], s[k + 1]) ELSE f[n]]
  <2>2. \A n \in 0..(k + 1) : g[n] = IF n = 0 THEN EmptyReplay ELSE Replayed(g[n - 1], s[n])
    <3> SUFFICES ASSUME NEW n \in 0..(k + 1)
                 PROVE g[n] = IF n = 0 THEN EmptyReplay ELSE Replayed(g[n - 1], s[n])
      OBVIOUS
    <3>1. CASE n = k + 1
      BY <3>1
    <3>2. CASE n # k + 1
      <4>1. n \in 0..k /\ g[n] = f[n] /\ (n # 0 => n - 1 \in 0..(k + 1) /\ g[n - 1] = f[n - 1])
        BY <3>2
      <4> QED
        BY <2>1, <4>1
    <3> QED
      BY <3>1, <3>2
  <2>3. Upto(k + 1, g)
    BY <2>2
  <2> QED
    BY <2>3
<1> HIDE DEF Upto
<1>3. S = Nat
  <2> HIDE DEF S
  <2> QED
    BY <1>1, <1>2, Induction DEF S
<1>4. \E f : Upto(Len(s), f)
  BY <1>3
<1> QED
  BY <1>4 DEF Upto

LEMMA ReplayDefined ==
  ASSUME NEW s, Len(s) \in Nat
  PROVE  \E f : /\ f = [n \in 0..Len(s) |->
                       IF n = 0 THEN EmptyReplay ELSE Replayed(f[n - 1], s[n])]
                /\ reconstruct(s) = f[Len(s)]
BY PrefixesExist DEF reconstruct

LEMMA ConcatAppend ==
  ASSUME NEW T, NEW s \in Seq(T), NEW t \in Seq(T), NEW e \in T
  PROVE  /\ s \o t \in Seq(T)
         /\ s \o Append(t, e) = Append(s \o t, e)
<1>1. s \o t \in Seq(T) /\ <<e>> \in Seq(T)
  BY ConcatProperties
<1>2. Append(t, e) = t \o <<e>> /\ Append(s \o t, e) = (s \o t) \o <<e>>
  BY <1>1, AppendIsConcat
<1>3. s \o (t \o <<e>>) = (s \o t) \o <<e>>
  BY <1>1, ConcatAssociative
<1> QED
  BY <1>1, <1>2, <1>3

LEMMA ReplayEmpty == reconstruct(<<>>) = EmptyReplay
<1>1. Len(<<>>) = 0
  OBVIOUS
<1>2. PICK f : /\ f = [n \in 0..0 |->
                     IF n = 0 THEN EmptyReplay ELSE Replayed(f[n - 1], <<>>[n])]
               /\ reconstruct(<<>>) = f[0]
  BY <1>1, ReplayDefined
<1>3. f[0] = EmptyReplay
  BY <1>2
<1> QED
  BY <1>2, <1>3

\* One more entry is replayed after the others.
LEMMA ReplayAppend ==
  ASSUME NEW T, NEW s \in Seq(T), NEW e \in T
  PROVE  reconstruct(Append(s, e)) = Replayed(reconstruct(s), e)
<1> DEFINE L == Len(s)
           u == Append(s, e)
<1>1. L \in Nat /\ Len(u) = L + 1 /\ (\A i \in 1..L : u[i] = s[i]) /\ u[L + 1] = e
  BY AppendProperties
<1>2. PICK f : /\ f = [n \in 0..L |->
                     IF n = 0 THEN EmptyReplay ELSE Replayed(f[n - 1], s[n])]
               /\ reconstruct(s) = f[L]
  BY <1>1, ReplayDefined
<1> HIDE DEF u
<1>3. PICK g : /\ g = [n \in 0..(L + 1) |->
                     IF n = 0 THEN EmptyReplay ELSE Replayed(g[n - 1], u[n])]
               /\ reconstruct(u) = g[L + 1]
  BY <1>1, ReplayDefined
<1> HIDE DEF L
<1>4. \A n \in 0..L : f[n] = IF n = 0 THEN EmptyReplay ELSE Replayed(f[n - 1], s[n])
  BY <1>2
<1>5. \A n \in 0..(L + 1) : g[n] = IF n = 0 THEN EmptyReplay ELSE Replayed(g[n - 1], u[n])
  BY <1>3
<1> DEFINE S == {n \in Nat : n <= L => f[n] = g[n]}
<1>6. 0 \in S
  BY <1>1, <1>4, <1>5
<1>7. ASSUME NEW n \in S PROVE n + 1 \in S
  <2> SUFFICES ASSUME n + 1 <= L PROVE f[n + 1] = g[n + 1]
    OBVIOUS
  <2>1. n \in Nat /\ n + 1 \in 0..L /\ n + 1 \in 0..(L + 1) /\ n + 1 \in 1..L /\ n + 1 # 0
        /\ (n + 1) - 1 = n /\ f[n] = g[n]
    BY <1>1
  <2>2. f[n + 1] = Replayed(f[n], s[n + 1]) /\ g[n + 1] = Replayed(g[n], u[n + 1])
    BY <2>1, <1>4, <1>5
  <2> QED
    BY <1>1, <2>1, <2>2
<1>8. S = Nat
  <2> HIDE DEF S
  <2> QED
    BY <1>6, <1>7, Induction DEF S
<1>9. f[L] = g[L]
  BY <1>1, <1>8
<1>10. g[L + 1] = Replayed(g[L], u[L + 1])
  <2>1. L + 1 \in 0..(L + 1) /\ L + 1 # 0 /\ (L + 1) - 1 = L
    BY <1>1
  <2> QED
    BY <2>1, <1>5
<1> QED
  BY <1>1, <1>2, <1>3, <1>9, <1>10 DEF u

ReplayState == [executed: Nat, cost: Nat, subjects: [Subjects -> Nat], tripped: BOOLEAN]

\* What one entry adds to the state.
CostIn(e)       == IF e.decision = "executed" THEN e.action.cost ELSE 0
CountIn(e, s)   == IF e.decision = "executed" /\ e.action.subject = s THEN 1 ELSE 0
TripsIn(e)      == e.decision = "rejected_spend_cap"

LEMMA ReplayedType ==
  ASSUME NEW x \in ReplayState, NEW e \in AuditEntry
  PROVE  /\ Replayed(x, e) \in ReplayState
         /\ Replayed(x, e).cost = x.cost + CostIn(e)
         /\ \A s \in Subjects : Replayed(x, e).subjects[s] = x.subjects[s] + CountIn(e, s)
         /\ Replayed(x, e).tripped = (x.tripped \/ TripsIn(e))
<1>1. /\ e.action.cost \in Nat /\ e.action.subject \in Subjects /\ e.decision \in Decisions
      /\ x.executed \in Nat /\ x.cost \in Nat /\ x.subjects \in [Subjects -> Nat]
      /\ x.tripped \in BOOLEAN
  BY ConfigAssumption DEF AuditEntry, ReplayState
<1>2. CASE e.decision = "executed"
  <2> DEFINE n == x.subjects[e.action.subject] + 1
             next == [x.subjects EXCEPT ![e.action.subject] = n]
  <2>1. Replayed(x, e) =
          [executed |-> x.executed + 1, cost |-> x.cost + e.action.cost,
           subjects |-> next, tripped |-> x.tripped]
    BY <1>2, <1>1 DEF Replayed, ReplayState
  <2>2. n \in Nat
    BY <1>1
  <2>3. /\ next \in [Subjects -> Nat]
        /\ \A s \in Subjects : next[s] = x.subjects[s] + CountIn(e, s)
    <3> HIDE DEF n
    <3>1. \A s \in Subjects : next[s] = IF s = e.action.subject THEN n ELSE x.subjects[s]
      BY <1>1
    <3>2. next \in [Subjects -> Nat]
      BY <1>1, <2>2
    <3>3. \A s \in Subjects : next[s] = x.subjects[s] + CountIn(e, s)
      BY <1>1, <1>2, <3>1 DEF n, CountIn
    <3> QED
      BY <3>2, <3>3
  <2> HIDE DEF next
  <2>4. CostIn(e) = e.action.cost /\ x.tripped = (x.tripped \/ TripsIn(e))
    BY <1>1, <1>2 DEF CostIn, TripsIn
  <2>5. Replayed(x, e) \in ReplayState
    BY <1>1, <2>1, <2>3 DEF ReplayState
  <2> QED
    BY <2>1, <2>3, <2>4, <2>5
<1>3. CASE e.decision # "executed"
  <2>1. Replayed(x, e) =
          [executed |-> x.executed, cost |-> x.cost, subjects |-> x.subjects,
           tripped |-> x.tripped \/ e.decision = "rejected_spend_cap"]
    BY <1>3, <1>1 DEF Replayed, ReplayState
  <2>2. Replayed(x, e) \in ReplayState
    BY <1>1, <2>1 DEF ReplayState
  <2>3. CostIn(e) = 0 /\ \A s : CountIn(e, s) = 0
    BY <1>3 DEF CostIn, CountIn
  <2>4. Replayed(x, e).tripped = (x.tripped \/ TripsIn(e))
    BY <2>1 DEF TripsIn
  <2>5. /\ Replayed(x, e).cost = x.cost + CostIn(e)
        /\ \A s \in Subjects : Replayed(x, e).subjects[s] = x.subjects[s] + CountIn(e, s)
    BY <1>1, <2>1, <2>3
  <2> QED
    BY <2>2, <2>4, <2>5
<1> QED
  BY <1>2, <1>3

LEMMA ReplayType ==
  ASSUME NEW s \in Seq(AuditEntry)
  PROVE  reconstruct(s) \in ReplayState
<1> DEFINE S == {n \in Nat : \A t \in Seq(AuditEntry) : Len(t) = n => reconstruct(t) \in ReplayState}
<1>1. 0 \in S
  <2>1. \A t \in Seq(AuditEntry) : Len(t) = 0 => t = <<>>
    BY EmptySeq
  <2>2. EmptyReplay \in ReplayState
    BY DEF EmptyReplay, ReplayState
  <2> QED
    BY <2>1, <2>2, ReplayEmpty
<1>2. ASSUME NEW n \in S PROVE n + 1 \in S
  <2> SUFFICES ASSUME NEW t \in Seq(AuditEntry), Len(t) = n + 1
               PROVE  reconstruct(t) \in ReplayState
    OBVIOUS
  <2>1. n \in Nat /\ t # <<>>
    OBVIOUS
  <2>2. PICK u \in Seq(AuditEntry), e \in AuditEntry : t = Append(u, e)
    BY <2>1, SequenceEmptyOrAppend
  <2>3. Len(u) = n
    BY <2>1, <2>2, AppendProperties
  <2>4. reconstruct(u) \in ReplayState
    BY <2>3
  <2> QED
    BY <2>2, <2>4, ReplayAppend, ReplayedType
<1>3. S = Nat
  <2> HIDE DEF S
  <2> QED
    BY <1>1, <1>2, Induction DEF S
<1> QED
  BY <1>3, LenProperties

\* The state `more` is `less` with what one entry adds.
AddedBy(e, more, less) ==
  /\ more.cost = less.cost + CostIn(e)
  /\ \A s \in Subjects : more.subjects[s] = less.subjects[s] + CountIn(e, s)
  /\ more.tripped = (less.tripped \/ TripsIn(e))

LEMMA AddedStays ==
  ASSUME NEW more \in ReplayState, NEW less \in ReplayState, NEW e \in AuditEntry,
         NEW x \in AuditEntry, AddedBy(e, more, less)
  PROVE  AddedBy(e, Replayed(more, x), Replayed(less, x))
<1>1. AddedBy(x, Replayed(more, x), more) /\ AddedBy(x, Replayed(less, x), less)
  <2>1. AddedBy(x, Replayed(more, x), more)
    BY ReplayedType DEF AddedBy
  <2>2. AddedBy(x, Replayed(less, x), less)
    BY ReplayedType DEF AddedBy
  <2> QED
    BY <2>1, <2>2
<1> DEFINE m == Replayed(more, x)
           l == Replayed(less, x)
<1> HIDE DEF m, l
<1>2. /\ more.cost \in Nat /\ less.cost \in Nat /\ CostIn(e) \in Nat /\ CostIn(x) \in Nat
      /\ \A s \in Subjects : /\ more.subjects[s] \in Nat /\ less.subjects[s] \in Nat
                             /\ CountIn(e, s) \in Nat /\ CountIn(x, s) \in Nat
  BY ConfigAssumption DEF ReplayState, AuditEntry, CostIn, CountIn
<1>3. m.cost = l.cost + CostIn(e)
  BY <1>1, <1>2 DEF AddedBy, m, l
<1>4. ASSUME NEW s \in Subjects PROVE m.subjects[s] = l.subjects[s] + CountIn(e, s)
  BY <1>1, <1>2 DEF AddedBy, m, l
<1>5. m.tripped = (l.tripped \/ TripsIn(e))
  BY <1>1 DEF AddedBy, m, l
<1> QED
  BY <1>3, <1>4, <1>5 DEF AddedBy, m, l

\* What an entry adds to the state does not depend on its place in the log.
LEMMA ReplayWithout ==
  ASSUME NEW s \in Seq(AuditEntry), NEW e \in AuditEntry, NEW t \in Seq(AuditEntry)
  PROVE  AddedBy(e, reconstruct(Append(s, e) \o t), reconstruct(s \o t))
<1> DEFINE With(u)    == reconstruct(Append(s, e) \o u)
           Without(u) == reconstruct(s \o u)
           S == {n \in Nat : \A u \in Seq(AuditEntry) :
                   Len(u) = n => AddedBy(e, With(u), Without(u))}
<1>1. Append(s, e) \in Seq(AuditEntry)
  BY AppendProperties
<1>2. 0 \in S
  <2> SUFFICES ASSUME NEW u \in Seq(AuditEntry), Len(u) = 0
               PROVE  AddedBy(e, With(u), Without(u))
    OBVIOUS
  <2>1. u = <<>>
    BY EmptySeq
  <2>2. Append(s, e) \o u = Append(s, e) /\ s \o u = s
    BY <1>1, <2>1, ConcatEmptySeq
  <2>3. With(u) = Replayed(Without(u), e) /\ Without(u) \in ReplayState
    BY <2>2, ReplayAppend, ReplayType
  <2> HIDE DEF With, Without
  <2> QED
    BY <2>3, ReplayedType DEF AddedBy
<1>3. ASSUME NEW n \in S PROVE n + 1 \in S
  <2> SUFFICES ASSUME NEW u \in Seq(AuditEntry), Len(u) = n + 1
               PROVE  AddedBy(e, With(u), Without(u))
    OBVIOUS
  <2>1. n \in Nat /\ u # <<>>
    OBVIOUS
  <2>2. PICK v \in Seq(AuditEntry), x \in AuditEntry : u = Append(v, x)
    BY <2>1, SequenceEmptyOrAppend
  <2>3. Len(v) = n
    BY <2>1, <2>2, AppendProperties
  <2>4. AddedBy(e, With(v), Without(v))
    BY <2>3
  <2>5. /\ Append(s, e) \o v \in Seq(AuditEntry) /\ s \o v \in Seq(AuditEntry)
        /\ Append(s, e) \o u = Append(Append(s, e) \o v, x)
        /\ s \o u = Append(s \o v, x)
    BY <1>1, <2>2, ConcatAppend
  <2>6. /\ With(u) = Replayed(With(v), x) /\ Without(u) = Replayed(Without(v), x)
        /\ With(v) \in ReplayState /\ Without(v) \in ReplayState
    BY <2>5, ReplayAppend, ReplayType
  <2> HIDE DEF With, Without
  <2> QED
    BY <2>4, <2>6, AddedStays
<1>4. S = Nat
  <2> HIDE DEF S
  <2> QED
    BY <1>2, <1>3, Induction DEF S
<1> QED
  BY <1>4, LenProperties

-----------------------------------------------------------------------------
(* What calls under way still owe the log                                  *)

\* The call has moved the store, or settled a refusal, and has not logged it.
Owed(c) == call[c].pc \in {"put", "audit"}
EntryOf(c) ==
  [action |-> ActOf(c), decision |-> IF At(c, "put") THEN "executed" ELSE call[c].decision]
Entries(q) == [i \in 1..Len(q) |-> EntryOf(q[i])]
\* The orders in which the calls of a run that owe an entry, or some of them,
\* may come to append it.
Orders(r) == {q \in Seq({c \in Callers : Owed(c) /\ RunOf(c) = r}) :
                \A i, j \in 1..Len(q) : q[i] = q[j] => i = j}

\* What the store holds for a run, as reconstruct would report it.
Books(r) == [cost |-> spend[r], subjects |-> [s \in Subjects |-> count[<<r, s>>]],
             tripped |-> breaker[r]]
Within(state, books) ==
  /\ state.cost <= books.cost
  /\ \A s \in Subjects : state.subjects[s] <= books.subjects[s]
  /\ state.tripped => books.tripped

\* In whatever order the due entries were appended, the log would claim nothing
\* that the store does not hold already.
LogCovered == \A r \in Runs : \A q \in Orders(r) :
  Within(reconstruct(audit[r] \o Entries(q)), Books(r))

\* An entry becomes due together with what it says.
Incurs(c) ==
  /\ ~Owed(c) /\ Owed(c)' /\ RunOf(c)' = RunOf(c)
  /\ AddedBy(EntryOf(c)', Books(RunOf(c))', Books(RunOf(c)))
  /\ \A r \in Runs \ {RunOf(c)} : Books(r)' = Books(r)
Keeps(c) ==
  /\ Owed(c)' <=> Owed(c)
  /\ Owed(c) => RunOf(c)' = RunOf(c) /\ EntryOf(c)' = EntryOf(c)
  /\ \A r \in Runs : Books(r)' = Books(r)

EntriesTypeOK ==
  \A c \in Callers : Owed(c) => EntryOf(c) \in AuditEntry /\ RunOf(c) \in Runs

LEMMA EntryTypes == TypeOK => EntriesTypeOK
<1> SUFFICES ASSUME TypeOK, NEW c \in Callers, Owed(c)
             PROVE  EntryOf(c) \in AuditEntry /\ RunOf(c) \in Runs
  BY DEF EntriesTypeOK
<1>1. call[c].pc # "idle"
  BY DEF Owed
<1>2. RunOf(c) \in Runs /\ ActOf(c) \in Actions
  BY <1>1, CallTypes DEF TypeOK
<1>3. call[c].pc = "put" \/ (call[c].pc = "audit" /\ call[c].decision \in Decisions)
  BY DEF Owed, TypeOK, CallTypeOK
<1> QED
  BY <1>2, <1>3 DEF EntryOf, AuditEntry, At, Decisions, ExecutionStatus

LEMMA EntryTypesNext == TypeOK' => EntriesTypeOK'
BY EntryTypes, PTL

LEMMA FinishOwes ==
  ASSUME TypeOK, NEW c \in Callers, NEW status, Finish(c, status)
  PROVE  Owed(c)' /\ RunOf(c)' = RunOf(c)
         /\ EntryOf(c)' = [action |-> ActOf(c), decision |-> status]
BY DEF Finish, TypeOK, CallTypeOK, Call, Owed, EntryOf, RunOf, ActOf, At

LEMMA GotoOwes ==
  ASSUME TypeOK, NEW c \in Callers, NEW pc, Goto(c, pc)
  PROVE  call'[c].pc = pc /\ RunOf(c)' = RunOf(c) /\ ActOf(c)' = ActOf(c)
BY DEF Goto, TypeOK, CallTypeOK, Call, RunOf, ActOf

LEMMA RefusalAddsNothing ==
  ASSUME NEW a, NEW status, status \notin {"executed", "rejected_spend_cap"},
         NEW books, books.cost \in Nat, \A s \in Subjects : books.subjects[s] \in Nat,
         books.tripped \in BOOLEAN
  PROVE  AddedBy([action |-> a, decision |-> status], books, books)
BY DEF AddedBy, CostIn, CountIn, TripsIn

LEMMA BooksType ==
  ASSUME TypeOK, NEW r \in Runs
  PROVE  /\ Books(r).cost \in Nat /\ Books(r).tripped \in BOOLEAN
         /\ \A s \in Subjects : Books(r).subjects[s] \in Nat
BY DEF TypeOK, StoreTypeOK, Books

\* What a step of a call does to the log and the books.
LEMMA StepLog ==
  ASSUME TypeOK, NEW c \in Callers, Step(c), ~AppendAudit(c)
  PROVE  audit' = audit /\ (Incurs(c) \/ Keeps(c))
<1> USE DEF At
<1>0. call[c].pc # "idle" /\ RunOf(c) \in Runs /\ ActOf(c) \in Actions
      /\ ActOf(c).subject \in Subjects /\ ActOf(c).cost \in Nat
  BY StepMoves, CallTypes DEF TypeOK
<1>books. UNCHANGED <<spend, count, breaker>> => \A r : Books(r)' = Books(r)
  BY DEF Books
<1>refused. ASSUME UNCHANGED <<spend, count, breaker>>, ~Owed(c),
                   NEW status, status \notin {"executed", "rejected_spend_cap"}, Finish(c, status)
            PROVE  Incurs(c)
  <2>1. AddedBy([action |-> ActOf(c), decision |-> status], Books(RunOf(c)), Books(RunOf(c)))
    BY <1>0, <1>refused, RefusalAddsNothing, BooksType
  <2> QED
    BY <1>books, <1>refused, <2>1, FinishOwes DEF Incurs
<1>goes. ASSUME UNCHANGED <<spend, count, breaker>>, ~Owed(c),
                NEW pc, pc \notin {"put", "audit"}, Goto(c, pc)
         PROVE  Keeps(c)
  BY <1>books, <1>goes, GotoOwes DEF Keeps, Owed
<1>1. CASE CheckBreaker(c)
  BY <1>1, <1>refused, <1>goes DEF CheckBreaker, store, Owed
<1>2. CASE CheckIdempotency(c)
  BY <1>2, <1>refused, <1>goes DEF CheckIdempotency, store, Owed
<1>3. CASE RaiseUnknownAction(c)
  <2>1. call'[c].pc = "idle" /\ ~Owed(c) /\ UNCHANGED <<audit, spend, count, breaker>>
    BY <1>3 DEF RaiseUnknownAction, Return, Idle, TypeOK, CallTypeOK, store, Owed
  <2> QED
    BY <2>1, <1>books DEF Keeps, Owed
<1>4. CASE CheckGate(c)
  BY <1>4, <1>refused, <1>goes DEF CheckGate, Gated, store, Owed
<1>5. CASE CreatePending(c)
  BY <1>5, <1>refused, <1>goes DEF CreatePending, Gated, Owed
<1>6. CASE CheckBudget(c)
  BY <1>6, <1>refused, <1>goes DEF CheckBudget, store, Owed
<1>7. CASE CheckCap(c)
  BY <1>7, <1>goes DEF CheckCap, store, Owed
<1>8. CASE TripBreaker(c)
  <2> DEFINE e == [action |-> ActOf(c), decision |-> "rejected_spend_cap"]
  <2>1. Owed(c)' /\ RunOf(c)' = RunOf(c) /\ EntryOf(c)' = e /\ ~Owed(c)
        /\ audit' = audit /\ UNCHANGED <<spend, count>>
        /\ breaker' = [breaker EXCEPT ![RunOf(c)] = TRUE]
    BY <1>8, FinishOwes DEF TripBreaker, Owed
  <2>2. breaker \in [Runs -> BOOLEAN]
    BY DEF TypeOK, StoreTypeOK
  <2>3. \A r \in Runs \ {RunOf(c)} : Books(r)' = Books(r)
    BY <2>1, <2>2 DEF Books
  <2>4. AddedBy(e, Books(RunOf(c))', Books(RunOf(c)))
    <3>1. CostIn(e) = 0 /\ TripsIn(e) /\ \A s : CountIn(e, s) = 0
      BY DEF CostIn, TripsIn, CountIn
    <3>2. /\ Books(RunOf(c))'.cost = Books(RunOf(c)).cost
          /\ Books(RunOf(c))'.subjects = Books(RunOf(c)).subjects
          /\ Books(RunOf(c))'.tripped = TRUE
      BY <1>0, <2>1, <2>2 DEF Books
    <3> HIDE DEF e
    <3>3. Books(RunOf(c))'.tripped = (Books(RunOf(c)).tripped \/ TripsIn(e))
      BY <3>1, <3>2
    <3>4. Books(RunOf(c))'.cost = Books(RunOf(c)).cost + CostIn(e)
      BY <1>0, <3>1, <3>2, BooksType
    <3>5. ASSUME NEW s \in Subjects
          PROVE  Books(RunOf(c))'.subjects[s] = Books(RunOf(c)).subjects[s] + CountIn(e, s)
      BY <1>0, <3>1, <3>2, BooksType
    <3> QED
      BY <3>3, <3>4, <3>5 DEF AddedBy
  <2> QED
    BY <2>1, <2>3, <2>4 DEF Incurs
<1>9. CASE HandlerReturns(c)
  BY <1>9, <1>goes DEF HandlerReturns, store, Owed
<1>10. CASE HandlerRaises(c)
  BY <1>10, <1>refused DEF HandlerRaises, store, Owed
<1>11. CASE RecordExecution(c)
  <2> DEFINE e == [action |-> ActOf(c), decision |-> "executed"]
             R == RunOf(c)
  <2>1. /\ Owed(c)' /\ R' = R /\ EntryOf(c)' = e /\ ~Owed(c) /\ audit' = audit
    BY <1>11, GotoOwes DEF RecordExecution, Owed, EntryOf
  <2>2. /\ spend \in [Runs -> Nat] /\ count \in [Runs \X Subjects -> Nat]
        /\ spend' = [spend EXCEPT ![R] = spend[R] + ActOf(c).cost]
        /\ count' = [count EXCEPT ![<<R, ActOf(c).subject>>] = count[<<R, ActOf(c).subject>>] + 1]
        /\ breaker' = breaker
    BY <1>11 DEF RecordExecution, TypeOK, StoreTypeOK
  <2>3. \A r \in Runs \ {R} : Books(r)' = Books(r)
    BY <1>0, <2>2 DEF Books
  <2>4. AddedBy(e, Books(R)', Books(R))
    <3>1. CostIn(e) = ActOf(c).cost /\ ~TripsIn(e)
          /\ \A s : CountIn(e, s) = IF s = ActOf(c).subject THEN 1 ELSE 0
      BY DEF CostIn, TripsIn, CountIn
    <3>2. spend'[R] = spend[R] + ActOf(c).cost
      BY <1>0, <2>2
    <3>3. ASSUME NEW s \in Subjects
          PROVE  count'[<<R, s>>] = count[<<R, s>>] + CountIn(e, s)
      <4>1. <<R, s>> \in Runs \X Subjects /\ count[<<R, s>>] \in Nat
        BY <1>0, <2>2
      <4>2. CASE s = ActOf(c).subject
        BY <1>0, <2>2, <3>1, <4>1, <4>2
      <4>3. CASE s # ActOf(c).subject
        <5>1. count'[<<R, s>>] = count[<<R, s>>] /\ CountIn(e, s) = 0
          BY <2>2, <3>1, <4>1, <4>3
        <5> QED
          BY <4>1, <5>1
      <4> QED
        BY <4>2, <4>3
    <3>4. breaker'[R] = (breaker[R] \/ TripsIn(e))
      BY <1>0, <2>2, <3>1 DEF TypeOK, StoreTypeOK
    <3> HIDE DEF e
    <3>5. /\ Books(R)'.cost = spend'[R] /\ Books(R).cost = spend[R]
          /\ Books(R)'.tripped = breaker'[R] /\ Books(R).tripped = breaker[R]
          /\ \A s \in Subjects : Books(R)'.subjects[s] = count'[<<R, s>>]
                                 /\ Books(R).subjects[s] = count[<<R, s>>]
      BY <2>1 DEF Books
    <3> QED
      BY <3>1, <3>2, <3>3, <3>4, <3>5 DEF AddedBy
  <2> QED
    BY <2>1, <2>3, <2>4 DEF Incurs
<1>12. CASE PutResult(c)
  <2>1. Owed(c) /\ EntryOf(c) = [action |-> ActOf(c), decision |-> "executed"]
    BY <1>12 DEF PutResult, Owed, EntryOf
  <2> QED
    BY <1>12, <2>1, <1>books, FinishOwes DEF PutResult, Keeps
<1>13. CASE SetApproved(c)
  BY <1>13, <1>goes DEF SetApproved, Owed
<1> QED
  BY <1>1, <1>2, <1>3, <1>4, <1>5, <1>6, <1>7, <1>8, <1>9, <1>10, <1>11, <1>12, <1>13 DEF Step

-----------------------------------------------------------------------------
LEMMA EntriesType ==
  ASSUME TypeOK, NEW r \in Runs, NEW q \in Orders(r)
  PROVE  /\ Len(q) \in Nat /\ Entries(q) \in Seq(AuditEntry) /\ Len(Entries(q)) = Len(q)
         /\ \A i \in 1..Len(q) : /\ q[i] \in Callers /\ Owed(q[i]) /\ RunOf(q[i]) = r
                                 /\ Entries(q)[i] = EntryOf(q[i])
                                 /\ EntryOf(q[i]) \in AuditEntry
<1>1. Len(q) \in Nat /\ \A i \in 1..Len(q) : q[i] \in Callers /\ Owed(q[i]) /\ RunOf(q[i]) = r
  BY DEF Orders
<1>2. \A i \in 1..Len(q) : EntryOf(q[i]) \in AuditEntry
  BY <1>1, EntryTypes DEF EntriesTypeOK
<1>3. Entries(q) \in [1..Len(q) -> AuditEntry]
  BY <1>2 DEF Entries
<1>4. Entries(q) \in Seq(AuditEntry) /\ Len(Entries(q)) = Len(q)
  BY <1>1, <1>3, ElementOfSeq, LenProperties
<1> QED
  BY <1>1, <1>2, <1>4 DEF Entries

\* Where nothing about the callers in q changed, neither did the log they would leave.
LEMMA SameOrders ==
  ASSUME TypeOK, TypeOK', NEW r \in Runs, NEW q \in Orders(r)',
         \A i \in 1..Len(q) : Owed(q[i]) /\ RunOf(q[i]) = r /\ EntryOf(q[i]) = EntryOf(q[i])'
  PROVE  q \in Orders(r) /\ Entries(q) = Entries(q)'
<1>1. q \in Seq({c \in Callers : Owed(c)' /\ RunOf(c)' = r})
      /\ \A i, j \in 1..Len(q) : q[i] = q[j] => i = j
  BY DEF Orders
<1>2. Len(q) \in Nat /\ (\A i \in 1..Len(q) : q[i] \in Callers) /\ q = [i \in 1..Len(q) |-> q[i]]
  BY <1>1, LenProperties
<1>3. q \in Seq({c \in Callers : Owed(c) /\ RunOf(c) = r})
  BY <1>2, ElementOfSeq
<1> QED
  BY <1>1, <1>3 DEF Orders, Entries

\* One element taken out of a sequence.
SplitAt(f, k, s, t) ==
  /\ f = Append(s, f[k]) \o t
  /\ Len(s \o t) = Len(f) - 1
  /\ \A i \in 1..(Len(f) - 1) : (s \o t)[i] = IF i < k THEN f[i] ELSE f[i + 1]

LEMMA TakenOut ==
  ASSUME NEW T, NEW f \in Seq(T), NEW k \in 1..Len(f)
  PROVE  \E s, t \in Seq(T) : s \o t \in Seq(T) /\ SplitAt(f, k, s, t)
<1> DEFINE n == Len(f)
           s == SubSeq(f, 1, k - 1)
           t == SubSeq(f, k + 1, n)
<1>1. n \in Nat /\ k \in Int /\ k - 1 \in Int /\ k + 1 \in Int /\ \A i \in 1..n : f[i] \in T
  BY LenProperties, ElementOfSeq
<1>2. /\ s \in Seq(T) /\ Len(s) = k - 1 /\ \A i \in 1..(k - 1) : s[i] = f[i]
  <2>1. \A i \in 1..(k - 1) : f[i] \in T
    BY <1>1
  <2>2. /\ s \in Seq(T) /\ Len(s) = (IF 1 <= k - 1 THEN k - 1 - 1 + 1 ELSE 0)
        /\ \A i \in 1..(k - 1 - 1 + 1) : s[i] = f[1 + i - 1]
    BY <1>1, <2>1, SubSeqProperties
  <2> HIDE DEF s
  <2> QED
    BY <1>1, <2>2
<1>3. /\ t \in Seq(T) /\ Len(t) = n - k /\ \A i \in 1..(n - k) : t[i] = f[i + k]
  <2>1. \A i \in (k + 1)..n : f[i] \in T
    BY <1>1
  <2>2. /\ t \in Seq(T) /\ Len(t) = (IF k + 1 <= n THEN n - (k + 1) + 1 ELSE 0)
        /\ \A i \in 1..(n - (k + 1) + 1) : t[i] = f[(k + 1) + i - 1]
    BY <1>1, <2>1, SubSeqProperties
  <2> HIDE DEF t
  <2>3. Len(t) = n - k
    BY <1>1, <2>2
  <2>4. ASSUME NEW i \in 1..(n - k) PROVE t[i] = f[i + k]
    <3>1. i \in 1..(n - (k + 1) + 1) /\ (k + 1) + i - 1 = i + k
      BY <1>1
    <3> QED
      BY <2>2, <3>1
  <2> QED
    BY <2>2, <2>3, <2>4
<1> HIDE DEF s, t
<1> DEFINE u == Append(s, f[k])
<1>4. u \in Seq(T) /\ Len(u) = k /\ \A i \in 1..k : u[i] = f[i]
  <2>1. f[k] \in T
    BY <1>1
  <2>2. /\ u \in Seq(T) /\ Len(u) = Len(s) + 1 /\ u[Len(s) + 1] = f[k]
        /\ \A i \in 1..Len(s) : u[i] = s[i]
    BY <1>2, <2>1, AppendProperties
  <2> HIDE DEF u
  <2> QED
    BY <1>1, <1>2, <2>2
<1> HIDE DEF u
<1>5. u \o t = f
  <2>1. /\ u \o t \in Seq(T) /\ Len(u \o t) = Len(u) + Len(t)
        /\ \A i \in 1..(Len(u) + Len(t)) : (u \o t)[i] =
             IF i <= Len(u) THEN u[i] ELSE t[i - Len(u)]
    <3>1. u \in Seq(T) /\ t \in Seq(T)
      BY <1>3, <1>4
    <3> QED
      BY ONLY <3>1, ConcatProperties
  <2>2. Len(u) + Len(t) = n
    BY <1>1, <1>3, <1>4
  <2>3. ASSUME NEW i \in 1..n PROVE (u \o t)[i] = f[i]
    <3>1. (u \o t)[i] = IF i <= k THEN u[i] ELSE t[i - k]
      BY <1>4, <2>1, <2>2
    <3>2. CASE i <= k
      BY <1>1, <1>4, <3>1, <3>2
    <3>3. CASE ~(i <= k)
      <4>1. i - k \in 1..(n - k) /\ (i - k) + k = i
        BY <1>1, <3>3
      <4> QED
        BY <1>3, <3>1, <3>3, <4>1
    <3> QED
      BY <3>2, <3>3
  <2> QED
    BY <2>1, <2>2, <2>3, SeqEqual
<1>6. /\ s \o t \in Seq(T) /\ Len(s \o t) = n - 1
      /\ \A i \in 1..(n - 1) : (s \o t)[i] = IF i < k THEN f[i] ELSE f[i + 1]
  <2>1. /\ s \o t \in Seq(T) /\ Len(s \o t) = Len(s) + Len(t)
        /\ \A i \in 1..(Len(s) + Len(t)) : (s \o t)[i] =
             IF i <= Len(s) THEN s[i] ELSE t[i - Len(s)]
    BY <1>2, <1>3, ConcatProperties
  <2>2. Len(s) + Len(t) = n - 1
    BY <1>1, <1>2, <1>3
  <2>3. ASSUME NEW i \in 1..(n - 1)
        PROVE  (s \o t)[i] = IF i < k THEN f[i] ELSE f[i + 1]
    <3>1. (s \o t)[i] = IF i <= k - 1 THEN s[i] ELSE t[i - (k - 1)]
      BY <1>2, <2>1, <2>2
    <3>2. CASE i < k
      BY <1>1, <1>2, <3>1, <3>2
    <3>3. CASE ~(i < k)
      <4>1. i - (k - 1) \in 1..(n - k) /\ (i - (k - 1)) + k = i + 1 /\ ~(i <= k - 1)
        BY <1>1, <3>3
      <4> QED
        BY <1>3, <3>1, <3>3, <4>1
    <3> QED
      BY <3>2, <3>3
  <2> QED
    BY <2>1, <2>2, <2>3
<1> QED
  BY <1>2, <1>3, <1>5, <1>6 DEF u, SplitAt

LEMMA FunctionIsSeq ==
  ASSUME NEW T, NEW n \in Nat, NEW f \in [1..n -> T]
  PROVE  f \in Seq(T) /\ Len(f) = n
OBVIOUS

\* One caller taken out of an order, and its entry out of the log.
LEMMA WithoutOne ==
  ASSUME TypeOK, TypeOK', NEW r \in Runs, NEW q \in Orders(r)', NEW k \in 1..Len(q),
         \A i \in 1..Len(q) : i # k =>
           Owed(q[i]) /\ RunOf(q[i]) = r /\ EntryOf(q[i]) = EntryOf(q[i])'
  PROVE  \E p \in Orders(r), s, t \in Seq(AuditEntry) :
           /\ Entries(p) = s \o t
           /\ Entries(q)' = Append(s, EntryOf(q[k])') \o t
<1> DEFINE n == Len(q)
           p == [i \in 1..(n - 1) |-> IF i < k THEN q[i] ELSE q[i + 1]]
           f == [i \in 1..n |-> EntryOf(q[i])']
<1>1. /\ n \in Nat /\ k \in 1..n
      /\ \A i \in 1..n : q[i] \in Callers /\ Owed(q[i])'
      /\ \A i, j \in 1..n : q[i] = q[j] => i = j
  BY DEF Orders
<1>2. \A i \in 1..n : EntryOf(q[i])' \in AuditEntry
  BY <1>1, EntryTypesNext DEF EntriesTypeOK
<1>3. f \in Seq(AuditEntry) /\ Len(f) = n /\ f[k] = EntryOf(q[k])' /\ f = Entries(q)'
  <2>1. f \in [1..n -> AuditEntry]
    BY <1>2
  <2> QED
    BY <1>1, <2>1, FunctionIsSeq DEF Entries
<1>4. \A i \in 1..(n - 1) : IF i < k THEN i \in 1..n /\ i # k ELSE i + 1 \in 1..n /\ i + 1 # k
  BY <1>1
<1>5. p \in Orders(r) /\ Len(p) = n - 1
  <2>1. p \in [1..(n - 1) -> {c \in Callers : Owed(c) /\ RunOf(c) = r}] /\ n - 1 \in Nat
    BY <1>1, <1>4
  <2>2. p \in Seq({c \in Callers : Owed(c) /\ RunOf(c) = r}) /\ Len(p) = n - 1
    <3> HIDE DEF p
    <3> QED
      BY <2>1, FunctionIsSeq
  <2>3. \A i, j \in 1..(n - 1) : p[i] = p[j] => i = j
    BY <1>1, <1>4
  <2> QED
    BY <2>2, <2>3 DEF Orders
<1>6. Entries(p) = [i \in 1..(n - 1) |-> IF i < k THEN f[i] ELSE f[i + 1]]
  <2>1. \A i \in 1..(n - 1) : EntryOf(p[i]) = IF i < k THEN f[i] ELSE f[i + 1]
    BY <1>1, <1>4
  <2> HIDE DEF p, f
  <2> QED
    BY <1>5, <2>1 DEF Entries
<1> HIDE DEF f, p
<1>7. PICK s, t \in Seq(AuditEntry) : s \o t \in Seq(AuditEntry) /\ SplitAt(f, k, s, t)
  <2>1. k \in 1..Len(f) /\ f \in Seq(AuditEntry)
    BY <1>1, <1>3
  <2> QED
    BY Zenon, <2>1, TakenOut
<1>8. Entries(p) = s \o t
  <2>1. s \o t = [i \in 1..(n - 1) |-> (s \o t)[i]]
    BY <1>3, <1>7, LenProperties DEF SplitAt
  <2> QED
    BY <1>3, <1>6, <1>7, <2>1 DEF SplitAt
<1>9. Entries(q)' = Append(s, EntryOf(q[k])') \o t
  BY <1>3, <1>7 DEF SplitAt
<1> QED
  BY <1>5, <1>8, <1>9

-----------------------------------------------------------------------------
(* The log never overstates *)

Regroups(T, a, s, t, e) ==
  /\ a \o s \in Seq(T) /\ (a \o s) \o t \in Seq(T)
  /\ a \o (s \o t) = (a \o s) \o t
  /\ a \o (Append(s, e) \o t) = Append(a \o s, e) \o t

LEMMA Regrouped ==
  ASSUME NEW T, NEW a \in Seq(T), NEW s \in Seq(T), NEW t \in Seq(T), NEW e, e \in T
  PROVE  Regroups(T, a, s, t, e)
<1>1. a \o s \in Seq(T)
  BY ConcatProperties
<1>2. (a \o s) \o t \in Seq(T)
  BY <1>1, ConcatProperties
<1>3. a \o (s \o t) = (a \o s) \o t
  BY ConcatAssociative
<1> DEFINE u == Append(s, e)
<1>4. u \in Seq(T) /\ a \o u = Append(a \o s, e)
  BY AppendProperties, ConcatAppend
<1> HIDE DEF u
<1>5. a \o (u \o t) = (a \o u) \o t
  <2>1. \A v \in Seq(T) : a \o (v \o t) = (a \o v) \o t
    BY ConcatAssociative
  <2> QED
    BY ONLY <1>4, <2>1, Zenon
<1> QED
  BY <1>1, <1>2, <1>3, <1>4, <1>5 DEF u, Regroups

LEMMA Prepended ==
  ASSUME NEW T, NEW e \in T, NEW s \in Seq(T)
  PROVE  /\ <<e>> \o s \in Seq(T) /\ Len(<<e>> \o s) = Len(s) + 1
         /\ (<<e>> \o s)[1] = e
         /\ \A i \in 2..(Len(s) + 1) : (<<e>> \o s)[i] = s[i - 1]
<1> DEFINE w == <<e>> \o s
<1>1. <<e>> \in Seq(T) /\ Len(<<e>>) = 1 /\ <<e>>[1] = e /\ Len(s) \in Nat
  OBVIOUS
<1>2. /\ w \in Seq(T) /\ Len(w) = Len(<<e>>) + Len(s)
      /\ \A i \in 1..(Len(<<e>>) + Len(s)) : w[i] =
           IF i <= Len(<<e>>) THEN <<e>>[i] ELSE s[i - Len(<<e>>)]
  BY <1>1, ConcatProperties
<1> HIDE DEF w
<1>3. \A i \in 1..(1 + Len(s)) : w[i] = IF i <= 1 THEN <<e>>[i] ELSE s[i - 1]
  BY <1>1, <1>2
<1>4. w[1] = e /\ \A i \in 2..(Len(s) + 1) : w[i] = s[i - 1]
  BY <1>1, <1>3
<1>5. Len(w) = Len(s) + 1
  BY <1>1, <1>2
<1> QED
  BY <1>2, <1>4, <1>5 DEF w

LEMMA WithinGrows ==
  ASSUME NEW state, NEW books, NEW more, NEW e \in AuditEntry,
         state \in ReplayState, books.cost \in Nat, more.cost \in Nat,
         \A s \in Subjects : books.subjects[s] \in Nat,
         Within(state, books), AddedBy(e, more, books)
  PROVE  Within(state, more)
<1>1. CostIn(e) \in Nat /\ \A s \in Subjects : CountIn(e, s) \in Nat
  BY ConfigAssumption DEF AuditEntry, CostIn, CountIn
<1> QED
  BY <1>1 DEF Within, AddedBy, ReplayState

LEMMA WithinAdds ==
  ASSUME NEW state \in ReplayState, NEW next, NEW books, NEW more, NEW e \in AuditEntry,
         books.cost \in Nat, \A s \in Subjects : books.subjects[s] \in Nat,
         Within(state, books), AddedBy(e, next, state), AddedBy(e, more, books)
  PROVE  Within(next, more)
<1>1. CostIn(e) \in Nat /\ \A s \in Subjects : CountIn(e, s) \in Nat
  BY ConfigAssumption DEF AuditEntry, CostIn, CountIn
<1>2. next.cost <= more.cost
  BY <1>1 DEF Within, AddedBy, ReplayState
<1>3. ASSUME NEW s \in Subjects PROVE next.subjects[s] <= more.subjects[s]
  BY <1>1 DEF Within, AddedBy, ReplayState
<1>4. next.tripped => more.tripped
  BY DEF Within, AddedBy
<1> QED
  BY <1>2, <1>3, <1>4 DEF Within

LEMMA CoveredStep ==
  ASSUME TypeOK, TypeOK', LogCovered, NEW c \in Callers,
         \A d \in Callers \ {c} : call'[d] = call[d],
         audit' = audit, Incurs(c) \/ Keeps(c)
  PROVE  LogCovered'
<1> SUFFICES ASSUME NEW r \in Runs, NEW q \in Orders(r)'
             PROVE  Within(reconstruct(audit[r] \o Entries(q)'), Books(r)')
  BY DEF LogCovered
<1>1. \A i \in 1..Len(q) : q[i] \in Callers /\ Owed(q[i])' /\ RunOf(q[i])' = r
  BY DEF Orders
<1>2. \A i, j \in 1..Len(q) : q[i] = q[j] => i = j
  BY DEF Orders
<1>3. \A d \in Callers \ {c} :
        Owed(d)' = Owed(d) /\ RunOf(d)' = RunOf(d) /\ EntryOf(d)' = EntryOf(d)
  BY DEF Owed, RunOf, ActOf, EntryOf, At
<1>4. audit[r] \in Seq(AuditEntry)
  BY DEF TypeOK, StoreTypeOK
<1>5. CASE Keeps(c) \/ \A i \in 1..Len(q) : q[i] # c
  <2>1. \A i \in 1..Len(q) : Owed(q[i]) /\ RunOf(q[i]) = r /\ EntryOf(q[i]) = EntryOf(q[i])'
    BY <1>1, <1>3, <1>5 DEF Keeps
  <2>2. q \in Orders(r) /\ Entries(q) = Entries(q)'
    BY <2>1, SameOrders
  <2>3. Within(reconstruct(audit[r] \o Entries(q)), Books(r))
    BY <2>2 DEF LogCovered
  <2>4. CASE Books(r)' = Books(r)
    BY <2>2, <2>3, <2>4
  <2>5. CASE r = RunOf(c) /\ Incurs(c)
    <3>1. AddedBy(EntryOf(c)', Books(r)', Books(r)) /\ EntryOf(c)' \in AuditEntry
      BY <2>5, EntryTypesNext DEF Incurs, EntriesTypeOK
    <3>2. reconstruct(audit[r] \o Entries(q)) \in ReplayState
      BY <1>4, <2>2, EntriesType, ConcatProperties, ReplayType
    <3>3. /\ Books(r).cost \in Nat /\ Books(r)'.cost \in Nat
          /\ \A s \in Subjects : Books(r).subjects[s] \in Nat
      BY BooksType DEF TypeOK, StoreTypeOK, Books
    <3>4. Within(reconstruct(audit[r] \o Entries(q)), Books(r)')
      BY <2>3, <3>1, <3>2, <3>3, WithinGrows
    <3> QED
      BY <2>2, <3>4
  <2> QED
    BY <2>4, <2>5 DEF Keeps, Incurs
<1>6. CASE Incurs(c) /\ \E i \in 1..Len(q) : q[i] = c
  <2>1. PICK k \in 1..Len(q) : q[k] = c
    BY <1>6
  <2>2. r = RunOf(c)
    BY <1>1, <1>6, <2>1 DEF Incurs
  <2>3. \A i \in 1..Len(q) : i # k =>
          Owed(q[i]) /\ RunOf(q[i]) = r /\ EntryOf(q[i]) = EntryOf(q[i])'
    BY <1>1, <1>2, <1>3, <2>1
  <2>4. PICK p \in Orders(r), s, t \in Seq(AuditEntry) :
          Entries(p) = s \o t /\ Entries(q)' = Append(s, EntryOf(c)') \o t
    BY <2>1, <2>3, WithoutOne
  <2> DEFINE e == EntryOf(c)'
             before == audit[r] \o s
  <2>5. e \in AuditEntry /\ AddedBy(e, Books(r)', Books(r))
    BY <1>6, <2>2, EntryTypesNext DEF Incurs, EntriesTypeOK
  <2>6. /\ before \in Seq(AuditEntry)
        /\ audit[r] \o (s \o t) = before \o t
        /\ audit[r] \o (Append(s, e) \o t) = Append(before, e) \o t
        /\ before \o t \in Seq(AuditEntry)
    <3> DEFINE a == audit[r]
    <3>1. a \in Seq(AuditEntry) /\ e \in AuditEntry
      BY <1>4, <2>5
    <3> HIDE DEF a, e
    <3>2. Regroups(AuditEntry, a, s, t, e)
      BY ONLY <3>1, s \in Seq(AuditEntry), t \in Seq(AuditEntry), Regrouped
    <3> QED
      BY ONLY <3>2 DEF a, before, Regroups
  <2>7. Within(reconstruct(before \o t), Books(r))
    BY <2>4, <2>6 DEF LogCovered
  <2>8. /\ AddedBy(e, reconstruct(Append(before, e) \o t), reconstruct(before \o t))
        /\ reconstruct(before \o t) \in ReplayState
    BY <2>5, <2>6, ReplayWithout, ReplayType
  <2>9. Books(r).cost \in Nat /\ \A j \in Subjects : Books(r).subjects[j] \in Nat
    BY BooksType
  <2>10. Within(reconstruct(Append(before, e) \o t), Books(r)')
    <3> HIDE DEF e, before
    <3> QED
      BY <2>5, <2>7, <2>8, <2>9, WithinAdds
  <2> QED
    BY <2>4, <2>6, <2>10
<1> QED
  BY <1>5, <1>6

\* The entry of a call that was due is the next of the log.
LEMMA CoveredAppend ==
  ASSUME TypeOK, TypeOK', LogCovered, NEW c \in Callers, AppendAudit(c)
  PROVE  LogCovered'
<1> SUFFICES ASSUME NEW r \in Runs, NEW q \in Orders(r)'
             PROVE  Within(reconstruct(audit'[r] \o Entries(q)'), Books(r)')
  BY DEF LogCovered
<1>1. /\ call[c].pc = "audit" /\ call' = [call EXCEPT ![c] = Idle]
      /\ audit' = [audit EXCEPT ![RunOf(c)] = Append(audit[RunOf(c)],
           [action |-> ActOf(c), decision |-> call[c].decision])]
      /\ UNCHANGED <<spend, count, breaker>>
  BY DEF AppendAudit, At, Return
<1>2. Owed(c) /\ EntryOf(c) = [action |-> ActOf(c), decision |-> call[c].decision]
      /\ RunOf(c) \in Runs /\ EntryOf(c) \in AuditEntry
  BY <1>1, EntryTypes DEF Owed, EntryOf, At, EntriesTypeOK
<1>3. Books(r)' = Books(r)
  BY <1>1 DEF Books
<1>4. /\ ~Owed(c)'
      /\ \A d \in Callers \ {c} :
           Owed(d)' = Owed(d) /\ RunOf(d)' = RunOf(d) /\ EntryOf(d)' = EntryOf(d)
  BY <1>1 DEF TypeOK, CallTypeOK, Owed, RunOf, ActOf, EntryOf, At, Idle
<1>5. \A i \in 1..Len(q) : q[i] \in Callers /\ q[i] # c /\ Owed(q[i]) /\ RunOf(q[i]) = r
                           /\ EntryOf(q[i]) = EntryOf(q[i])'
  BY <1>4 DEF Orders
<1>6. q \in Orders(r) /\ Entries(q) = Entries(q)'
  BY <1>5, SameOrders
<1>7. audit[r] \in Seq(AuditEntry) /\ audit \in [Runs -> Seq(AuditEntry)]
  BY DEF TypeOK, StoreTypeOK
<1>8. CASE r # RunOf(c)
  BY <1>1, <1>3, <1>6, <1>7, <1>8 DEF LogCovered
<1>9. CASE r = RunOf(c)
  <2> DEFINE p == <<c>> \o q
             T == {d \in Callers : Owed(d) /\ RunOf(d) = r}
             e == EntryOf(c)
  <2>1. q \in Seq(T) /\ Len(q) \in Nat /\ c \in T
    BY <1>2, <1>6, <1>9 DEF Orders
  <2>2. /\ p \in Seq(T) /\ Len(p) = Len(q) + 1 /\ p[1] = c
        /\ \A i \in 2..(Len(q) + 1) : p[i] = q[i - 1]
    BY <2>1, Prepended
  <2> HIDE DEF p
  <2>3. p \in Orders(r)
    <3>1. \A i, j \in 1..Len(p) : p[i] = p[j] => i = j
      <4> SUFFICES ASSUME NEW i \in 1..Len(p), NEW j \in 1..Len(p), p[i] = p[j], i # j
                   PROVE  FALSE
        OBVIOUS
      <4>1. \A m \in 1..Len(p) : m = 1 \/ (m \in 2..(Len(q) + 1) /\ m - 1 \in 1..Len(q))
        BY <2>1, <2>2
      <4>2. \A m \in 1..Len(p) : m # 1 => p[m] = q[m - 1] /\ p[m] # c
        BY <1>5, <2>2, <4>1
      <4>3. \A m, n \in 1..Len(q) : q[m] = q[n] => m = n
        BY <1>6 DEF Orders
      <4>4. i # 1 /\ j # 1
        BY <2>2, <4>2
      <4>5. i - 1 = j - 1
        BY <4>1, <4>2, <4>3, <4>4
      <4> QED
        BY <4>5
    <3> QED
      BY <2>2, <3>1 DEF Orders
  <2>4. Entries(p) = <<e>> \o Entries(q)
    <3>1. Entries(q) \in Seq(AuditEntry) /\ Len(Entries(q)) = Len(q)
          /\ \A i \in 1..Len(q) : Entries(q)[i] = EntryOf(q[i])
      BY <1>6, EntriesType
    <3>2. Entries(p) \in Seq(AuditEntry) /\ Len(Entries(p)) = Len(q) + 1
          /\ \A i \in 1..(Len(q) + 1) : Entries(p)[i] = EntryOf(p[i])
      BY <2>2, <2>3, EntriesType
    <3> DEFINE w == <<e>> \o Entries(q)
    <3> HIDE DEF e
    <3>3. e \in AuditEntry
      BY <1>2 DEF e
    <3>4. w \in Seq(AuditEntry) /\ Len(w) = Len(Entries(q)) + 1 /\ w[1] = e
          /\ \A i \in 2..(Len(Entries(q)) + 1) : w[i] = Entries(q)[i - 1]
      BY <3>1, <3>3, Prepended
    <3> HIDE DEF w
    <3>5. Len(w) = Len(q) + 1 /\ \A i \in 2..(Len(q) + 1) : w[i] = EntryOf(q[i - 1])
      <4>1. \A i \in 2..(Len(q) + 1) : i - 1 \in 1..Len(q)
        BY <2>1
      <4> QED
        BY <3>1, <3>4, <4>1
    <3>6. \A i \in 1..(Len(q) + 1) : Entries(p)[i] = w[i]
      <4> SUFFICES ASSUME NEW i \in 1..(Len(q) + 1) PROVE Entries(p)[i] = w[i]
        OBVIOUS
      <4>1. CASE i = 1
        BY <2>2, <3>2, <3>4, <4>1 DEF e
      <4>2. CASE i # 1
        <5>1. i \in 2..(Len(q) + 1)
          BY <2>1, <4>2
        <5> QED
          BY <2>2, <3>2, <3>5, <5>1
      <4> QED
        BY <4>1, <4>2
    <3> QED
      BY <3>2, <3>4, <3>5, <3>6, SeqEqual DEF w
  <2>5. audit'[r] \o Entries(q) = audit[r] \o Entries(p)
    <3>1. Entries(q) \in Seq(AuditEntry) /\ <<e>> \in Seq(AuditEntry)
      BY <1>2, <1>6, EntriesType
    <3>2. audit'[r] = Append(audit[r], e)
      BY <1>1, <1>2, <1>7, <1>9
    <3>3. Append(audit[r], e) = audit[r] \o <<e>>
      BY <1>2, <1>7, AppendIsConcat
    <3> HIDE DEF e
    <3> QED
      BY <1>7, <2>4, <3>1, <3>2, <3>3, ConcatAssociative
  <2>6. Within(reconstruct(audit[r] \o Entries(p)), Books(r))
    BY <2>3 DEF LogCovered
  <2> QED
    BY <1>3, <1>6, <2>5, <2>6
<1> QED
  BY <1>8, <1>9

\* Nobody owes an entry: the log is what it is.
LEMMA NoneOwes ==
  ASSUME NEW r \in Runs, NEW q \in Orders(r), \A c \in Callers : ~Owed(c)
  PROVE  q = <<>> /\ Entries(q) = <<>>
<1>1. q \in Seq({c \in Callers : Owed(c) /\ RunOf(c) = r})
  BY DEF Orders
<1>2. Len(q) = 0
  BY <1>1
<1>3. q = <<>>
  BY <1>1, <1>2, EmptySeq
<1> QED
  BY <1>2, <1>3 DEF Entries

LEMMA NoneOwesNext ==
  ASSUME NEW r \in Runs, NEW q \in Orders(r)', \A c \in Callers : ~Owed(c)'
  PROVE  q = <<>> /\ Entries(q)' = <<>>
<1>1. q \in Seq({c \in Callers : Owed(c)' /\ RunOf(c)' = r})
  BY DEF Orders
<1>2. Len(q) = 0
  BY <1>1
<1>3. q = <<>>
  BY <1>1, <1>2, EmptySeq
<1> QED
  BY <1>2, <1>3 DEF Entries

LEMMA LogWithin ==
  ASSUME TypeOK, LogCovered, NEW r \in Runs
  PROVE  Within(reconstruct(audit[r]), Books(r))
<1>1. <<>> \in Orders(r) /\ Entries(<<>>) = <<>>
  BY DEF Orders, Entries
<1>2. audit[r] \o <<>> = audit[r]
  BY ConcatEmptySeq DEF TypeOK, StoreTypeOK
<1> QED
  BY <1>1, <1>2 DEF LogCovered

LEMMA CoveredCrash ==
  ASSUME TypeOK, LogCovered, Crash
  PROVE  LogCovered'
<1>1. /\ \A c \in Callers : ~Owed(c)'
      /\ UNCHANGED <<audit, spend, count, breaker>>
  BY DEF Crash, store, Owed, Idle
<1> SUFFICES ASSUME NEW r \in Runs, NEW q \in Orders(r)'
             PROVE  Within(reconstruct(audit[r] \o Entries(q)'), Books(r)')
  BY <1>1 DEF LogCovered
<1>2. Entries(q)' = <<>>
  BY <1>1, NoneOwesNext
<1>3. audit[r] \o <<>> = audit[r]
  BY ConcatEmptySeq DEF TypeOK, StoreTypeOK
<1>4. Books(r)' = Books(r)
  BY <1>1 DEF Books
<1> QED
  BY <1>2, <1>3, <1>4, LogWithin

LEMMA CoveredInit == Init => LogCovered
<1> SUFFICES ASSUME Init, NEW r \in Runs, NEW q \in Orders(r)
             PROVE  Within(reconstruct(audit[r] \o Entries(q)), Books(r))
  BY DEF LogCovered
<1>1. \A c \in Callers : ~Owed(c)
  BY DEF Init, Owed, Idle
<1>2. audit[r] = <<>> /\ Entries(q) = <<>> /\ <<>> \o <<>> = <<>>
  BY <1>1, NoneOwes DEF Init
<1>3. reconstruct(audit[r] \o Entries(q)) = EmptyReplay
  BY <1>2, ReplayEmpty
<1>4. spend[r] = 0 /\ (\A s \in Subjects : count[<<r, s>>] = 0) /\ breaker[r] = FALSE
  BY DEF Init
<1> QED
  BY <1>3, <1>4 DEF Within, EmptyReplay, Books

\* A call that begins, and a denial, touch neither log nor books.
LEMMA BeginLog ==
  ASSUME TypeOK, NEW c \in Callers,
         \/ \E r \in Runs, a \in Actions : Execute(c, r, a)
         \/ \E id \in Ids : Approve(c, id) \/ RejectApproval(c, id)
  PROVE  /\ audit' = audit /\ Keeps(c) /\ ~Owed(c)
         /\ \A d \in Callers \ {c} : call'[d] = call[d]
<1>1. /\ UNCHANGED <<audit, spend, count, breaker>>
      /\ call[c].pc = "idle"
      /\ \A d \in Callers \ {c} : call'[d] = call[d]
      /\ call'[c].pc \in {"idle", "breaker", "approve"}
  <2>1. ASSUME NEW r, NEW a, NEW pc \in {"breaker", "approve"}, Begin(c, pc, r, a)
        PROVE  /\ call[c].pc = "idle" /\ call'[c].pc = pc
               /\ \A d \in Callers \ {c} : call'[d] = call[d]
    BY <2>1 DEF Begin, MayBegin, At, TypeOK, CallTypeOK
  <2>2. CASE \E r \in Runs, a \in Actions : Execute(c, r, a)
    BY <2>1, <2>2 DEF Execute, store
  <2>3. CASE \E id \in Ids : Approve(c, id)
    BY <2>1, <2>3 DEF Approve, store
  <2>4. CASE \E id \in Ids : RejectApproval(c, id)
    BY <2>4 DEF RejectApproval, MayBegin, At
  <2> QED
    BY <2>2, <2>3, <2>4
<1> QED
  BY <1>1 DEF Keeps, Owed, Books

LEMMA CoveredNext == TypeOK /\ LogCovered /\ [Next]_vars => LogCovered'
<1> SUFFICES ASSUME TypeOK, LogCovered, [Next]_vars PROVE LogCovered'
  OBVIOUS
<1>1. TypeOK'
  BY NextTypeOK
<1>2. ASSUME NEW c \in Callers, Step(c), ~AppendAudit(c) PROVE LogCovered'
  <2>1. \A d \in Callers \ {c} : call'[d] = call[d]
    BY <1>2, StepMoves DEF Moves, Goto, Finish, Return, TypeOK, CallTypeOK
  <2> QED
    BY <1>1, <1>2, <2>1, StepLog, CoveredStep
<1>3. ASSUME NEW c \in Callers, AppendAudit(c) PROVE LogCovered'
  BY <1>1, <1>3, CoveredAppend
<1>4. ASSUME NEW c \in Callers,
             \/ \E r \in Runs, a \in Actions : Execute(c, r, a)
             \/ \E id \in Ids : Approve(c, id) \/ RejectApproval(c, id)
      PROVE  LogCovered'
  BY <1>1, <1>4, BeginLog, CoveredStep
<1>5. CASE UNCHANGED vars
  BY <1>5 DEF vars, store, LogCovered, Orders, Entries, Books, Owed, EntryOf, RunOf, ActOf, At
<1> QED
  BY <1>2, <1>3, <1>4, <1>5, CoveredCrash DEF Next, Rest

\* However calls of any number of threads interleave, and wherever the process
\* dies, the log implies no spend, effect or halt that the store does not hold.
THEOREM LogNeverOverstates == Spec => []ReplayNeverOverstates
<1>1. Init => TypeOK /\ LogCovered
  BY InitTypeOK, CoveredInit
<1>2. TypeOK /\ LogCovered /\ [Next]_vars => (TypeOK /\ LogCovered)'
  BY NextTypeOK, CoveredNext
<1>3. TypeOK /\ LogCovered => ReplayNeverOverstates
  <2> SUFFICES ASSUME TypeOK, LogCovered PROVE ReplayNeverOverstates
    OBVIOUS
  <2>1. ASSUME NEW r \in Runs
        PROVE  /\ reconstruct(audit[r]).cost <= spend[r]
               /\ \A s \in Subjects : reconstruct(audit[r]).subjects[s] <= count[<<r, s>>]
               /\ reconstruct(audit[r]).tripped => breaker[r]
    BY LogWithin DEF Within, Books
  <2> QED
    BY ONLY <2>1, Zenon DEF ReplayNeverOverstates
<1> QED
  BY <1>1, <1>2, <1>3, PTL DEF Spec

-----------------------------------------------------------------------------
(* The log is exact when calls are serialised *)

Equal(state, books) ==
  /\ state.cost = books.cost
  /\ \A s \in Subjects : state.subjects[s] = books.subjects[s]
  /\ state.tripped = books.tripped

\* In a process that has not crashed only the call under way separates the log
\* from the books.
LogExact ==
  crashes = 0 => \A r \in Runs :
    /\ (\A c \in Callers : ~(Owed(c) /\ RunOf(c) = r)) => Equal(reconstruct(audit[r]), Books(r))
    /\ \A c \in Callers : Owed(c) /\ RunOf(c) = r =>
         Equal(reconstruct(Append(audit[r], EntryOf(c))), Books(r))

LEMMA EqualAdds ==
  ASSUME NEW state, NEW next, NEW books, NEW more, NEW e,
         Equal(state, books), AddedBy(e, next, state), AddedBy(e, more, books)
  PROVE  Equal(next, more)
BY DEF Equal, AddedBy

LEMMA ReplayAdds ==
  ASSUME NEW s \in Seq(AuditEntry), NEW e \in AuditEntry
  PROVE  AddedBy(e, reconstruct(Append(s, e)), reconstruct(s))
BY ReplayAppend, ReplayType, ReplayedType DEF AddedBy

LEMMA ExactStep ==
  ASSUME TypeOK, TypeOK', LogExact, NEW c \in Callers, audit' = audit, crashes' = crashes,
         \A d \in Callers \ {c} : ~Owed(d) /\ ~Owed(d)',
         Incurs(c) \/ Keeps(c)
  PROVE  LogExact'
<1> SUFFICES ASSUME crashes = 0, NEW r \in Runs
             PROVE  /\ (\A d \in Callers : ~(Owed(d)' /\ RunOf(d)' = r)) =>
                         Equal(reconstruct(audit[r]), Books(r)')
                    /\ \A d \in Callers : Owed(d)' /\ RunOf(d)' = r =>
                         Equal(reconstruct(Append(audit[r], EntryOf(d)')), Books(r)')
  BY DEF LogExact
<1>1. CASE Keeps(c)
  BY <1>1 DEF LogExact, Keeps
<1>2. CASE Incurs(c) /\ r # RunOf(c)
  BY <1>2 DEF LogExact, Incurs
<1>3. CASE Incurs(c) /\ r = RunOf(c)
  <2>1. Equal(reconstruct(audit[r]), Books(r))
    BY <1>3 DEF LogExact, Incurs
  <2>2. /\ EntryOf(c)' \in AuditEntry /\ Owed(c)' /\ RunOf(c)' = r
        /\ AddedBy(EntryOf(c)', Books(r)', Books(r))
    BY <1>3, EntryTypesNext DEF Incurs, EntriesTypeOK
  <2>3. AddedBy(EntryOf(c)', reconstruct(Append(audit[r], EntryOf(c)')), reconstruct(audit[r]))
    BY <2>2, ReplayAdds DEF TypeOK, StoreTypeOK
  <2>4. Equal(reconstruct(Append(audit[r], EntryOf(c)')), Books(r)')
    BY <2>1, <2>2, <2>3, EqualAdds
  <2> QED
    BY <2>2, <2>4
<1> QED
  BY <1>1, <1>2, <1>3

LEMMA ExactAppend ==
  ASSUME TypeOK, LogExact, NEW c \in Callers, AppendAudit(c),
         \A d \in Callers \ {c} : ~Owed(d) /\ ~Owed(d)'
  PROVE  LogExact'
<1>1. /\ call[c].pc = "audit" /\ call'[c] = Idle
      /\ audit' = [audit EXCEPT ![RunOf(c)] = Append(audit[RunOf(c)],
           [action |-> ActOf(c), decision |-> call[c].decision])]
      /\ UNCHANGED <<spend, count, breaker, crashes>>
  BY DEF AppendAudit, At, Return, bounds, TypeOK, CallTypeOK
<1>2. Owed(c) /\ EntryOf(c) = [action |-> ActOf(c), decision |-> call[c].decision] /\ ~Owed(c)'
  BY <1>1 DEF Owed, EntryOf, At, Idle
<1>3. \A r \in Runs : Books(r)' = Books(r)
  BY <1>1 DEF Books
<1>4. \A r \in Runs : audit'[r] = IF r = RunOf(c) THEN Append(audit[r], EntryOf(c)) ELSE audit[r]
  BY <1>1, <1>2 DEF TypeOK, StoreTypeOK
<1>5. \A d \in Callers : ~Owed(d)'
  BY <1>2
<1> SUFFICES ASSUME crashes = 0, NEW r \in Runs
             PROVE  Equal(reconstruct(audit'[r]), Books(r)')
  BY <1>1, <1>5 DEF LogExact
<1> QED
  BY <1>2, <1>3, <1>4 DEF LogExact

LEMMA ExactNext == ASSUME Serialised PROVE IInv /\ LogExact /\ [Next]_vars => LogExact'
<1> SUFFICES ASSUME IInv, LogExact, [Next]_vars PROVE LogExact'
  OBVIOUS
<1>1. TypeOK /\ TypeOK' /\ OneAtATime
  BY NextTypeOK DEF IInv
<1>2. ASSUME NEW c \in Callers, Step(c) PROVE LogExact'
  <2>1. \A d \in Callers \ {c} : ~Owed(d) /\ ~Owed(d)'
    BY <1>1, <1>2, StepFrame DEF Owed
  <2>2. CASE AppendAudit(c)
    BY <1>1, <2>1, <2>2, ExactAppend
  <2>3. CASE ~AppendAudit(c)
    <3>1. crashes' = crashes
      BY <1>2 DEF Step, CheckBreaker, CheckIdempotency, RaiseUnknownAction, CheckGate,
           CreatePending, CheckBudget, CheckCap, TripBreaker, HandlerReturns, HandlerRaises,
           RecordExecution, PutResult, AppendAudit, SetApproved, bounds
    <3> QED
      BY <1>1, <1>2, <2>1, <2>3, <3>1, StepLog, ExactStep
  <2> QED
    BY <2>2, <2>3
<1>3. ASSUME NEW c \in Callers,
             \/ \E r \in Runs, a \in Actions : Execute(c, r, a)
             \/ \E id \in Ids : Approve(c, id) \/ RejectApproval(c, id)
      PROVE  LogExact'
  <2>1. crashes' = crashes /\ \A d \in Callers : At(d, "idle")
    BY <1>3 DEF Execute, Approve, RejectApproval, Begin, MayBegin
  <2>2. \A d \in Callers \ {c} : ~Owed(d) /\ ~Owed(d)'
    BY <1>1, <1>3, <2>1, BeginLog DEF Owed, At
  <2> QED
    BY <1>1, <1>3, <2>1, <2>2, BeginLog, ExactStep
<1>4. CASE Crash
  BY <1>1, <1>4 DEF Crash, LogExact, TypeOK, HistoryTypeOK
<1>5. CASE UNCHANGED vars
  BY <1>5 DEF vars, store, bounds, LogExact, Books, Owed, EntryOf, RunOf, ActOf, At
<1> QED
  BY <1>2, <1>3, <1>4, <1>5 DEF Next, Rest

\* While the process lives, whenever no call is under way a run's log replays to
\* what its store holds: spend, counts and breaker (replay.py:3-6).
THEOREM LogReplaysToStore == ASSUME Serialised PROVE Spec => []ReplayMatchesStore
<1>1. Init => LogExact
  <2> SUFFICES ASSUME Init PROVE LogExact
    OBVIOUS
  <2>1. \A c \in Callers : ~Owed(c)
    BY DEF Init, Owed, Idle
  <2>2. ASSUME NEW r \in Runs PROVE Equal(reconstruct(audit[r]), Books(r))
    <3>1. reconstruct(audit[r]) = EmptyReplay
      BY ReplayEmpty DEF Init
    <3>2. /\ Books(r).cost = 0
          /\ \A s \in Subjects : Books(r).subjects[s] = 0
          /\ Books(r).tripped = FALSE
      BY DEF Init, Books
    <3>3. /\ EmptyReplay.cost = 0
          /\ \A s \in Subjects : EmptyReplay.subjects[s] = 0
          /\ EmptyReplay.tripped = FALSE
      BY DEF EmptyReplay
    <3> QED
      BY <3>1, <3>2, <3>3 DEF Equal
  <2>3. \A r \in Runs : Equal(reconstruct(audit[r]), Books(r))
    BY ONLY <2>2, Zenon
  <2> QED
    BY ONLY <2>1, <2>3, Zenon DEF LogExact
<1>2. IInv /\ LogExact /\ [Next]_vars => LogExact'
  BY ExactNext
<1>3. IInv /\ LogExact => ReplayMatchesStore
  <2> SUFFICES ASSUME IInv, LogExact PROVE ReplayMatchesStore
    OBVIOUS
  <2>1. ASSUME AtRest, crashes = 0, NEW r \in Runs
        PROVE  /\ reconstruct(audit[r]).cost = spend[r]
               /\ \A s \in Subjects : reconstruct(audit[r]).subjects[s] = count[<<r, s>>]
               /\ reconstruct(audit[r]).tripped = breaker[r]
    <3>1. Equal(reconstruct(audit[r]), Books(r))
      BY <2>1 DEF LogExact, AtRest, Owed, At
    <3> QED
      BY <3>1 DEF Equal, Books
  <2> QED
    BY ONLY <2>1, Zenon DEF ReplayMatchesStore
<1>4. Spec => []IInv
  BY Inductive
<1> QED
  BY <1>1, <1>2, <1>3, <1>4, PTL DEF Spec

=============================================================================
