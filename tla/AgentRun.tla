------------------------------ MODULE AgentRun ------------------------------
(***************************************************************************)
(* The agent's path through the service: the loop that asks the model and  *)
(* hands its effects to the guarded executor (agentcore/agent/loop.py), the *)
(* trajectory it returns (recovery/trajectory_store.py) and the ledger row *)
(* the pipeline writes from it (recovery/pipeline.py, _run_agent).         *)
(*                                                                         *)
(* The executor is GuardedExecutor, transaction by transaction.  Nothing   *)
(* in the service approves or rejects, so those calls are left out here.   *)
(***************************************************************************)
EXTENDS GuardedExecutor, SequencesExt

CONSTANTS
  Offers,         \* per run, the actions its effect tools build: build_tools
                  \* registers a handler for each of them
  MaxIterations,  \* agent_max_iterations
  MaxRuns         \* bound: agent runs begun in a behaviour

ASSUME AgentAssumption ==
  /\ Offers \in [Runs -> SUBSET {a \in Actions : a.name \in Registered}]
  /\ MaxIterations \in Nat /\ MaxRuns \in Nat

\* Of the three effects only the refund has a cost, and it has one key per
\* payment: what is held for approval in a run is held under one key.
ASSUME RefundAssumption ==
  \A r \in Runs : \A a, b \in Offers[r] :
    NeedsApproval(a) /\ NeedsApproval(b) => a.key = b.key

VARIABLES
  agent,         \* per caller, the agent run in progress
  trajectories,  \* trajectories saved, in order
  ledger,        \* ledger rows of agent runs, in order
  runs           \* agent runs begun so far

agentVars == <<agent, trajectories, ledger, runs>>
allVars   == <<vars, agentVars>>

-----------------------------------------------------------------------------
(* Values *)

AgentOutcome == {"resolved", "escalated", "pending_approval", "rejected",
                 "max_iterations", "failed_timeout", "failed_malformed_output"}
Rejected == {"rejected_action_budget", "rejected_spend_cap", "rejected_breaker_open"}

\* A trajectory keeps the steps that called the executor; of the others only
\* their number.  since is the length of the audit log when the run began.
AgentPC == {"idle", "ask", "call", "save", "record"}
NoRun == [pc |-> "idle", run |-> None, index |-> 1, told |-> <<>>,
          outcome |-> None, since |-> 0]

AgentAt(c, pc) == agent[c].pc = pc
EntriesSince(r, n) == SubSeq(audit[r], n + 1, Len(audit[r]))

\* resolution_status and resolution_action: those of the last effect.
LastStatus(told) == IF told = <<>> THEN None ELSE Last(told).decision
LastAction(told) == IF told = <<>> THEN None ELSE Last(told).action

\* Faulty: a held action passes for a resolved one.
PendingIsResolved(told, resolution) ==
  IF LastStatus(told) \in Rejected THEN "rejected" ELSE "resolved"

_final_outcome(told, resolution) ==
  LET named == IF told = <<>> THEN resolution ELSE LastAction(told).name IN
  CASE LastStatus(told) = "pending_approval" -> "pending_approval"
    [] LastStatus(told) \in Rejected -> "rejected"
    [] OTHER -> IF named = "escalate_to_human" THEN "escalated" ELSE "resolved"

-----------------------------------------------------------------------------
(* AgentLoop.run *)

\* The pipeline's lock is held for the whole run, not only for its effects.
StartRun(c, r) ==
  /\ \A d \in Callers : AgentAt(d, "idle")
  /\ runs < MaxRuns
  /\ agent' = [agent EXCEPT ![c] =
                 [NoRun EXCEPT !.pc = "ask", !.run = r, !.since = Len(audit[r])]]
  /\ runs' = runs + 1
  /\ UNCHANGED <<vars, trajectories, ledger>>

\* An iteration may begin, and the model answers.
Asks(c) == AgentAt(c, "ask") /\ agent[c].index <= MaxIterations

\* Faulty: the trajectory is left without an outcome.
OutcomeForgotten(c, outcome) ==
  /\ agent' = [agent EXCEPT ![c].pc = "save"]
  /\ UNCHANGED <<vars, trajectories, ledger, runs>>

\* The loop is left, with the trajectory whatever the reason.
Concludes(c, outcome) ==
  /\ agent' = [agent EXCEPT ![c].pc = "save", ![c].outcome = outcome]
  /\ UNCHANGED <<vars, trajectories, ledger, runs>>

\* An exception leaves run, the trajectory is lost, the pipeline records it.
Abandon(c) == agent' = [agent EXCEPT ![c] =
                [NoRun EXCEPT !.pc = "record", !.run = agent[c].run]]

ReachesLimit(c) ==
  /\ AgentAt(c, "ask") /\ agent[c].index > MaxIterations
  /\ Concludes(c, "max_iterations")

\* The clock is read before the model is asked, never during a call.
TimesOut(c) == Asks(c) /\ Concludes(c, "failed_timeout")

Malformed(c) == Asks(c) /\ Concludes(c, "failed_malformed_output")

Final(c, resolution) ==
  Asks(c) /\ Concludes(c, _final_outcome(agent[c].told, resolution))

\* The model client or a read tool raises.
AskRaises(c) ==
  /\ Asks(c)
  /\ Abandon(c)
  /\ UNCHANGED <<vars, trajectories, ledger, runs>>

\* Faulty: the iteration count starts over.
IterationsStartOver(c) ==
  /\ Asks(c)
  /\ agent' = [agent EXCEPT ![c].index = IF @ = MaxIterations THEN 1 ELSE @ + 1]
  /\ UNCHANGED <<vars, trajectories, ledger, runs>>

\* A read tool, an unknown tool, invalid arguments, or an effect that could not
\* be built: an observation for the model, and the next iteration.
OnlyObserves(c) ==
  /\ Asks(c)
  /\ agent' = [agent EXCEPT ![c].index = @ + 1]
  /\ UNCHANGED <<vars, trajectories, ledger, runs>>

CallsEffect(c, a) ==
  /\ Asks(c)
  /\ a \in Offers[agent[c].run]
  /\ Execute(c, agent[c].run, a)
  /\ agent' = [agent EXCEPT ![c].pc = "call"]
  /\ UNCHANGED <<trajectories, ledger, runs>>

\* The executor works on the call.
CallGoesOn(c) ==
  /\ AgentAt(c, "call")
  /\ ~At(c, "audit") /\ Step(c)
  /\ UNCHANGED agentVars

\* Faulty: a refused call leaves no step.
RefusalNotTold(c) ==
  /\ AgentAt(c, "call") /\ call[c].decision # "error"
  /\ AppendAudit(c)
  /\ agent' = [agent EXCEPT ![c].pc = "ask", ![c].index = @ + 1,
       ![c].told = IF call[c].decision \in Rejected THEN @
                   ELSE Append(@, [action |-> ActOf(c), decision |-> call[c].decision])]
  /\ UNCHANGED <<trajectories, ledger, runs>>

\* execute returns: the step tells the action and its status.
EffectReturns(c) ==
  /\ AgentAt(c, "call") /\ call[c].decision # "error"
  /\ AppendAudit(c)
  /\ agent' = [agent EXCEPT ![c].pc = "ask", ![c].index = @ + 1,
       ![c].told = Append(@, [action |-> ActOf(c), decision |-> call[c].decision])]
  /\ UNCHANGED <<trajectories, ledger, runs>>

\* The handler failed, and execute raises.
EffectRaises(c) ==
  /\ AgentAt(c, "call") /\ call[c].decision = "error"
  /\ AppendAudit(c)
  /\ Abandon(c)
  /\ UNCHANGED <<trajectories, ledger, runs>>

-----------------------------------------------------------------------------
(* _run_agent and the ledger row *)

SaveTrajectory(c) ==
  /\ AgentAt(c, "save")
  /\ trajectories' = Append(trajectories,
       [run |-> agent[c].run, outcome |-> agent[c].outcome,
        told |-> agent[c].told, since |-> agent[c].since])
  /\ agent' = [agent EXCEPT ![c].pc = "record"]
  /\ UNCHANGED <<vars, ledger, runs>>

PendingOf(r) == {id \in Ids : id[1] = r /\ approvals[id].state = "pending"}

\* The row keeps the last effect asked for.  That of a run that raised has
\* outcome failed, that of a run held for approval names the newest pending
\* record of the payment.
RecordLedger(c) ==
  /\ AgentAt(c, "record")
  /\ \E approval \in
       IF agent[c].outcome = "pending_approval" /\ PendingOf(agent[c].run) # {}
       THEN PendingOf(agent[c].run) ELSE {None} :
     ledger' = Append(ledger,
       [run |-> agent[c].run, approval |-> approval,
        action |-> LastAction(agent[c].told),
        outcome |-> IF agent[c].outcome = None THEN "failed" ELSE agent[c].outcome])
  /\ agent' = [agent EXCEPT ![c] = NoRun]
  /\ UNCHANGED <<vars, trajectories, runs>>

AgentCrash ==
  /\ Crash
  /\ agent' = [c \in Callers |-> NoRun]
  /\ UNCHANGED <<trajectories, ledger, runs>>

\* Nothing is left to recover.
AgentRest ==
  /\ runs = MaxRuns
  /\ \A c \in Callers : AgentAt(c, "idle")
  /\ UNCHANGED allVars

-----------------------------------------------------------------------------
AgentInit ==
  /\ Init
  /\ agent = [c \in Callers |-> NoRun]
  /\ trajectories = <<>> /\ ledger = <<>> /\ runs = 0

AgentStep(c) ==
  \/ ReachesLimit(c) \/ TimesOut(c) \/ Malformed(c) \/ AskRaises(c)
  \/ (\E resolution \in {None, "escalate_to_human"} : Final(c, resolution))
  \/ OnlyObserves(c)
  \/ (\E a \in Actions : CallsEffect(c, a))
  \/ CallGoesOn(c) \/ EffectReturns(c) \/ EffectRaises(c)
  \/ SaveTrajectory(c) \/ RecordLedger(c)

AgentNext ==
  \/ \E c \in Callers :
       \/ AgentStep(c)
       \/ \E r \in Runs : StartRun(c, r)
  \/ AgentCrash
  \/ AgentRest

\* The model client and the provider return or time out, so a run goes on.
AgentSpec ==
  AgentInit /\ [][AgentNext]_allVars /\ \A c \in Callers : WF_allVars(AgentStep(c))

-----------------------------------------------------------------------------
(* Properties *)

Told == [action: Actions, decision: ExecutionStatus]

\* Every variable has its type; only a run inside a call is inside execute.
AgentTypeOK ==
  /\ TypeOK
  /\ agent \in [Callers -> [pc: AgentPC, run: Runs \cup {None},
                            index: 1..(MaxIterations + 1), told: Seq(Told),
                            outcome: AgentOutcome \cup {None}, since: Nat]]
  /\ \A c \in Callers : AgentAt(c, "call") <=> ~At(c, "idle")
  /\ trajectories \in Seq([run: Runs, outcome: AgentOutcome, told: Seq(Told),
                           since: Nat])
  /\ ledger \in Seq([run: Runs, outcome: AgentOutcome \cup {"failed"},
                     action: Actions \cup {None}, approval: Ids \cup {None}])
  /\ runs \in 0..MaxRuns

\* Two records of one run, kept by two components, agree: the effect steps of a
\* trajectory, saved (whatever happened since) or still growing, are the audit
\* entries its payment gained during the run, in order (loop.py:188-201,
\* executor.py:225-237).
ToldAsAudited ==
  /\ \A c \in Callers : agent[c].pc \in {"ask", "save"} =>
       agent[c].told = EntriesSince(agent[c].run, agent[c].since)
  /\ \A i \in DOMAIN trajectories : LET t == trajectories[i] IN
       t.told = SubSeq(audit[t.run], t.since + 1, t.since + Len(t.told))

\* What a ledger row says of an effect the guard store bears out, whenever it
\* is read (loop.py:215-232, pipeline.py:266-297): a row held for approval names
\* the record of the action last asked for, a resolved or escalated action has
\* its result stored, a rejected one met an open breaker or an empty budget.
OutcomeBacked ==
  \A i \in DOMAIN ledger :
    LET row == ledger[i]
        id  == <<row.run, row.action.key>>
    IN row.action # None =>
         /\ row.outcome = "pending_approval" => row.approval = id
         /\ row.outcome \in {"resolved", "escalated"} => id \in results
         /\ row.outcome = "rejected" =>
              breaker[row.run] \/ BudgetExhausted(row.run, row.action.subject)

\* README.md:417: a run is bounded: whatever the model answers, it ends and
\* releases the pipeline's lock.
RunEnds == \A c \in Callers : ~AgentAt(c, "idle") ~> AgentAt(c, "idle")

\* docs/RAZORPAY_TEST_MODE.md:162-163 says the dashboard's pending approvals
\* list any live action held for approval: each has a row the list selects.
HeldActionsListed ==
  (\A c \in Callers : AgentAt(c, "idle")) /\ crashes = 0 =>
    \A id \in Ids : approvals[id].state = "pending" =>
      \E i \in DOMAIN ledger :
        ledger[i].run = id[1] /\ ledger[i].outcome = "pending_approval"

-----------------------------------------------------------------------------
(* Why they hold: one agent run at a time holds the store, and what it told *)
(* the model of a call the store goes on bearing out.                      *)

OneRunAtATime ==
  \A c, d \in Callers : ~AgentAt(c, "idle") /\ ~AgentAt(d, "idle") => c = d

\* Where a run stands: its payment is known, its call is one it offers.
RunKnown(c) ==
  /\ AgentAt(c, "idle") => agent[c] = NoRun
  /\ ~AgentAt(c, "idle") => agent[c].run \in Runs
  /\ AgentAt(c, "save") => agent[c].outcome \in AgentOutcome
  /\ AgentAt(c, "call") =>
       /\ agent[c].index <= MaxIterations
       /\ RunOf(c) = agent[c].run /\ ActOf(c) \in Offers[agent[c].run]
       /\ ~At(c, "approve")
       /\ At(c, "enqueue") => NeedsApproval(ActOf(c))

\* The steps of a run are the end of its payment's log.
StepsInLog(c) ==
  agent[c].pc \in {"ask", "call", "save"} =>
    /\ agent[c].since <= Len(audit[agent[c].run])
    /\ agent[c].told = EntriesSince(agent[c].run, agent[c].since)

\* The store bears the decision out.
Backed(r, entry) ==
  /\ entry.decision = "pending_approval" =>
       approvals[<<r, entry.action.key>>].state = "pending"
  /\ entry.decision \in {"executed", "duplicate"} =>
       <<r, entry.action.key>> \in results
  /\ entry.decision \in Rejected =>
       breaker[r] \/ BudgetExhausted(r, entry.action.subject)

Decided(c) == [action |-> ActOf(c), decision |-> call[c].decision]

DecisionsBacked(c) ==
  /\ At(c, "audit") => Backed(RunOf(c), Decided(c))
  /\ \A i \in DOMAIN agent[c].told : Backed(agent[c].run, agent[c].told[i])

\* The outcome a run concludes with is that of its last effect.
OutcomeOfLast(c) ==
  agent[c].pc \in {"save", "record"} /\ agent[c].told # <<>> =>
    LET status == LastStatus(agent[c].told) IN
    /\ agent[c].outcome = "pending_approval" => status = "pending_approval"
    /\ agent[c].outcome \in {"resolved", "escalated"} =>
         status \in {"executed", "duplicate"}
    /\ agent[c].outcome = "rejected" => status \in Rejected

CallerOK(c) ==
  RunKnown(c) /\ StepsInLog(c) /\ DecisionsBacked(c) /\ OutcomeOfLast(c)

\* The steps of a saved trajectory are a stretch of the log.
SavedInLog ==
  \A i \in DOMAIN trajectories : LET t == trajectories[i] IN
    t.since + Len(t.told) <= Len(audit[t.run])

\* Every record is still pending, and held for an action its run offers.
NobodyAnswers ==
  \A id \in Ids : approvals[id] # NoApproval =>
    /\ approvals[id].state = "pending"
    /\ \E a \in Offers[id[1]] : a.key = id[2] /\ NeedsApproval(a)

\* The inductive invariant behind ToldAsAudited and OutcomeBacked: it carries
\* what a run was told (loop.py:188-201) across its save and its ledger row.
AgentIInv ==
  /\ AgentTypeOK /\ OneRunAtATime /\ NobodyAnswers
  /\ \A c \in Callers : CallerOK(c)
  /\ ToldAsAudited /\ SavedInLog /\ OutcomeBacked

=============================================================================
