--------------------------- MODULE AgentRunProofs ---------------------------
(***************************************************************************)
(* Proofs about AgentRun for every set of runs, offers and bounds.  They   *)
(* rest on those of GuardedExecutorProofs: an agent run takes the          *)
(* executor's steps and no others.                                         *)
(***************************************************************************)
EXTENDS AgentRun, GuardedExecutorProofs, SequenceTheorems

RunRecord == [pc: AgentPC, run: Runs \cup {None}, index: 1..(MaxIterations + 1),
              told: Seq(Told), outcome: AgentOutcome \cup {None}, since: Nat]

-----------------------------------------------------------------------------
(* Sequences that grow *)

LEMMA AppendTypes ==
  ASSUME NEW S, NEW s \in Seq(S), NEW e \in S
  PROVE  /\ Append(s, e) \in Seq(S) /\ Len(Append(s, e)) = Len(s) + 1
         /\ Len(s) \in Nat
         /\ DOMAIN Append(s, e) = 1..(Len(s) + 1) /\ DOMAIN s = 1..Len(s)
         /\ \A i \in DOMAIN s : Append(s, e)[i] = s[i]
         /\ Append(s, e)[Len(s) + 1] = e
         /\ Last(Append(s, e)) = e /\ Append(s, e) # <<>>
<1>1. /\ Append(s, e) \in Seq(S) /\ Len(Append(s, e)) = Len(s) + 1
      /\ \A i \in 1..Len(s) : Append(s, e)[i] = s[i]
      /\ Append(s, e)[Len(s) + 1] = e /\ Append(s, e) # <<>>
  BY AppendProperties
<1>2. Len(s) \in Nat /\ DOMAIN s = 1..Len(s)
  BY LenProperties
<1>3. DOMAIN Append(s, e) = 1..(Len(s) + 1)
  BY <1>1, LenProperties
<1>4. Last(Append(s, e)) = Append(s, e)[Len(Append(s, e))]
  BY Zenon DEF Last
<1> QED
  BY <1>1, <1>2, <1>3, <1>4

\* A stretch of a log stays what it was when the log grows.
LEMMA StretchKept ==
  ASSUME NEW S, NEW s \in Seq(S), NEW e \in S, NEW m \in Nat, NEW n \in 0..Len(s)
  PROVE  SubSeq(Append(s, e), m + 1, n) = SubSeq(s, m + 1, n)
<1> DEFINE a == SubSeq(Append(s, e), m + 1, n)
           b == SubSeq(s, m + 1, n)
<1>1. /\ Append(s, e) \in Seq(S) /\ Len(s) \in Nat
      /\ \A i \in (m + 1)..n : s[i] \in S /\ Append(s, e)[i] = s[i]
  BY AppendProperties, ElementOfSeq, LenProperties
<1>2. /\ a \in Seq(S) /\ b \in Seq(S) /\ Len(a) = Len(b)
      /\ \A i \in 1..(n - m) : a[i] = Append(s, e)[m + i] /\ b[i] = s[m + i]
      /\ Len(b) = IF m + 1 <= n THEN n - m ELSE 0
  BY <1>1, SubSeqProperties
<1>3. \A i \in 1..Len(a) : a[i] = b[i]
  BY <1>1, <1>2
<1> QED
  BY <1>2, <1>3, SeqEqual

\* The entries since a length grow with the log.
LEMMA EndGrows ==
  ASSUME NEW S, NEW s \in Seq(S), NEW e \in S, NEW m \in 0..Len(s)
  PROVE  SubSeq(Append(s, e), m + 1, Len(Append(s, e)))
           = Append(SubSeq(s, m + 1, Len(s)), e)
<1>1. /\ Append(s, e) \in Seq(S) /\ Len(Append(s, e)) = Len(s) + 1
      /\ Append(s, e)[Len(s) + 1] = e /\ Len(s) \in Nat
  BY AppendProperties, LenProperties
<1> DEFINE t == Append(s, e)
<1>r. m + 1 \in 1..Len(t) /\ Len(t) \in (m + 1)..Len(t) /\ t \in Seq(S)
  BY <1>1
<1> HIDE DEF t
<1>2. SubSeq(t, m + 1, Len(t)) = SubSeq(t, m + 1, Len(t) - 1) \o <<t[Len(t)]>>
  BY <1>r, SubSeqRecursiveSecond
<1> USE DEF t
<1>3. SubSeq(t, m + 1, Len(t) - 1) = SubSeq(s, m + 1, Len(s))
  BY <1>1, StretchKept
<1>4. SubSeq(s, m + 1, Len(s)) \in Seq(S)
  BY <1>1, SubSeqProperties, ElementOfSeq
<1> QED
  BY <1>1, <1>2, <1>3, <1>4, AppendIsConcat

-----------------------------------------------------------------------------
(* The executor's steps, inside an agent run *)

\* What the store has recorded of a run it keeps.
StoreGrows ==
  /\ results \subseteq results'
  /\ \A r \in Runs : breaker[r] => breaker'[r]
  /\ \A rs \in Runs \X Subjects : count'[rs] >= count[rs]
  /\ \A id \in Ids :
       approvals[id].state = "pending" => approvals'[id].state = "pending"

LEMMA BackedKept ==
  ASSUME TypeOK, TypeOK', StoreGrows, NEW r \in Runs, NEW entry,
         entry.action \in Actions, Backed(r, entry)
  PROVE  Backed(r, entry)'
<1>1. /\ <<r, entry.action.key>> \in Ids
      /\ <<r, entry.action.subject>> \in Runs \X Subjects
  BY ConfigAssumption DEF Ids
<1>2. BudgetExhausted(r, entry.action.subject)
        => BudgetExhausted(r, entry.action.subject)'
  BY <1>1, ConfigAssumption DEF BudgetExhausted, StoreGrows, TypeOK, StoreTypeOK
<1> QED
  BY <1>1, <1>2 DEF Backed, StoreGrows

LEMMA StoreUntouched ==
  ASSUME TypeOK, UNCHANGED <<results, count, breaker, approvals>>
  PROVE  StoreGrows
BY DEF StoreGrows, TypeOK, StoreTypeOK

\* Within a call that is neither approving nor without a handler, the store
\* only grows, a record that appears waits for an offered action, and the
\* decision the call comes to is borne out by the store.
LEMMA CallStep ==
  ASSUME TypeOK, NobodyAnswers, NEW c \in Callers, RunKnown(c),
         AgentAt(c, "call"), Step(c)
  PROVE  /\ StoreGrows /\ NobodyAnswers'
         /\ ~At(c, "approve")' /\ (At(c, "enqueue")' => NeedsApproval(ActOf(c)))
         /\ ~At(c, "audit") =>
              /\ UNCHANGED audit /\ ~At(c, "idle")'
              /\ RunOf(c)' = RunOf(c) /\ ActOf(c)' = ActOf(c)
              /\ At(c, "audit")' => Backed(RunOf(c), Decided(c))'
<1> DEFINE r  == RunOf(c)
           a  == ActOf(c)
           id == IdOf(c)
           Said(d) == call'[c].decision = d
<1> USE DEF At
<1>1. /\ call[c].pc # "idle" /\ Moves(c)
      /\ call[c].pc # "approve" /\ a.name \in Registered /\ r \in Runs
      /\ a \in Offers[r] /\ (call[c].pc = "enqueue" => NeedsApproval(a))
  BY StepMoves, AgentAssumption DEF TypeOK, RunKnown, AgentAt
<1>2. /\ a \in Actions /\ id \in Ids /\ id = <<r, a.key>>
      /\ <<r, a.subject>> \in Runs \X Subjects /\ id[1] = r /\ id[2] = a.key
  BY <1>1, CallTypes DEF TypeOK, IdOf, RunOf, ActOf
<1>3. call \in [Callers -> Call]
  BY DEF TypeOK, CallTypeOK
<1>4. ASSUME NEW pc, Goto(c, pc)
      PROVE  call'[c].pc = pc /\ RunOf(c)' = r /\ ActOf(c)' = a
  BY <1>3, <1>4 DEF Goto, RunOf, ActOf, Call
<1>5. ASSUME NEW d, Finish(c, d)
      PROVE  /\ call'[c].pc = "audit" /\ Said(d)
             /\ RunOf(c)' = r /\ ActOf(c)' = a
  BY <1>3, <1>5 DEF Finish, RunOf, ActOf, Call
<1>6. ASSUME UNCHANGED approvals PROVE NobodyAnswers'
  BY <1>6 DEF NobodyAnswers
<1>b. ASSUME RunOf(c)' = r, ActOf(c)' = a, NEW d, Said(d),
             d = "pending_approval" => approvals'[id].state = "pending",
             d \in {"executed", "duplicate"} => id \in results',
             d \in Rejected => breaker'[r] \/ count'[<<r, a.subject>>] >= ActionBudget
      PROVE  Backed(RunOf(c), Decided(c))'
  BY <1>b, <1>2 DEF Backed, Decided, BudgetExhausted
<1>store. UNCHANGED <<results, count, breaker, approvals>> => StoreGrows
  BY StoreUntouched
<1> DEFINE Goal ==
  /\ StoreGrows /\ NobodyAnswers'
  /\ ~At(c, "approve")' /\ (At(c, "enqueue")' => NeedsApproval(ActOf(c)))
  /\ ~At(c, "audit") =>
       /\ UNCHANGED audit /\ ~At(c, "idle")'
       /\ RunOf(c)' = RunOf(c) /\ ActOf(c)' = ActOf(c)
       /\ At(c, "audit")' => Backed(RunOf(c), Decided(c))'
<1>go. ASSUME NEW pc, Goto(c, pc), pc \notin {"approve", "audit", "idle"},
              pc = "enqueue" => NeedsApproval(a),
              UNCHANGED audit, StoreGrows, NobodyAnswers'
       PROVE  Goal
  BY <1>go, <1>4
<1>fin. ASSUME NEW d, Finish(c, d), UNCHANGED audit, StoreGrows, NobodyAnswers',
               d = "pending_approval" => approvals'[id].state = "pending",
               d \in {"executed", "duplicate"} => id \in results',
               d \in Rejected => breaker'[r] \/ count'[<<r, a.subject>>] >= ActionBudget
        PROVE  Goal
  BY <1>fin, <1>5, <1>b
<1> SUFFICES Goal
  OBVIOUS
<1> HIDE DEF Goal
<1> USE DEF Rejected
<1>read. ASSUME UNCHANGED store PROVE StoreGrows /\ NobodyAnswers' /\ UNCHANGED audit
  BY <1>read, <1>6, <1>store DEF store
\* A call that does not go on at the gate waits for the record it found.
<1>gate. ASSUME Gated(c, id), approvals[id] # NoApproval, UNCHANGED approvals,
                UNCHANGED audit, StoreGrows, NobodyAnswers'
         PROVE  Goal
  <2>1. approvals[id].state = "pending" /\ ~Approved(id)
    BY <1>gate, <1>2 DEF NobodyAnswers, Approved
  <2>2. Finish(c, "pending_approval") /\ approvals'[id].state = "pending"
    BY <2>1, <1>gate DEF Gated
  <2> QED
    BY <2>2, <1>fin, <1>gate
<1>c1. CASE CheckBreaker(c)
  <2>1. breaker' = breaker /\ UNCHANGED store
    BY <1>c1 DEF CheckBreaker, store
  <2> QED
    BY <2>1, <1>c1, <1>read, <1>go, <1>fin DEF CheckBreaker, BreakerOpen
<1>c2. CASE CheckIdempotency(c)
  <2>1. results' = results /\ UNCHANGED store
    BY <1>c2 DEF CheckIdempotency, store
  <2> QED
    BY <2>1, <1>c2, <1>read, <1>go, <1>fin DEF CheckIdempotency, Settled
<1>c3. CASE RaiseUnknownAction(c)
  BY <1>c3, <1>1 DEF RaiseUnknownAction
<1>c4. CASE CheckGate(c)
  <2>1. UNCHANGED store /\ UNCHANGED approvals
    BY <1>c4 DEF CheckGate, store
  <2>2. StoreGrows /\ NobodyAnswers' /\ UNCHANGED audit
    BY <2>1, <1>read
  <2> QED
    BY <2>1, <2>2, <1>c4, <1>go, <1>gate DEF CheckGate
<1>c5. CASE CreatePending(c)
  <2>1. UNCHANGED <<results, count, spend, breaker, audit>>
        /\ NeedsApproval(a)
    BY <1>c5, <1>1 DEF CreatePending
  <2>2. CASE approvals[id] # NoApproval
    <3>1. UNCHANGED approvals /\ Gated(c, id)
      BY <2>2, <1>c5 DEF CreatePending
    <3>2. StoreGrows /\ NobodyAnswers'
      BY <3>1, <2>1, <1>6, <1>store
    <3> QED
      BY <3>1, <3>2, <2>1, <2>2, <1>gate
  <2>3. CASE approvals[id] = NoApproval
    <3>1. /\ approvals' = [approvals EXCEPT ![id] =
                             [state |-> "pending", action |-> a]]
          /\ Finish(c, "pending_approval")
      BY <2>3, <1>c5 DEF CreatePending
    <3>2. /\ approvals'[id].state = "pending"
          /\ \A i \in Ids \ {id} : approvals'[i] = approvals[i]
      BY <3>1, <1>2 DEF TypeOK, StoreTypeOK
    <3>c. \A rs \in Runs \X Subjects : count'[rs] >= count[rs]
      BY <2>1 DEF TypeOK, StoreTypeOK
    <3>3. StoreGrows
      BY <3>2, <3>c, <2>1 DEF StoreGrows
    <3>4. NobodyAnswers'
      BY <3>2, <2>1, <1>1, <1>2 DEF NobodyAnswers
    <3> QED
      BY <3>1, <3>2, <3>3, <3>4, <2>1, <1>fin
  <2> QED
    BY <2>2, <2>3
<1>c6. CASE CheckBudget(c)
  <2>1. count' = count /\ UNCHANGED store
    BY <1>c6 DEF CheckBudget, store
  <2> QED
    BY <2>1, <1>c6, <1>read, <1>go, <1>fin DEF CheckBudget, BudgetExhausted
<1>c7. CASE CheckCap(c)
  <2>1. UNCHANGED store
    BY <1>c7 DEF CheckCap
  <2> QED
    BY <2>1, <1>c7, <1>read, <1>go DEF CheckCap
<1>c8. CASE TripBreaker(c)
  <2>1. /\ UNCHANGED <<results, approvals, count, spend, audit>>
        /\ breaker' = [breaker EXCEPT ![r] = TRUE]
        /\ Finish(c, "rejected_spend_cap")
    BY <1>c8 DEF TripBreaker
  <2>2. breaker'[r] /\ \A q \in Runs : breaker[q] => breaker'[q]
    BY <2>1, <1>1 DEF TypeOK, StoreTypeOK
  <2>3. StoreGrows
    BY <2>1, <2>2 DEF StoreGrows, TypeOK, StoreTypeOK
  <2> QED
    BY <2>1, <2>2, <2>3, <1>6, <1>fin
<1>c9. CASE HandlerReturns(c)
  <2>1. UNCHANGED store /\ Goto(c, "record")
    BY <1>c9 DEF HandlerReturns
  <2> QED
    BY <2>1, <1>read, <1>go
<1>c10. CASE HandlerRaises(c)
  <2>1. UNCHANGED store /\ Finish(c, "error")
    BY <1>c10 DEF HandlerRaises
  <2> QED
    BY <2>1, <1>read, <1>fin
<1>c11. CASE RecordExecution(c)
  <2>1. /\ UNCHANGED <<results, approvals, breaker, audit>>
        /\ count' = [count EXCEPT ![<<r, a.subject>>] = @ + 1]
        /\ Goto(c, "put")
    BY <1>c11 DEF RecordExecution
  <2>2. ASSUME NEW rs \in Runs \X Subjects PROVE count'[rs] >= count[rs]
    <3>1. count[rs] \in Nat /\ count \in [Runs \X Subjects -> Nat]
      BY DEF TypeOK, StoreTypeOK
    <3> DEFINE mine == <<r, a.subject>>
    <3>2. mine \in Runs \X Subjects
      BY <1>2
    <3> HIDE DEF mine
    <3>3. count'[rs] = IF rs = mine THEN count[rs] + 1 ELSE count[rs]
      BY <2>1, <3>1, <3>2 DEF mine
    <3> QED
      BY <3>1, <3>3
  <2>3. StoreGrows
    BY <2>1, <2>2 DEF StoreGrows
  <2> QED
    BY <2>1, <2>3, <1>6, <1>go
<1>c12. CASE PutResult(c)
  <2>1. /\ UNCHANGED <<approvals, count, breaker, audit>>
        /\ results' = results \cup {id} /\ Finish(c, "executed")
    BY <1>c12 DEF PutResult
  <2>2. StoreGrows
    BY <2>1 DEF StoreGrows, TypeOK, StoreTypeOK
  <2>3. id \in results' /\ NobodyAnswers'
    BY <2>1, <1>6
  <2> QED
    BY <2>1, <2>2, <2>3, <1>fin
<1>c13. CASE AppendAudit(c)
  <2>1. /\ call[c].pc = "audit" /\ Return(c)
        /\ UNCHANGED <<results, approvals, count, breaker>>
    BY <1>c13 DEF AppendAudit
  <2>2. call'[c].pc = "idle"
    BY <2>1, <1>3 DEF Return, Idle
  <2> QED
    BY <2>1, <2>2, <1>6, <1>store DEF Goal
<1>c14. CASE SetApproved(c)
  BY <1>c14, <1>1 DEF SetApproved
<1> QED
  BY <1>c1, <1>c2, <1>c3, <1>c4, <1>c5, <1>c6, <1>c7, <1>c8, <1>c9, <1>c10,
     <1>c11, <1>c12, <1>c13, <1>c14 DEF Step

-----------------------------------------------------------------------------
(* Callers *)

LEMMA NoRunType == NoRun \in RunRecord /\ NoRun.told = <<>> /\ NoRun.pc = "idle"
<1>1. <<>> \in Seq(Told) /\ 1 \in 1..(MaxIterations + 1)
  BY EmptySeq, AgentAssumption
<1> QED
  BY <1>1 DEF NoRun, RunRecord, AgentPC

LEMMA OthersIdle ==
  ASSUME AgentIInv, NEW c \in Callers, ~AgentAt(c, "idle"),
         NEW d \in Callers \ {c}
  PROVE  AgentAt(d, "idle") /\ agent[d] = NoRun /\ At(d, "idle")
<1>1. AgentAt(d, "idle")
  BY DEF AgentIInv, OneRunAtATime
<1>2. CallerOK(d) /\ (AgentAt(d, "call") <=> ~At(d, "idle"))
  BY DEF AgentIInv, AgentTypeOK
<1> QED
  BY <1>1, <1>2 DEF CallerOK, RunKnown, AgentAt

LEMMA IdleCallerOK ==
  ASSUME NEW c \in Callers, agent[c] = NoRun, At(c, "idle")
  PROVE  CallerOK(c)
<1>1. agent[c].pc = "idle" /\ agent[c].told = <<>> /\ call[c].pc = "idle"
  BY DEF NoRun, At
<1> QED
  BY <1>1 DEF CallerOK, RunKnown, StepsInLog, DecisionsBacked, OutcomeOfLast,
              AgentAt, At

LEMMA QuietStep ==
  ASSUME TypeOK, NobodyAnswers, UNCHANGED vars
  PROVE  /\ TypeOK' /\ NobodyAnswers' /\ StoreGrows
         /\ call' = call /\ audit' = audit
         /\ \A r, e : Backed(r, e) => Backed(r, e)'
<1>1. UNCHANGED <<results, count, breaker, approvals, call, audit>>
  BY DEF vars, store
<1>2. TypeOK'
  BY NextTypeOK
<1>3. NobodyAnswers'
  BY <1>1 DEF NobodyAnswers
<1>4. \A r, e : Backed(r, e) => Backed(r, e)'
  BY <1>1 DEF Backed, BudgetExhausted
<1> QED
  BY <1>1, <1>2, <1>3, <1>4, StoreUntouched

\* What a step of one caller's run leaves behind.
TurnOK(c) ==
  /\ agent' \in [Callers -> RunRecord]
  /\ \A d \in Callers \ {c} : agent'[d] = agent[d] /\ call'[d] = call[d]
  /\ (AgentAt(c, "call") <=> ~At(c, "idle"))'
  /\ TypeOK' /\ NobodyAnswers' /\ StoreGrows
  /\ CallerOK(c)'

\* The loop's own steps: an iteration that asks no effect, or the loop's end.
LEMMA LoopTurn ==
  ASSUME AgentIInv, NEW c \in Callers, AgentAt(c, "ask"), UNCHANGED vars,
         \/ /\ agent[c].index <= MaxIterations
            /\ agent' = [agent EXCEPT ![c].index = @ + 1]
         \/ \E outcome \in AgentOutcome :
              /\ agent' = [agent EXCEPT ![c].pc = "save", ![c].outcome = outcome]
              /\ agent[c].told # <<>> =>
                   LET status == LastStatus(agent[c].told) IN
                   /\ outcome = "pending_approval" => status = "pending_approval"
                   /\ outcome \in {"resolved", "escalated"} =>
                        status \in {"executed", "duplicate"}
                   /\ outcome = "rejected" => status \in Rejected
  PROVE  TurnOK(c)
<1>1. /\ agent \in [Callers -> RunRecord] /\ agent[c] \in RunRecord
      /\ TypeOK /\ NobodyAnswers /\ CallerOK(c) /\ At(c, "idle")
  BY DEF AgentIInv, AgentTypeOK, RunRecord, AgentAt, AgentPC
<1>2. /\ TypeOK' /\ NobodyAnswers' /\ StoreGrows /\ call' = call /\ audit' = audit
      /\ \A r, e : Backed(r, e) => Backed(r, e)'
  BY <1>1, QuietStep
<1>3. /\ agent[c].run \in Runs
      /\ agent[c].since <= Len(audit[agent[c].run])
      /\ agent[c].told = EntriesSince(agent[c].run, agent[c].since)
      /\ \A i \in DOMAIN agent[c].told : Backed(agent[c].run, agent[c].told[i])
  BY <1>1 DEF CallerOK, RunKnown, StepsInLog, DecisionsBacked, AgentAt
<1>4. ASSUME agent' \in [Callers -> RunRecord],
             \A d \in Callers \ {c} : agent'[d] = agent[d],
             agent'[c].pc \in {"ask", "save"}, agent'[c].run = agent[c].run,
             agent'[c].told = agent[c].told, agent'[c].since = agent[c].since,
             agent'[c].pc = "save" => agent'[c].outcome \in AgentOutcome,
             OutcomeOfLast(c)'
      PROVE  TurnOK(c)
  <2>1. RunKnown(c)'
    BY <1>3, <1>4 DEF RunKnown, AgentAt
  <2>2. StepsInLog(c)'
    BY <1>2, <1>3, <1>4 DEF StepsInLog, EntriesSince
  <2>3. DecisionsBacked(c)'
    BY <1>1, <1>2, <1>3, <1>4 DEF DecisionsBacked, At
  <2> QED
    BY <2>1, <2>2, <2>3, <1>1, <1>2, <1>4 DEF TurnOK, CallerOK, AgentAt, At
<1>5. CASE /\ agent[c].index <= MaxIterations
           /\ agent' = [agent EXCEPT ![c].index = @ + 1]
  <2>i. agent[c].index \in 1..(MaxIterations + 1) /\ MaxIterations \in Nat
    BY <1>1, AgentAssumption DEF RunRecord
  <2>j. agent[c].index <= MaxIterations
    BY <1>5
  <2>1. agent[c].index + 1 \in 1..(MaxIterations + 1)
    BY <2>i, <2>j
  <2> DEFINE next == [agent[c] EXCEPT !.index = agent[c].index + 1]
  <2>a. next \in RunRecord
    BY <2>1, <1>1 DEF RunRecord
  <2>b. agent' = [agent EXCEPT ![c] = next]
    BY <1>5, <1>1
  <2> HIDE DEF next
  <2>2. /\ agent' \in [Callers -> RunRecord] /\ agent'[c] = next
        /\ \A d \in Callers \ {c} : agent'[d] = agent[d]
    BY <2>a, <2>b, <1>1
  <2> USE DEF next
  <2>3. /\ agent'[c].pc = "ask" /\ agent'[c].run = agent[c].run
        /\ agent'[c].told = agent[c].told /\ agent'[c].since = agent[c].since
    BY <2>2, <1>1 DEF RunRecord, AgentAt
  <2> QED
    BY <2>2, <2>3, <1>4 DEF OutcomeOfLast
<1>6. ASSUME NEW outcome \in AgentOutcome,
             agent' = [agent EXCEPT ![c].pc = "save", ![c].outcome = outcome],
             agent[c].told # <<>> =>
               LET status == LastStatus(agent[c].told) IN
               /\ outcome = "pending_approval" => status = "pending_approval"
               /\ outcome \in {"resolved", "escalated"} =>
                    status \in {"executed", "duplicate"}
               /\ outcome = "rejected" => status \in Rejected
      PROVE  TurnOK(c)
  <2>1. /\ agent' \in [Callers -> RunRecord]
        /\ agent'[c] = [agent[c] EXCEPT !.pc = "save", !.outcome = outcome]
        /\ \A d \in Callers \ {c} : agent'[d] = agent[d]
    BY <1>6, <1>1 DEF RunRecord, AgentPC
  <2>2. /\ agent'[c].pc = "save" /\ agent'[c].run = agent[c].run
        /\ agent'[c].told = agent[c].told /\ agent'[c].since = agent[c].since
        /\ agent'[c].outcome = outcome
    BY <2>1, <1>1 DEF RunRecord
  <2>3. OutcomeOfLast(c)'
    BY <2>2, <1>6 DEF OutcomeOfLast
  <2> QED
    BY <2>1, <2>2, <2>3, <1>4
<1> QED
  BY <1>5, <1>6

\* The outcome a run concludes with is one of its last effect.
LEMMA FinalOutcome ==
  ASSUME NEW told, NEW resolution
  PROVE  LET outcome == _final_outcome(told, resolution)
             status  == LastStatus(told)
         IN  /\ outcome \in AgentOutcome
             /\ outcome = "pending_approval" => status = "pending_approval"
             /\ outcome \in {"resolved", "escalated"} =>
                  status # "pending_approval" /\ status \notin Rejected
             /\ outcome = "rejected" => status \in Rejected
BY DEF _final_outcome, AgentOutcome

LEMMA ToldType ==
  ASSUME AgentIInv, NEW c \in Callers, agent[c].told # <<>>
  PROVE  /\ agent[c].told \in Seq(Told)
         /\ Len(agent[c].told) \in DOMAIN agent[c].told
         /\ Last(agent[c].told) = agent[c].told[Len(agent[c].told)]
         /\ LastStatus(agent[c].told) = Last(agent[c].told).decision
         /\ LastAction(agent[c].told) = Last(agent[c].told).action
         /\ Last(agent[c].told) \in Told
<1>1. agent[c].told \in Seq(Told)
  BY DEF AgentIInv, AgentTypeOK
<1>2. Len(agent[c].told) \in 1..Len(agent[c].told)
  BY <1>1, EmptySeq, LenProperties
<1>3. agent[c].told[Len(agent[c].told)] \in Told
  BY <1>1, <1>2, ElementOfSeq
<1>4. Last(agent[c].told) = agent[c].told[Len(agent[c].told)]
  BY Zenon DEF Last
<1>5. /\ LastStatus(agent[c].told) = Last(agent[c].told).decision
      /\ LastAction(agent[c].told) = Last(agent[c].told).action
  BY DEF LastStatus, LastAction
<1>6. DOMAIN agent[c].told = 1..Len(agent[c].told)
  BY <1>1, LenProperties
<1> QED
  BY <1>1, <1>2, <1>3, <1>4, <1>5, <1>6

LEMMA LoopActions ==
  ASSUME AgentIInv, NEW c \in Callers,
         \/ ReachesLimit(c) \/ TimesOut(c) \/ Malformed(c) \/ OnlyObserves(c)
         \/ \E resolution \in {None, "escalate_to_human"} : Final(c, resolution)
  PROVE  TurnOK(c)
<1> USE DEF Asks, Concludes, AgentOutcome
<1>1. CASE ReachesLimit(c)
  BY <1>1, LoopTurn DEF ReachesLimit
<1>2. CASE TimesOut(c)
  BY <1>2, LoopTurn DEF TimesOut
<1>3. CASE Malformed(c)
  BY <1>3, LoopTurn DEF Malformed
<1>4. CASE OnlyObserves(c)
  BY <1>4, LoopTurn DEF OnlyObserves
<1>5. ASSUME NEW resolution \in {None, "escalate_to_human"}, Final(c, resolution)
      PROVE  TurnOK(c)
  <2> DEFINE outcome == _final_outcome(agent[c].told, resolution)
             status  == LastStatus(agent[c].told)
  <2>1. /\ outcome \in AgentOutcome
        /\ outcome = "pending_approval" => status = "pending_approval"
        /\ outcome \in {"resolved", "escalated"} =>
             status # "pending_approval" /\ status \notin Rejected
        /\ outcome = "rejected" => status \in Rejected
    BY FinalOutcome
  <2>2. agent[c].told # <<>> => status \in ExecutionStatus
    BY ToldType DEF Told
  <2>3. agent[c].told # <<>> /\ outcome \in {"resolved", "escalated"} =>
          status \in {"executed", "duplicate"}
    BY <2>1, <2>2 DEF ExecutionStatus, Rejected
  <2>4. /\ AgentAt(c, "ask") /\ UNCHANGED vars
        /\ agent' = [agent EXCEPT ![c].pc = "save", ![c].outcome = outcome]
    BY <1>5 DEF Final
  <2> HIDE DEF outcome
  <2> QED
    BY <2>1, <2>3, <2>4, LoopTurn
<1> QED
  BY <1>1, <1>2, <1>3, <1>4, <1>5

\* A run abandoned leaves an empty record for the ledger.
LEMMA AbandonTurn ==
  ASSUME AgentIInv, NEW c \in Callers, ~AgentAt(c, "idle"), Abandon(c),
         At(c, "idle")', \A d \in Callers \ {c} : call'[d] = call[d],
         TypeOK', NobodyAnswers', StoreGrows
  PROVE  TurnOK(c)
<1>1. /\ agent \in [Callers -> RunRecord] /\ agent[c].run \in Runs
  BY DEF AgentIInv, AgentTypeOK, RunRecord, CallerOK, RunKnown
<1> DEFINE left == [NoRun EXCEPT !.pc = "record", !.run = agent[c].run]
<1>f. NoRun \in RunRecord /\ NoRun.told = <<>>
  BY NoRunType
<1>2. /\ left \in RunRecord /\ left.pc = "record" /\ left.run = agent[c].run
      /\ left.told = <<>>
  BY <1>1, <1>f DEF RunRecord, AgentPC
<1> HIDE DEF left
<1>3. /\ agent' \in [Callers -> RunRecord] /\ agent'[c] = left
      /\ \A d \in Callers \ {c} : agent'[d] = agent[d]
  BY <1>1, <1>2 DEF Abandon, left
<1>4. CallerOK(c)'
  BY <1>1, <1>2, <1>3 DEF CallerOK, RunKnown, StepsInLog, DecisionsBacked,
                          OutcomeOfLast, AgentAt, At
<1> QED
  BY <1>2, <1>3, <1>4 DEF TurnOK, AgentAt

LEMMA AskRaisesTurn ==
  ASSUME AgentIInv, NEW c \in Callers, AskRaises(c)
  PROVE  TurnOK(c)
<1>1. /\ AgentAt(c, "ask") /\ UNCHANGED vars /\ Abandon(c)
      /\ TypeOK /\ NobodyAnswers /\ At(c, "idle")
  BY DEF AskRaises, Asks, AgentIInv, AgentTypeOK, AgentAt
<1>2. TypeOK' /\ NobodyAnswers' /\ StoreGrows /\ call' = call
  BY <1>1, QuietStep
<1>3. At(c, "idle")' /\ ~AgentAt(c, "idle")
  BY <1>1, <1>2 DEF AgentAt, At
<1> QED
  BY <1>1, <1>2, <1>3, AbandonTurn

LEMMA StartTurn ==
  ASSUME AgentIInv, NEW c \in Callers, NEW r \in Runs, StartRun(c, r)
  PROVE  TurnOK(c)
<1>1. /\ agent \in [Callers -> RunRecord] /\ AgentAt(c, "idle") /\ At(c, "idle")
      /\ UNCHANGED vars /\ TypeOK /\ NobodyAnswers /\ audit[r] \in Seq(AuditEntry)
  BY DEF StartRun, AgentIInv, AgentTypeOK, RunRecord, AgentAt, TypeOK, StoreTypeOK
<1>2. /\ TypeOK' /\ NobodyAnswers' /\ StoreGrows /\ call' = call /\ audit' = audit
  BY <1>1, QuietStep
<1> DEFINE begun == [NoRun EXCEPT !.pc = "ask", !.run = r, !.since = Len(audit[r])]
<1>3. Len(audit[r]) \in Nat
  BY <1>1, LenProperties
<1>4. NoRun \in RunRecord /\ NoRun.told = <<>>
  BY NoRunType
<1>5. /\ begun \in RunRecord /\ begun.pc = "ask" /\ begun.run = r
      /\ begun.told = <<>> /\ begun.since = Len(audit[r])
  BY <1>3, <1>4 DEF RunRecord, AgentPC
<1> HIDE DEF begun
<1>6. /\ agent' \in [Callers -> RunRecord] /\ agent'[c] = begun
      /\ \A d \in Callers \ {c} : agent'[d] = agent[d]
  BY <1>1, <1>5 DEF StartRun, begun
<1>7. SubSeq(audit[r], Len(audit[r]) + 1, Len(audit[r])) = <<>>
  BY <1>3, SubSeqEmpty
<1>s. /\ agent'[c].run = r /\ agent'[c].told = <<>>
      /\ agent'[c].since = Len(audit[r]) /\ audit'[r] = audit[r]
  BY <1>2, <1>5, <1>6
<1>t. agent'[c].told = EntriesSince(agent[c].run, agent[c].since)'
  BY Zenon, <1>s, <1>7 DEF EntriesSince
<1>u. agent'[c].since <= Len(audit'[agent'[c].run])
  BY <1>3, <1>s
<1>8. StepsInLog(c)'
  BY <1>t, <1>u DEF StepsInLog
<1>9. CallerOK(c)'
  BY <1>1, <1>2, <1>5, <1>6, <1>8 DEF CallerOK, RunKnown, DecisionsBacked,
                                      OutcomeOfLast, AgentAt, At
<1> QED
  BY <1>1, <1>2, <1>5, <1>6, <1>9 DEF TurnOK, AgentAt, At

LEMMA AgentsOneAtATime == AgentIInv => OneAtATime
BY DEF AgentIInv, OneRunAtATime, OneAtATime, AgentTypeOK, AgentAt

\* What a run was told stays borne out while the store grows.
LEMMA ToldKept ==
  ASSUME AgentIInv, TypeOK', StoreGrows, NEW c \in Callers, ~AgentAt(c, "idle"),
         NEW i \in DOMAIN agent[c].told
  PROVE  /\ Backed(agent[c].run, agent[c].told[i])
         /\ \A r, e : r = agent[c].run /\ e = agent[c].told[i] => Backed(r, e)'
<1>1. /\ agent[c].run \in Runs /\ TypeOK
      /\ Backed(agent[c].run, agent[c].told[i])
  BY DEF AgentIInv, AgentTypeOK, CallerOK, RunKnown, DecisionsBacked
<1>2. agent[c].told[i] \in Told
  BY ElementOfSeq, LenProperties DEF AgentIInv, AgentTypeOK
<1> QED
  BY <1>1, <1>2, BackedKept DEF Told

LEMMA CallsEffectTurn ==
  ASSUME AgentIInv, NEW c \in Callers, NEW a \in Actions, CallsEffect(c, a)
  PROVE  TurnOK(c)
<1> DEFINE r == agent[c].run
<1>1. /\ agent \in [Callers -> RunRecord] /\ AgentAt(c, "ask") /\ At(c, "idle")
      /\ TypeOK /\ NobodyAnswers /\ CallerOK(c) /\ Execute(c, r, a)
      /\ a \in Offers[r] /\ agent[c].index <= MaxIterations
  BY DEF CallsEffect, Asks, AgentIInv, AgentTypeOK, RunRecord, AgentAt
<1>2. /\ r \in Runs /\ StepsInLog(c) /\ DecisionsBacked(c)
  BY <1>1 DEF CallerOK, RunKnown, AgentAt
<1>3. TypeOK'
  BY <1>1, <1>2, ExecuteTypeOK
<1>4. UNCHANGED <<results, count, breaker, approvals, audit>>
  BY <1>1 DEF Execute, store
<1>5. NobodyAnswers' /\ StoreGrows
  BY <1>1, <1>4, StoreUntouched DEF NobodyAnswers
<1>6. /\ call'[c].pc = "breaker" /\ call'[c].run = r /\ call'[c].action = a
      /\ \A d \in Callers \ {c} : call'[d] = call[d]
  BY <1>1 DEF Execute, Begin, TypeOK, CallTypeOK
<1>7. /\ agent' \in [Callers -> RunRecord]
      /\ agent'[c] = [agent[c] EXCEPT !.pc = "call"]
      /\ \A d \in Callers \ {c} : agent'[d] = agent[d]
  BY <1>1 DEF CallsEffect, RunRecord, AgentPC
<1>8. /\ agent'[c].pc = "call" /\ agent'[c].run = r
      /\ agent'[c].told = agent[c].told /\ agent'[c].since = agent[c].since
      /\ agent'[c].index = agent[c].index
  BY <1>1, <1>7 DEF RunRecord
<1>9. RunKnown(c)'
  BY <1>1, <1>2, <1>6, <1>8 DEF RunKnown, AgentAt, At, RunOf, ActOf
<1>10. StepsInLog(c)'
  BY <1>1, <1>2, <1>4, <1>8 DEF StepsInLog, EntriesSince, AgentAt
<1>11. DecisionsBacked(c)'
  BY <1>2, <1>4, <1>6, <1>8 DEF DecisionsBacked, At, Backed, BudgetExhausted
<1>12. OutcomeOfLast(c)'
  BY <1>8 DEF OutcomeOfLast
<1> QED
  BY <1>3, <1>5, <1>6, <1>7, <1>8, <1>9, <1>10, <1>11, <1>12
     DEF TurnOK, CallerOK, AgentAt, At

LEMMA CallGoesOnTurn ==
  ASSUME AgentIInv, NEW c \in Callers, CallGoesOn(c)
  PROVE  TurnOK(c)
<1>1. /\ agent \in [Callers -> RunRecord] /\ AgentAt(c, "call") /\ Step(c)
      /\ ~At(c, "audit") /\ agent' = agent
      /\ TypeOK /\ NobodyAnswers /\ CallerOK(c) /\ OneAtATime
  BY AgentsOneAtATime DEF CallGoesOn, agentVars, AgentIInv, AgentTypeOK, RunRecord
<1>2. RunKnown(c) /\ StepsInLog(c) /\ ~AgentAt(c, "idle")
  BY <1>1 DEF CallerOK, AgentAt
<1>3. /\ TypeOK' /\ \A d \in Callers \ {c} : call'[d] = call[d]
  BY <1>1, StepTypeOK, StepFrame
<1>4. /\ StoreGrows /\ NobodyAnswers'
      /\ ~At(c, "approve")' /\ (At(c, "enqueue")' => NeedsApproval(ActOf(c)))
      /\ UNCHANGED audit /\ ~At(c, "idle")'
      /\ RunOf(c)' = RunOf(c) /\ ActOf(c)' = ActOf(c)
      /\ At(c, "audit")' => Backed(RunOf(c), Decided(c))'
  BY <1>1, <1>2, CallStep
<1>5. RunKnown(c)'
  BY <1>1, <1>2, <1>4 DEF RunKnown, AgentAt
<1>6. StepsInLog(c)'
  BY <1>1, <1>2, <1>4 DEF StepsInLog, EntriesSince
<1>7. \A i \in DOMAIN agent[c].told :
        \A r, e : r = agent[c].run /\ e = agent[c].told[i] => Backed(r, e)'
  BY <1>2, <1>3, <1>4, ToldKept
<1>8. DecisionsBacked(c)'
  BY <1>1, <1>4, <1>7 DEF DecisionsBacked
<1>9. OutcomeOfLast(c)'
  BY <1>1 DEF OutcomeOfLast, AgentAt
<1> QED
  BY <1>1, <1>3, <1>4, <1>5, <1>6, <1>8, <1>9 DEF TurnOK, CallerOK, AgentAt

LEMMA EffectReturnsTurn ==
  ASSUME AgentIInv, NEW c \in Callers, EffectReturns(c)
  PROVE  TurnOK(c)
<1> DEFINE r == agent[c].run
           said == Decided(c)
<1>1. /\ agent \in [Callers -> RunRecord] /\ AgentAt(c, "call") /\ At(c, "audit")
      /\ Step(c) /\ AppendAudit(c) /\ call[c].decision # "error"
      /\ TypeOK /\ NobodyAnswers /\ CallerOK(c) /\ OneAtATime
  BY AgentsOneAtATime DEF EffectReturns, AppendAudit, Step, AgentIInv, AgentTypeOK,
                          RunRecord
<1>2. /\ RunKnown(c) /\ StepsInLog(c) /\ DecisionsBacked(c) /\ ~AgentAt(c, "idle")
  BY <1>1 DEF CallerOK, AgentAt
<1>3. /\ r \in Runs /\ RunOf(c) = r /\ agent[c].index <= MaxIterations
      /\ agent[c].since <= Len(audit[r]) /\ agent[c].told = EntriesSince(r, agent[c].since)
      /\ Backed(r, said)
  BY <1>1, <1>2 DEF RunKnown, StepsInLog, DecisionsBacked, AgentAt
<1>4. /\ TypeOK' /\ (\A d \in Callers \ {c} : call'[d] = call[d])
      /\ StoreGrows /\ NobodyAnswers'
  BY <1>1, <1>2, StepTypeOK, StepFrame, CallStep
<1>5. call'[c].pc = "idle"
  BY <1>1 DEF AppendAudit, Return, Idle, TypeOK, CallTypeOK
<1>6. /\ said \in AuditEntry /\ said \in Told /\ said.action \in Actions
  BY <1>1 DEF At, Decided, TypeOK, CallTypeOK, AuditEntry, Told, Decisions, ActOf
<1>7. /\ audit \in [Runs -> Seq(AuditEntry)] /\ audit[r] \in Seq(AuditEntry)
      /\ audit' = [audit EXCEPT ![r] = Append(audit[r], said)]
  BY <1>1, <1>3 DEF AppendAudit, TypeOK, StoreTypeOK, Decided
<1>8. audit'[r] = Append(audit[r], said)
  BY <1>3, <1>7
<1>9. /\ agent[c].told \in Seq(Told) /\ agent[c].since \in Nat
      /\ agent[c].index \in 1..(MaxIterations + 1) /\ Len(audit[r]) \in Nat
  BY <1>1, <1>7, LenProperties DEF RunRecord
<1> DEFINE longer == Append(agent[c].told, said)
           next == [agent[c] EXCEPT !.pc = "ask", !.index = agent[c].index + 1,
                                    !.told = longer]
<1>10. /\ longer \in Seq(Told) /\ agent[c].index + 1 \in 1..(MaxIterations + 1)
  BY <1>3, <1>6, <1>9, AppendTypes, AgentAssumption
<1>11. agent' = [agent EXCEPT ![c] = next]
  BY <1>1 DEF EffectReturns, Decided
<1> HIDE DEF longer, said
<1>12. /\ next \in RunRecord /\ next.pc = "ask" /\ next.run = r
       /\ next.told = longer /\ next.since = agent[c].since
  BY <1>1, <1>10 DEF RunRecord, AgentPC
<1> HIDE DEF next
<1>13. /\ agent' \in [Callers -> RunRecord] /\ agent'[c] = next
       /\ \A d \in Callers \ {c} : agent'[d] = agent[d]
  BY <1>1, <1>11, <1>12
<1>14. /\ Len(audit'[r]) = Len(audit[r]) + 1
       /\ SubSeq(audit'[r], agent[c].since + 1, Len(audit'[r])) = longer
  <2>1. agent[c].since \in 0..Len(audit[r])
    BY <1>3, <1>9
  <2>2. SubSeq(Append(audit[r], said), agent[c].since + 1, Len(Append(audit[r], said)))
          = Append(SubSeq(audit[r], agent[c].since + 1, Len(audit[r])), said)
    BY <2>1, <1>6, <1>7, EndGrows
  <2>3. longer = Append(SubSeq(audit[r], agent[c].since + 1, Len(audit[r])), said)
    BY <1>3 DEF longer, EntriesSince
  <2>4. Len(Append(audit[r], said)) = Len(audit[r]) + 1
    BY <1>6, <1>7, AppendTypes
  <2> QED
    BY Zenon, <2>2, <2>3, <2>4, <1>8
<1>n. /\ agent'[c].pc = "ask" /\ agent'[c].run = r /\ agent'[c].told = longer
      /\ agent'[c].since = agent[c].since
  BY <1>12, <1>13
<1>15. StepsInLog(c)'
  BY <1>3, <1>9, <1>n, <1>14 DEF StepsInLog, EntriesSince
<1>16. RunKnown(c)'
  BY <1>3, <1>12, <1>13 DEF RunKnown, AgentAt
<1>17. DecisionsBacked(c)'
  <2>1. ASSUME NEW q, NEW i \in DOMAIN longer, NEW e, q = r, e = longer[i]
        PROVE  Backed(q, e)'
    <3>1. /\ DOMAIN longer = 1..(Len(agent[c].told) + 1)
          /\ DOMAIN agent[c].told = 1..Len(agent[c].told)
          /\ Len(agent[c].told) \in Nat
          /\ \A j \in DOMAIN agent[c].told : longer[j] = agent[c].told[j]
          /\ longer[Len(agent[c].told) + 1] = said
      BY <1>6, <1>9, AppendTypes DEF longer
    <3>2. CASE i \in DOMAIN agent[c].told
      BY <3>1, <3>2, <2>1, <1>2, <1>4, ToldKept
    <3>3. CASE i = Len(agent[c].told) + 1
      <4>1. e = said /\ q \in Runs /\ Backed(q, e) /\ TypeOK
        BY <3>1, <3>3, <2>1, <1>1, <1>3
      <4> QED
        BY <4>1, <1>4, <1>6, BackedKept
    <3> QED
      BY <3>1, <3>2, <3>3
  <2>2. \A i \in DOMAIN agent'[c].told : Backed(agent[c].run, agent[c].told[i])'
    BY <2>1, <1>n
  <2> QED
    BY <2>2, <1>5 DEF DecisionsBacked, At
<1>18. OutcomeOfLast(c)'
  BY <1>12, <1>13 DEF OutcomeOfLast
<1> QED
  BY <1>4, <1>5, <1>12, <1>13, <1>15, <1>16, <1>17, <1>18
     DEF TurnOK, CallerOK, AgentAt, At

LEMMA EffectRaisesTurn ==
  ASSUME AgentIInv, NEW c \in Callers, EffectRaises(c)
  PROVE  TurnOK(c)
<1>1. /\ AgentAt(c, "call") /\ Step(c) /\ AppendAudit(c) /\ Abandon(c)
      /\ TypeOK /\ NobodyAnswers /\ CallerOK(c) /\ OneAtATime
  BY AgentsOneAtATime DEF EffectRaises, Step, AgentIInv, AgentTypeOK
<1>2. RunKnown(c) /\ ~AgentAt(c, "idle")
  BY <1>1 DEF CallerOK, AgentAt
<1>3. /\ TypeOK' /\ (\A d \in Callers \ {c} : call'[d] = call[d])
      /\ StoreGrows /\ NobodyAnswers'
  BY <1>1, <1>2, StepTypeOK, StepFrame, CallStep
<1>4. At(c, "idle")'
  BY <1>1 DEF AppendAudit, Return, Idle, TypeOK, CallTypeOK, At
<1> QED
  BY <1>1, <1>2, <1>3, <1>4, AbandonTurn

LEMMA SaveTurn ==
  ASSUME AgentIInv, NEW c \in Callers, SaveTrajectory(c)
  PROVE  TurnOK(c)
<1>1. /\ agent \in [Callers -> RunRecord] /\ AgentAt(c, "save") /\ At(c, "idle")
      /\ UNCHANGED vars /\ TypeOK /\ NobodyAnswers /\ CallerOK(c)
      /\ agent' = [agent EXCEPT ![c].pc = "record"]
  BY DEF SaveTrajectory, AgentIInv, AgentTypeOK, RunRecord, AgentAt
<1>2. /\ TypeOK' /\ NobodyAnswers' /\ StoreGrows /\ call' = call
      /\ \A r, e : Backed(r, e) => Backed(r, e)'
  BY <1>1, QuietStep
<1>3. /\ agent' \in [Callers -> RunRecord]
      /\ agent'[c] = [agent[c] EXCEPT !.pc = "record"]
      /\ \A d \in Callers \ {c} : agent'[d] = agent[d]
  BY <1>1 DEF RunRecord, AgentPC
<1>4. /\ agent'[c].pc = "record" /\ agent'[c].run = agent[c].run
      /\ agent'[c].told = agent[c].told /\ agent'[c].outcome = agent[c].outcome
  BY <1>1, <1>3 DEF RunRecord
<1>5. RunKnown(c)' /\ StepsInLog(c)'
  BY <1>1, <1>4 DEF CallerOK, RunKnown, StepsInLog, AgentAt
<1>6. DecisionsBacked(c)'
  BY <1>1, <1>2, <1>4 DEF CallerOK, DecisionsBacked, At
<1>7. OutcomeOfLast(c)'
  BY <1>1, <1>4 DEF CallerOK, OutcomeOfLast, AgentAt
<1> QED
  BY <1>1, <1>2, <1>3, <1>4, <1>5, <1>6, <1>7 DEF TurnOK, CallerOK, AgentAt, At

LEMMA RecordTurn ==
  ASSUME AgentIInv, NEW c \in Callers, RecordLedger(c)
  PROVE  TurnOK(c)
<1>1. /\ agent \in [Callers -> RunRecord] /\ AgentAt(c, "record") /\ At(c, "idle")
      /\ UNCHANGED vars /\ TypeOK /\ NobodyAnswers
      /\ agent' = [agent EXCEPT ![c] = NoRun]
  BY DEF RecordLedger, AgentIInv, AgentTypeOK, RunRecord, AgentAt
<1>2. TypeOK' /\ NobodyAnswers' /\ StoreGrows /\ call' = call
  BY <1>1, QuietStep
<1>3. /\ agent' \in [Callers -> RunRecord] /\ agent'[c] = NoRun
      /\ \A d \in Callers \ {c} : agent'[d] = agent[d]
  BY <1>1, NoRunType
<1>4. At(c, "idle")' /\ (agent[c] = NoRun)'
  BY <1>1, <1>2, <1>3 DEF At
<1>5. CallerOK(c)'
  BY <1>4, IdleCallerOK, PTL
<1> QED
  BY <1>1, <1>2, <1>3, <1>4, <1>5, NoRunType DEF TurnOK, AgentAt, At

\* Every step of a caller, by which of the variables it moves.
LEMMA EveryTurn ==
  ASSUME AgentIInv, NEW c \in Callers,
         AgentStep(c) \/ \E r \in Runs : StartRun(c, r)
  PROVE  TurnOK(c)
BY LoopActions, AskRaisesTurn, CallsEffectTurn, CallGoesOnTurn,
   EffectReturnsTurn, EffectRaisesTurn, SaveTurn, RecordTurn, StartTurn
   DEF AgentStep

LEMMA TurnFrame ==
  ASSUME AgentIInv, NEW c \in Callers,
         AgentStep(c) \/ \E r \in Runs : StartRun(c, r)
  PROVE  /\ \A d \in Callers \ {c} : AgentAt(d, "idle")
         /\ ~AgentAt(c, "idle") \/ \E r \in Runs : StartRun(c, r)
<1>1. ASSUME AgentStep(c) PROVE ~AgentAt(c, "idle")
  BY <1>1 DEF AgentStep, ReachesLimit, TimesOut, Malformed, AskRaises, Final,
              OnlyObserves, CallsEffect, CallGoesOn, EffectReturns, EffectRaises,
              SaveTrajectory, RecordLedger, Asks, AgentAt
<1>2. ASSUME NEW r \in Runs, StartRun(c, r) PROVE \A d \in Callers : AgentAt(d, "idle")
  BY <1>2 DEF StartRun
<1> QED
  BY <1>1, <1>2, OthersIdle

LEMMA CallersStep ==
  ASSUME AgentIInv, NEW c \in Callers,
         AgentStep(c) \/ \E r \in Runs : StartRun(c, r)
  PROVE  /\ agent' \in [Callers -> RunRecord] /\ TypeOK' /\ NobodyAnswers'
         /\ StoreGrows /\ OneRunAtATime'
         /\ \A d \in Callers : CallerOK(d)' /\ (AgentAt(d, "call") <=> ~At(d, "idle"))'
<1>1. TurnOK(c)
  BY EveryTurn
<1>2. \A d \in Callers \ {c} : AgentAt(d, "idle")
  BY TurnFrame
<1>3. ASSUME NEW d \in Callers \ {c}
      PROVE  agent'[d] = NoRun /\ At(d, "idle")' /\ agent'[d].pc = "idle"
  <2>1. agent[d] = NoRun /\ At(d, "idle")
    BY <1>2 DEF AgentIInv, AgentTypeOK, CallerOK, RunKnown, AgentAt
  <2> QED
    BY <2>1, <1>1, NoRunType DEF TurnOK, At
<1>4. OneRunAtATime'
  BY <1>3 DEF OneRunAtATime, AgentAt
<1>5. ASSUME NEW d \in Callers \ {c} PROVE CallerOK(d)'
  <2>1. /\ agent'[d] = NoRun /\ agent'[d].pc = "idle" /\ agent'[d].told = <<>>
        /\ call'[d].pc = "idle"
    BY <1>3, NoRunType DEF At
  <2> QED
    BY <2>1 DEF CallerOK, RunKnown, StepsInLog, DecisionsBacked, OutcomeOfLast,
                AgentAt, At
<1> QED
  BY <1>1, <1>3, <1>4, <1>5 DEF TurnOK, AgentAt

-----------------------------------------------------------------------------
(* What the runs leave behind: trajectories and ledger rows *)

TrajectoryRow == [run: Runs, outcome: AgentOutcome, told: Seq(Told), since: Nat]
LedgerRow == [run: Runs, outcome: AgentOutcome \cup {"failed"},
              action: Actions \cup {None}, approval: Ids \cup {None}]

\* A trajectory tells a stretch of its payment's log.
Tells(t, log) ==
  /\ t.since + Len(t.told) <= Len(log)
  /\ t.told = SubSeq(log, t.since + 1, t.since + Len(t.told))

SavedTells == \A i \in DOMAIN trajectories : Tells(trajectories[i], audit[trajectories[i].run])

LEMMA SavedTellsSplit ==
  AgentIInv => SavedTells
BY DEF AgentIInv, ToldAsAudited, SavedInLog, SavedTells, Tells

LEMMA TellsOn ==
  ASSUME NEW t \in TrajectoryRow, NEW log \in Seq(AuditEntry), NEW e \in AuditEntry,
         Tells(t, log)
  PROVE  Tells(t, Append(log, e))
<1> DEFINE n == t.since + Len(t.told)
<1>1. /\ t.since \in Nat /\ Len(t.told) \in Nat /\ Len(log) \in Nat
      /\ Len(Append(log, e)) = Len(log) + 1
  BY LenProperties, AppendTypes DEF TrajectoryRow
<1>2. n \in 0..Len(log)
  BY <1>1 DEF Tells
<1>3. SubSeq(Append(log, e), t.since + 1, n) = SubSeq(log, t.since + 1, n)
  BY <1>1, <1>2, StretchKept
<1> QED
  BY <1>1, <1>2, <1>3 DEF Tells

LEMMA LogGrows ==
  ASSUME AgentIInv, NEW c \in Callers,
         AgentStep(c) \/ \E r \in Runs : StartRun(c, r)
  PROVE  \/ audit' = audit
         \/ \E r \in Runs, e \in AuditEntry :
              audit' = [audit EXCEPT ![r] = Append(audit[r], e)]
<1>1. TypeOK
  BY DEF AgentIInv, AgentTypeOK
<1>2. ASSUME AppendAudit(c)
      PROVE  \E r \in Runs, e \in AuditEntry :
               audit' = [audit EXCEPT ![r] = Append(audit[r], e)]
  <2>1. RunOf(c) \in Runs /\ ActOf(c) \in Actions /\ call[c].decision \in Decisions
    BY <1>1, <1>2, CallTypes DEF AppendAudit, At, TypeOK, CallTypeOK
  <2>2. Decided(c) \in AuditEntry
    BY <2>1 DEF Decided, AuditEntry
  <2>3. audit' = [audit EXCEPT ![RunOf(c)] = Append(audit[RunOf(c)], Decided(c))]
    BY <1>2 DEF AppendAudit, Decided
  <2> QED
    BY <2>1, <2>2, <2>3
<1>3. ASSUME CallGoesOn(c) PROVE audit' = audit
  <2>1. RunKnown(c) /\ NobodyAnswers
    BY DEF AgentIInv, CallerOK
  <2> QED
    BY <2>1, <1>1, <1>3, CallStep DEF CallGoesOn
<1> QED
  BY <1>2, <1>3 DEF AgentStep, ReachesLimit, TimesOut, Malformed, AskRaises, Final,
     OnlyObserves, Concludes, CallsEffect, EffectReturns, EffectRaises, Execute,
     SaveTrajectory, RecordLedger, StartRun, vars, store

LEMMA SavedKept ==
  ASSUME AgentIInv, UNCHANGED trajectories,
         \/ audit' = audit
         \/ \E r \in Runs, e \in AuditEntry :
              audit' = [audit EXCEPT ![r] = Append(audit[r], e)]
  PROVE  SavedTells'
<1>1. /\ audit \in [Runs -> Seq(AuditEntry)] /\ trajectories \in Seq(TrajectoryRow)
  BY DEF AgentIInv, AgentTypeOK, TypeOK, StoreTypeOK, TrajectoryRow
<1> SUFFICES ASSUME NEW i \in DOMAIN trajectories
             PROVE  Tells(trajectories[i], audit'[trajectories[i].run])
  BY DEF SavedTells
<1>2. trajectories[i] \in TrajectoryRow
  BY <1>1, ElementOfSeq, LenProperties
<1> DEFINE t == trajectories[i]
<1>3. /\ t \in TrajectoryRow /\ t.run \in Runs /\ audit[t.run] \in Seq(AuditEntry)
      /\ Tells(t, audit[t.run])
  BY <1>1, <1>2, SavedTellsSplit DEF SavedTells, TrajectoryRow
<1> HIDE DEF t
<1>4. ASSUME NEW r \in Runs, NEW e \in AuditEntry,
             audit' = [audit EXCEPT ![r] = Append(audit[r], e)]
      PROVE  Tells(t, audit'[t.run])
  <2>1. audit'[t.run] = audit[t.run] \/ audit'[t.run] = Append(audit[t.run], e)
    BY <1>1, <1>3, <1>4
  <2> QED
    BY <2>1, <1>3, TellsOn
<1> QED
  BY <1>3, <1>4 DEF t

\* The trajectory saved tells what the log gained during the run.
LEMMA SaveTells ==
  ASSUME AgentIInv, NEW c \in Callers, SaveTrajectory(c)
  PROVE  SavedTells' /\ trajectories' \in Seq(TrajectoryRow)
<1> DEFINE g   == agent[c]
           t   == [run |-> g.run, outcome |-> g.outcome, told |-> g.told,
                   since |-> g.since]
           log == audit[g.run]
<1>1. /\ g \in RunRecord /\ g.run \in Runs /\ g.outcome \in AgentOutcome
      /\ g.since <= Len(log) /\ g.told = SubSeq(log, g.since + 1, Len(log))
      /\ g.pc = "save"
  BY DEF SaveTrajectory, AgentIInv, AgentTypeOK, CallerOK, RunKnown, StepsInLog,
         AgentAt, EntriesSince, RunRecord
<1>2. /\ audit \in [Runs -> Seq(AuditEntry)] /\ trajectories \in Seq(TrajectoryRow)
      /\ audit' = audit /\ trajectories' = Append(trajectories, t)
  BY DEF SaveTrajectory, vars, store, AgentIInv, AgentTypeOK, TypeOK, StoreTypeOK,
         TrajectoryRow
<1>3. /\ log \in Seq(AuditEntry) /\ Len(log) \in Nat /\ g.since \in Nat
      /\ g.told \in Seq(Told)
  BY <1>1, <1>2, LenProperties DEF RunRecord
<1>4. t \in TrajectoryRow
  BY <1>1, <1>3 DEF TrajectoryRow
<1>5. Len(g.told) = Len(log) - g.since
  <2>1. Len(SubSeq(log, g.since + 1, Len(log)))
          = IF g.since + 1 <= Len(log) THEN Len(log) - (g.since + 1) + 1 ELSE 0
    <3>1. \A i \in (g.since + 1)..Len(log) : log[i] \in AuditEntry
      BY <1>3, ElementOfSeq
    <3>2. g.since + 1 \in Int /\ Len(log) \in Int
      BY <1>3
    <3> HIDE DEF log, g
    <3> QED
      BY <3>1, <3>2, SubSeqProperties
  <2>2. Len(g.told) = Len(SubSeq(log, g.since + 1, Len(log)))
    BY <1>1
  <2> HIDE DEF log, g
  <2> QED
    BY <2>1, <2>2, <1>1, <1>3
<1>6. Tells(t, log)
  <2>1. t.since = g.since /\ t.told = g.told /\ g.since + Len(g.told) = Len(log)
    BY <1>3, <1>5
  <2> HIDE DEF t, g, log
  <2>2. t.since + Len(t.told) = Len(log)
    BY <2>1
  <2>3. t.told = SubSeq(log, t.since + 1, t.since + Len(t.told))
    BY Zenon, <2>1, <2>2, <1>1
  <2> QED
    BY <2>2, <2>3, <1>3 DEF Tells
<1> HIDE DEF t, log
<1>7. /\ trajectories' \in Seq(TrajectoryRow)
      /\ DOMAIN trajectories' = 1..(Len(trajectories) + 1)
      /\ DOMAIN trajectories = 1..Len(trajectories) /\ Len(trajectories) \in Nat
      /\ \A i \in DOMAIN trajectories : trajectories'[i] = trajectories[i]
      /\ trajectories'[Len(trajectories) + 1] = t
  BY <1>2, <1>4, AppendTypes
<1>8. ASSUME NEW i \in DOMAIN trajectories'
      PROVE  Tells(trajectories'[i], audit'[trajectories'[i].run])
  <2>1. CASE i \in DOMAIN trajectories
    BY <2>1, <1>2, <1>7, SavedTellsSplit DEF SavedTells
  <2>2. CASE i = Len(trajectories) + 1
    <3>1. t.run = g.run
      BY DEF t
    <3> QED
      BY <2>2, <3>1, <1>2, <1>6, <1>7 DEF log
  <2> QED
    BY <2>1, <2>2, <1>7
<1> QED
  BY <1>7, <1>8 DEF SavedTells

\* The store bears a ledger row out.
RowBacked(row) ==
  LET id == <<row.run, row.action.key>> IN
  row.action # None =>
    /\ row.outcome = "pending_approval" => row.approval = id
    /\ row.outcome \in {"resolved", "escalated"} => id \in results
    /\ row.outcome = "rejected" =>
         breaker[row.run] \/ BudgetExhausted(row.run, row.action.subject)

LEMMA OutcomeBackedRows ==
  OutcomeBacked <=> \A i \in DOMAIN ledger : RowBacked(ledger[i])
BY DEF OutcomeBacked, RowBacked

LEMMA RowKept ==
  ASSUME TypeOK, TypeOK', StoreGrows, NEW row \in LedgerRow, RowBacked(row)
  PROVE  RowBacked(row)'
<1> SUFFICES ASSUME row.action # None PROVE RowBacked(row)'
  BY DEF RowBacked
<1>1. row.run \in Runs /\ row.action \in Actions
  BY DEF LedgerRow
<1>2. <<row.run, row.action.subject>> \in Runs \X Subjects
  BY <1>1, ConfigAssumption
<1>3. BudgetExhausted(row.run, row.action.subject)
        => BudgetExhausted(row.run, row.action.subject)'
  BY <1>2, ConfigAssumption DEF BudgetExhausted, StoreGrows, TypeOK, StoreTypeOK
<1> QED
  BY <1>1, <1>3 DEF RowBacked, StoreGrows

LEMMA LedgerKept ==
  ASSUME AgentIInv, TypeOK', StoreGrows, UNCHANGED ledger
  PROVE  OutcomeBacked'
<1>1. TypeOK /\ ledger \in Seq(LedgerRow)
  BY DEF AgentIInv, AgentTypeOK, LedgerRow
<1>2. ASSUME NEW i \in DOMAIN ledger PROVE RowBacked(ledger[i])'
  <2> DEFINE row == ledger[i]
  <2>1. PICK q \in LedgerRow : q = row
    BY <1>1, ElementOfSeq, LenProperties
  <2>2. RowBacked(q)
    BY <2>1, OutcomeBackedRows DEF AgentIInv
  <2>3. RowBacked(q)'
    BY <2>2, <1>1, RowKept
  <2>4. (ledger[i])' = q
    BY <2>1
  <2> QED
    BY <2>3, <2>4 DEF RowBacked
<1> QED
  BY <1>2 DEF OutcomeBacked, RowBacked

\* What a run is held for is the one record pending of its payment: only the
\* refund needs approval.
LEMMA OnePending ==
  ASSUME TypeOK, NobodyAnswers, NEW p \in Ids, NEW q \in Ids, p[1] = q[1],
         approvals[p].state = "pending", approvals[q].state = "pending"
  PROVE  p = q
<1>1. approvals[p] # NoApproval /\ approvals[q] # NoApproval
  BY DEF NoApproval
<1>2. PICK a \in Offers[p[1]] : a.key = p[2] /\ NeedsApproval(a)
  BY <1>1 DEF NobodyAnswers
<1>3. PICK b \in Offers[q[1]] : b.key = q[2] /\ NeedsApproval(b)
  BY <1>1 DEF NobodyAnswers
<1>4. p[1] \in Runs /\ p = <<p[1], p[2]>> /\ q = <<q[1], q[2]>>
  BY DEF Ids
<1>5. a.key = b.key
  BY <1>2, <1>3, <1>4, RefundAssumption
<1> QED
  BY <1>2, <1>3, <1>4, <1>5

LEMMA RecordRow ==
  ASSUME AgentIInv, NEW c \in Callers, AgentAt(c, "record"), NEW approval,
         approval \in IF agent[c].outcome = "pending_approval"
                         /\ PendingOf(agent[c].run) # {}
                      THEN PendingOf(agent[c].run) ELSE {None},
         NEW row,
         row = [run |-> agent[c].run, approval |-> approval,
                action |-> LastAction(agent[c].told),
                outcome |-> IF agent[c].outcome = None THEN "failed"
                            ELSE agent[c].outcome]
  PROVE  row \in LedgerRow /\ RowBacked(row)
<1> DEFINE g == agent[c]
           last == Last(g.told)
           id == <<g.run, last.action.key>>
<1>1. /\ g \in RunRecord /\ g.run \in Runs /\ g.pc = "record"
      /\ TypeOK /\ NobodyAnswers /\ OutcomeOfLast(c) /\ DecisionsBacked(c)
  BY DEF AgentIInv, AgentTypeOK, RunRecord, CallerOK, RunKnown, AgentAt
<1>2. g.told # <<>> =>
        /\ last \in Told /\ LastAction(g.told) = last.action
        /\ LastStatus(g.told) = last.decision /\ Backed(g.run, last)
  BY <1>1, ToldType DEF DecisionsBacked
<1>3. g.told = <<>> => LastAction(g.told) = None
  BY DEF LastAction
<1>4. LastAction(g.told) \in Actions \cup {None}
  BY <1>2, <1>3 DEF Told
<1>5. approval \in Ids \cup {None}
  BY DEF PendingOf
<1>6. row \in LedgerRow
  BY <1>1, <1>4, <1>5 DEF RunRecord, LedgerRow
<1>7. RowBacked(row)
  <2> SUFFICES ASSUME row.action # None PROVE RowBacked(row)
    BY DEF RowBacked
  <2>1. g.told # <<>>
    BY <1>3
  <2>2. /\ last \in Told /\ row.action = last.action /\ row.run = g.run
        /\ row.approval = approval /\ Backed(g.run, last)
        /\ row.outcome = IF g.outcome = None THEN "failed" ELSE g.outcome
    BY <2>1, <1>2
  <2>3. /\ g.outcome = "pending_approval" => last.decision = "pending_approval"
        /\ g.outcome \in {"resolved", "escalated"} =>
             last.decision \in {"executed", "duplicate"}
        /\ g.outcome = "rejected" => last.decision \in Rejected
    BY <2>1, <1>1, <1>2 DEF OutcomeOfLast
  <2>4. id \in Ids /\ id[1] = g.run
    BY <2>2, <1>1, ConfigAssumption DEF Ids, Told
  <2>5. ASSUME row.outcome = "pending_approval" PROVE row.approval = id
    <3>1. g.outcome = "pending_approval"
      BY <2>5, <2>2
    <3>2. approvals[id].state = "pending"
      BY <3>1, <2>2, <2>3 DEF Backed
    <3>3. id \in PendingOf(g.run)
      BY <3>2, <2>4 DEF PendingOf
    <3>4. approval \in PendingOf(g.run)
      BY <3>1, <3>3
    <3>5. approval \in Ids /\ approval[1] = g.run /\ approvals[approval].state = "pending"
      BY <3>4 DEF PendingOf
    <3> QED
      BY <3>2, <3>5, <2>2, <2>4, <1>1, OnePending
  <2>6. row.outcome \in {"resolved", "escalated"} => id \in results
    BY <2>2, <2>3 DEF Backed
  <2>7. row.outcome = "rejected" =>
          breaker[g.run] \/ BudgetExhausted(g.run, last.action.subject)
    BY <2>2, <2>3 DEF Backed
  <2> QED
    BY <2>2, <2>5, <2>6, <2>7 DEF RowBacked
<1> QED
  BY <1>6, <1>7

LEMMA RecordKeeps ==
  ASSUME AgentIInv, NEW c \in Callers, RecordLedger(c)
  PROVE  OutcomeBacked' /\ ledger' \in Seq(LedgerRow)
<1>1. /\ ledger \in Seq(LedgerRow) /\ UNCHANGED vars /\ AgentAt(c, "record")
  BY DEF RecordLedger, AgentIInv, AgentTypeOK, LedgerRow
<1>2. PICK row \in LedgerRow : RowBacked(row) /\ ledger' = Append(ledger, row)
  BY RecordRow DEF RecordLedger
<1>3. /\ ledger' \in Seq(LedgerRow)
      /\ DOMAIN ledger' = 1..(Len(ledger) + 1) /\ DOMAIN ledger = 1..Len(ledger)
      /\ Len(ledger) \in Nat
      /\ \A i \in DOMAIN ledger : ledger'[i] = ledger[i]
      /\ ledger'[Len(ledger) + 1] = row
  BY <1>1, <1>2, AppendTypes
<1>4. ASSUME NEW i \in DOMAIN ledger' PROVE RowBacked(ledger'[i])
  <2>1. CASE i \in DOMAIN ledger
    BY <2>1, <1>3, OutcomeBackedRows DEF AgentIInv
  <2>2. CASE i = Len(ledger) + 1
    BY <2>2, <1>2, <1>3
  <2> QED
    BY <2>1, <2>2, <1>3
<1>5. results' = results /\ breaker' = breaker /\ count' = count
  BY <1>1 DEF vars, store
<1> QED
  BY <1>3, <1>4, <1>5 DEF OutcomeBacked, RowBacked, BudgetExhausted

-----------------------------------------------------------------------------
(* The invariant *)

LEMMA TurnKeepsRows ==
  ASSUME AgentIInv, NEW c \in Callers,
         AgentStep(c) \/ \E r \in Runs : StartRun(c, r)
  PROVE  /\ SavedTells' /\ OutcomeBacked' /\ runs' \in 0..MaxRuns
         /\ trajectories' \in Seq(TrajectoryRow) /\ ledger' \in Seq(LedgerRow)
<1>1. /\ trajectories \in Seq(TrajectoryRow) /\ ledger \in Seq(LedgerRow)
      /\ runs \in 0..MaxRuns
  BY DEF AgentIInv, AgentTypeOK, TrajectoryRow, LedgerRow
<1>2. TypeOK' /\ StoreGrows
  BY CallersStep
<1>3. UNCHANGED trajectories \/ SaveTrajectory(c)
  BY DEF AgentStep, ReachesLimit, TimesOut, Malformed, AskRaises, Final,
     OnlyObserves, Concludes, CallsEffect, CallGoesOn, agentVars, EffectReturns,
     EffectRaises, RecordLedger, StartRun
<1>4. UNCHANGED ledger \/ RecordLedger(c)
  BY DEF AgentStep, ReachesLimit, TimesOut, Malformed, AskRaises, Final,
     OnlyObserves, Concludes, CallsEffect, CallGoesOn, agentVars, EffectReturns,
     EffectRaises, SaveTrajectory, StartRun
<1>5. UNCHANGED runs \/ (runs < MaxRuns /\ runs' = runs + 1)
  BY DEF AgentStep, ReachesLimit, TimesOut, Malformed, AskRaises, Final,
     OnlyObserves, Concludes, CallsEffect, CallGoesOn, agentVars, EffectReturns,
     EffectRaises, SaveTrajectory, RecordLedger, StartRun
<1>6. SavedTells' /\ trajectories' \in Seq(TrajectoryRow)
  BY <1>1, <1>3, LogGrows, SavedKept, SaveTells
<1>7. OutcomeBacked' /\ ledger' \in Seq(LedgerRow)
  BY <1>1, <1>2, <1>4, LedgerKept, RecordKeeps
<1>8. runs' \in 0..MaxRuns
  BY <1>1, <1>5, AgentAssumption
<1> QED
  BY <1>6, <1>7, <1>8

LEMMA InvariantParts ==
  ASSUME TypeOK, agent \in [Callers -> RunRecord], OneRunAtATime, NobodyAnswers,
         \A c \in Callers : CallerOK(c) /\ (AgentAt(c, "call") <=> ~At(c, "idle")),
         SavedTells, OutcomeBacked, runs \in 0..MaxRuns,
         trajectories \in Seq(TrajectoryRow), ledger \in Seq(LedgerRow)
  PROVE  AgentIInv
<1>1. AgentTypeOK
  BY DEF AgentTypeOK, RunRecord, TrajectoryRow, LedgerRow
<1>2. ToldAsAudited /\ SavedInLog
  BY DEF ToldAsAudited, SavedInLog, SavedTells, Tells, CallerOK, StepsInLog
<1> QED
  BY <1>1, <1>2 DEF AgentIInv

LEMMA TurnIInv ==
  ASSUME AgentIInv, NEW c \in Callers,
         AgentStep(c) \/ \E r \in Runs : StartRun(c, r)
  PROVE  AgentIInv'
<1>1. /\ agent' \in [Callers -> RunRecord] /\ TypeOK' /\ NobodyAnswers'
      /\ OneRunAtATime'
      /\ (\A d \in Callers : CallerOK(d) /\ (AgentAt(d, "call") <=> ~At(d, "idle")))'
  BY CallersStep
<1>2. /\ SavedTells' /\ OutcomeBacked' /\ runs' \in 0..MaxRuns
      /\ trajectories' \in Seq(TrajectoryRow) /\ ledger' \in Seq(LedgerRow)
  BY TurnKeepsRows
<1>3. AgentTypeOK'
  BY <1>1, <1>2 DEF AgentTypeOK, RunRecord, TrajectoryRow, LedgerRow
<1>4. ToldAsAudited' /\ SavedInLog'
  BY <1>1, <1>2 DEF ToldAsAudited, SavedInLog, SavedTells, Tells, CallerOK,
                    StepsInLog
<1> QED
  BY <1>1, <1>2, <1>3, <1>4 DEF AgentIInv

\* The process dies: every run in progress is forgotten, the store is not.
LEMMA CrashAgentIInv ==
  ASSUME AgentIInv, AgentCrash
  PROVE  AgentIInv'
<1>1. /\ agent' = [d \in Callers |-> NoRun] /\ call' = [d \in Callers |-> Idle]
      /\ UNCHANGED <<store, trajectories, ledger, runs>> /\ TypeOK'
  BY CrashTypeOK DEF AgentCrash, Crash, AgentIInv, AgentTypeOK
<1>2. UNCHANGED <<results, approvals, count, breaker, audit>>
  BY <1>1 DEF store
<1>3. \A d \in Callers : /\ agent'[d] = NoRun /\ agent'[d].pc = "idle"
                         /\ agent'[d].told = <<>> /\ call'[d].pc = "idle"
  BY <1>1, NoRunType DEF Idle
<1>4. \A d \in Callers : CallerOK(d)'
  BY <1>3 DEF CallerOK, RunKnown, StepsInLog, DecisionsBacked, OutcomeOfLast,
              AgentAt, At
<1>5. AgentTypeOK'
  <2>1. agent' \in [Callers -> RunRecord]
    BY <1>1, NoRunType
  <2>2. \A d \in Callers : (AgentAt(d, "call") <=> ~At(d, "idle"))'
    BY <1>3 DEF AgentAt, At
  <2> QED
    BY <2>1, <2>2, <1>1 DEF AgentTypeOK, RunRecord, AgentIInv
<1>6. OneRunAtATime' /\ NobodyAnswers'
  BY <1>2, <1>3 DEF OneRunAtATime, NobodyAnswers, AgentAt, AgentIInv
<1>7. ToldAsAudited' /\ SavedInLog' /\ OutcomeBacked'
  BY <1>1, <1>2, <1>3 DEF AgentIInv, ToldAsAudited, SavedInLog, OutcomeBacked,
                          BudgetExhausted
<1> QED
  BY <1>4, <1>5, <1>6, <1>7 DEF AgentIInv

LEMMA StillAgentIInv ==
  ASSUME AgentIInv, UNCHANGED allVars
  PROVE  AgentIInv'
<1>1. /\ UNCHANGED vars /\ UNCHANGED <<agent, trajectories, ledger, runs>>
      /\ UNCHANGED <<results, approvals, count, breaker, audit, call>>
  BY DEF allVars, agentVars, vars, store
<1>2. TypeOK' /\ NobodyAnswers'
  BY <1>1, QuietStep DEF AgentIInv, AgentTypeOK
<1>3. AgentTypeOK' /\ OneRunAtATime'
  BY <1>1, <1>2 DEF AgentIInv, AgentTypeOK, OneRunAtATime, AgentAt, At
<1>4. \A d \in Callers : CallerOK(d)'
  BY <1>1 DEF AgentIInv, CallerOK, RunKnown, StepsInLog, EntriesSince,
              DecisionsBacked, Decided, Backed, BudgetExhausted, OutcomeOfLast,
              AgentAt, At, RunOf, ActOf
<1>5. ToldAsAudited' /\ SavedInLog' /\ OutcomeBacked'
  BY <1>1 DEF AgentIInv, ToldAsAudited, EntriesSince, SavedInLog, OutcomeBacked,
              BudgetExhausted
<1> QED
  BY <1>2, <1>3, <1>4, <1>5 DEF AgentIInv

LEMMA InitAgentIInv == AgentInit => AgentIInv
<1> SUFFICES ASSUME AgentInit PROVE AgentIInv
  OBVIOUS
<1>1. /\ Init /\ TypeOK /\ agent = [d \in Callers |-> NoRun]
      /\ trajectories = <<>> /\ ledger = <<>> /\ runs = 0
  BY InitTypeOK DEF AgentInit
<1>2. \A d \in Callers : agent[d] = NoRun /\ agent[d].pc = "idle" /\ At(d, "idle")
  BY <1>1, NoRunType DEF Init, Idle, At
<1>3. \A d \in Callers : CallerOK(d) /\ (AgentAt(d, "call") <=> ~At(d, "idle"))
  BY <1>2, IdleCallerOK DEF AgentAt
<1>4. agent \in [Callers -> RunRecord] /\ OneRunAtATime
  BY <1>1, <1>2, NoRunType DEF OneRunAtATime, AgentAt
<1>5. NobodyAnswers
  BY <1>1 DEF Init, NobodyAnswers
<1>6. /\ trajectories \in Seq(TrajectoryRow) /\ ledger \in Seq(LedgerRow)
      /\ runs \in 0..MaxRuns
  BY <1>1, EmptySeq, AgentAssumption
<1>7. SavedTells /\ OutcomeBacked
  BY <1>1 DEF SavedTells, OutcomeBacked
<1> QED
  BY <1>1, <1>3, <1>4, <1>5, <1>6, <1>7, InvariantParts

LEMMA NextAgentIInv == AgentIInv /\ [AgentNext]_allVars => AgentIInv'
BY TurnIInv, CrashAgentIInv, StillAgentIInv DEF AgentNext, AgentRest

-----------------------------------------------------------------------------
(* Theorems *)

\* The invariant behind the properties of agent runs is inductive, for any
\* offers, iteration limit and number of callers (loop.py:104-213).
THEOREM AgentInductive == AgentSpec => []AgentIInv
<1>1. AgentInit => AgentIInv
  BY InitAgentIInv
<1>2. AgentIInv /\ [AgentNext]_allVars => AgentIInv'
  BY NextAgentIInv
<1> QED
  BY <1>1, <1>2, PTL DEF AgentSpec

\* Runs, trajectories and ledger rows keep their types, and only a run inside a
\* call is inside execute.
THEOREM AgentTypesCorrect == AgentSpec => []AgentTypeOK
<1>1. AgentIInv => AgentTypeOK
  BY DEF AgentIInv
<1> QED
  BY <1>1, AgentInductive, PTL

\* The effect steps of every trajectory, growing or saved, are the audit entries
\* its payment gained during the run (loop.py:188-201, executor.py:225-237).
THEOREM StepsToldAsAudited == AgentSpec => []ToldAsAudited
<1>1. AgentIInv => ToldAsAudited
  BY DEF AgentIInv
<1> QED
  BY <1>1, AgentInductive, PTL

\* What a ledger row says of an effect the guard store bears out, whenever it
\* is read and whatever crashed in between (pipeline.py:266-297).
THEOREM OutcomesBackedByStore == AgentSpec => []OutcomeBacked
<1>1. AgentIInv => OutcomeBacked
  BY DEF AgentIInv
<1> QED
  BY <1>1, AgentInductive, PTL

LEMMA AgentTakesExecutorSteps ==
  ASSUME AgentIInv, [AgentNext]_allVars
  PROVE  [Next]_vars
<1>1. ASSUME NEW c \in Callers, AgentStep(c) PROVE [Next]_vars
  <2>1. CASE \E a \in Actions : CallsEffect(c, a)
    <3>1. PICK a \in Actions : Execute(c, agent[c].run, a) /\ AgentAt(c, "ask")
      BY <2>1 DEF CallsEffect, Asks
    <3>2. agent[c].run \in Runs
      BY <3>1 DEF AgentIInv, CallerOK, RunKnown, AgentAt
    <3> QED
      BY <3>1, <3>2 DEF Next
  <2>2. CASE CallGoesOn(c) \/ EffectReturns(c) \/ EffectRaises(c)
    <3>1. Step(c)
      BY <2>2 DEF CallGoesOn, EffectReturns, EffectRaises, Step
    <3> QED
      BY <3>1 DEF Next
  <2> QED
    BY <1>1, <2>1, <2>2 DEF AgentStep, ReachesLimit, TimesOut, Malformed,
       AskRaises, Final, OnlyObserves, Concludes, SaveTrajectory, RecordLedger
<1>2. ASSUME NEW c \in Callers, NEW r \in Runs, StartRun(c, r) PROVE [Next]_vars
  BY <1>2 DEF StartRun
<1>3. CASE AgentCrash
  BY <1>3 DEF AgentCrash, Next
<1>4. CASE UNCHANGED allVars
  BY <1>4 DEF allVars
<1> QED
  BY <1>1, <1>2, <1>3, <1>4 DEF AgentNext, AgentRest

\* An agent run uses the executor as it is specified: whatever the model asks,
\* the guard store sees only behaviours of GuardedExecutor (loop.py:183).
THEOREM AgentUsesExecutor == AgentSpec => Spec
<1>1. AgentInit => Init
  BY DEF AgentInit
<1>2. AgentIInv /\ [AgentNext]_allVars => [Next]_vars
  BY AgentTakesExecutorSteps
<1> QED
  BY <1>1, <1>2, AgentInductive, PTL DEF AgentSpec, Spec

\* Under the pipeline's lock the agent's effects therefore keep the contract of
\* the guard: at most once a key, within the cap, gated and halted.
THEOREM AgentKeepsContract == ASSUME Serialised PROVE AgentSpec => ImplementsContract
BY AgentUsesExecutor, ContractKept

=============================================================================
