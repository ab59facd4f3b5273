-------------------------- MODULE PlaygroundProofs --------------------------
(***************************************************************************)
(* Demo runs, for every set of visitors, payments and amounts and every    *)
(* bound: the limiter and the cache keep their promises in the composition,*)
(* no held amount moves, and the halves of a response are about one run.   *)
(***************************************************************************)
EXTENDS Playground, RateLimiterProofs

-----------------------------------------------------------------------------
(* The inductive invariant *)

\* A request from its row to its answer, the call with the lock and the backlog
\* name stored events, and a request that is to be answered a ledger row.
RowsExist ==
  /\ Len(events) <= MaxEvents
  /\ \A r \in Requests :
       /\ run[r].pc \notin {"idle", "done"} => run[r].scenario \in Scenario
       /\ run[r].pc \in {"before", "wait", "held", "answer"} => run[r].id \in DOMAIN events
       /\ run[r].pc \in {"idle", "seed", "persist"} => run[r].id = 0
       /\ run[r].pc = "answer" => run[r].row \in DOMAIN ledger
  /\ work.pc # "none" => work.id \in DOMAIN events
  /\ drain \subseteq DOMAIN events

Midway == Tools \cup {"ask", "write", "gate", "act", "settle"}

\* An action carries one reading of the amount.
Fixed(a) == a \in Action /\ a.amount = a.cost /\ (a.tool = "refund" => a.amount \in Amounts)

\* A call past its routing has a path and a payment the provider knows; its action is
\* fixed once it is built, and within the threshold once it is past the gate.
CaseKnown ==
  /\ work.pc \in Midway =>
       work.path \in Paths /\ work.amount \in Amounts /\ demo[Payment] \in Amounts
  /\ work.pc = "final" => work.path \in Paths
  /\ work.pc \in {"gate", "act", "settle"} => Fixed(work.action)
  /\ work.pc = "act" => work.action.cost <= Threshold

Own  == TypeOK /\ RowsExist /\ CaseKnown /\ NoHeldAmountMoves
PInv == LimiterInv /\ CacheInv /\ Own

-----------------------------------------------------------------------------
(* The cache *)

LEMMA CacheInitInv == CacheInit => CacheInv
BY DEF CacheInit, CacheInv, CacheTypeOK, ToldAsStored

LEMMA CacheStepInv == CacheInv /\ [CacheNext]_cache => CacheInv'
<1> SUFFICES ASSUME CacheInv, [CacheNext]_cache PROVE CacheInv'
  OBVIOUS
<1> USE DEF CacheInv, CacheTypeOK, ToldAsStored
<1>1. ASSUME NEW p \in Prompts, NEW a \in Answers, Hit(p, a) PROVE CacheInv'
  BY <1>1 DEF Hit, Tell
<1>2. ASSUME NEW p \in Prompts, NEW a \in Answers, MissAnswered(p, a) PROVE CacheInv'
  <2>1. /\ entries' = [entries EXCEPT ![p] = Torn] /\ told' = told
        /\ open' = [prompt |-> p, answer |-> a] /\ entries[p] = Absent
    BY <1>2 DEF MissAnswered, Cached
  <2>2. told[p] = {}
    BY <2>1, CacheAssumption
  <2> QED
    BY <2>1, <2>2
<1>3. CASE WriteDone
  <2>1. /\ open \in [prompt: Prompts, answer: Answers]
        /\ entries' = [entries EXCEPT ![open.prompt] = open.answer]
        /\ told' = [told EXCEPT ![open.prompt] = @ \cup {open.answer}]
        /\ open' = NoWrite /\ entries[open.prompt] = Torn
    BY <1>3 DEF WriteDone, Tell
  <2>2. told[open.prompt] = {}
    BY <2>1, CacheAssumption
  <2> QED
    BY <2>1, <2>2
<1>4. CASE WriteRaises \/ CacheCrash
  BY <1>4 DEF WriteRaises, CacheCrash
<1>5. ASSUME NEW p \in Prompts, HitRaises(p) \/ MissRaises(p) PROVE CacheInv'
  BY <1>5 DEF HitRaises, MissRaises, cache
<1>6. CASE UNCHANGED cache
  BY <1>6 DEF cache
<1> QED
  BY <1>1, <1>2, <1>3, <1>4, <1>5, <1>6 DEF CacheNext

\* What a caller was told is what the file says, and a file is written once.
LEMMA StoredStands == CacheInv => AnswersStand
BY DEF CacheInv, ToldAsStored, AnswersStand

\* A prompt once answered is never answered differently, whichever prompts are asked,
\* one at a time, through failed writes and crashes (llm/cache.py:
\* CachingLLMClient.complete).
THEOREM CacheStands == CacheSpec => []AnswersStand
BY CacheInitInv, CacheStepInv, StoredStands, PTL DEF CacheSpec

-----------------------------------------------------------------------------
(* Steps of the parts *)

\* Every step is one of the limiter, or leaves it alone.
LEMMA LimiterStep == Next => [LimiterNext]_limiter
<1> SUFFICES ASSUME Next PROVE [LimiterNext]_limiter
  OBVIOUS
<1>1. ASSUME NEW r \in Requests, Serves(r) PROVE [LimiterNext]_limiter
  BY <1>1 DEF Serves, Arrive, Admit, Seed, Persist, CountAudit, BeginRun, AnswerRun,
              Elsewhere, LimiterNext
<1>2. CASE Pipeline
  BY <1>2 DEF Pipeline, RouteFails, RouteCase, Ask, StoreAnswer, OutOfAsks, Build, Gate,
              Act, Settle, Record, Elsewhere
<1>3. CASE Boot \/ DrainNext \/ Serve \/ Crash \/ TimePasses
  BY <1>3 DEF Boot, DrainNext, Serve, Crash, TimePasses, Elsewhere, LimiterNext
<1> QED
  BY <1>1, <1>2, <1>3 DEF Next

LEMMA PaymentIsOne ==
  ASSUME Own, work.pc # "none"
  PROVE  Payment \in Payments
<1>1. events[work.id] \in Scenario
  BY DEF Own, TypeOK, RowsExist
<1> QED
  BY <1>1 DEF Payment, Scenario

\* What a run asks the model has its place in the cache.
LEMMA PromptKnown ==
  ASSUME Own, work.pc = "ask", Len(work.seen) < MaxAsks
  PROVE  Prompt \in Prompts
<1>1. /\ work.id \in DOMAIN events /\ events \in Seq(Scenario)
      /\ work.amount \in Amounts /\ work.seen \in Seq(Statuses)
      /\ Len(work.seen) \in Nat
  BY DEF Own, TypeOK, RowsExist, CaseKnown, Work, Midway
<1>2. Payment \in Payments
  BY PaymentIsOne
<1>3. Len(work.seen) \in 0..(MaxAsks - 1)
  BY <1>1, PlaygroundAssumption
<1>4. work.seen \in [1..Len(work.seen) -> Statuses]
  BY <1>1
<1> QED
  BY <1>1, <1>2, <1>3, <1>4, PromptsAssumption DEF Prompt

\* Every step is one of the cache, or leaves it alone.
LEMMA CacheStep == Own /\ Next => [CacheNext]_cache
<1> SUFFICES ASSUME Own, Next PROVE [CacheNext]_cache
  OBVIOUS
<1>1. ASSUME NEW r \in Requests, Serves(r) PROVE [CacheNext]_cache
  BY <1>1 DEF Serves, Arrive, Admit, Seed, Persist, CountAudit, BeginRun, AnswerRun,
              Elsewhere
<1>2. CASE Ask
  <2>1. Prompt \in Prompts
    BY <1>2, PromptKnown DEF Ask
  <2> QED
    BY <1>2, <2>1 DEF Ask, CacheNext
<1>3. CASE StoreAnswer
  BY <1>3 DEF StoreAnswer, CacheNext
<1>4. CASE RouteFails \/ RouteCase \/ OutOfAsks \/ Build \/ Gate \/ Act \/ Settle \/ Record
  BY <1>4 DEF RouteFails, RouteCase, OutOfAsks, Build, Gate, Act, Settle, Record, Elsewhere
<1>5. CASE Boot \/ DrainNext \/ Serve \/ Crash \/ TimePasses
  BY <1>5 DEF Boot, DrainNext, Serve, Crash, TimePasses, Elsewhere, CacheNext
<1> QED
  BY <1>1, <1>2, <1>3, <1>4, <1>5 DEF Next, Pipeline

LEMMA PlayInit == Init => PInv
<1> SUFFICES ASSUME Init PROVE PInv
  OBVIOUS
<1>1. LimiterInv /\ CacheInv
  BY InitInv, CacheInitInv DEF Init
<1>2. TypeOK
  <2>1. NoRun \in Run
    BY PlaygroundAssumption DEF NoRun, Run, PC
  <2>2. NoWork \in Work /\ NoWork.pc = "none"
    BY PlaygroundAssumption DEF NoWork, Work
  <2> QED
    BY <1>1, <2>1, <2>2 DEF Init, TypeOK, LimiterInv, CacheInv, Tools
<1>3. RowsExist
  BY PlaygroundAssumption DEF Init, RowsExist, NoRun, NoWork
<1>4. CaseKnown
  BY DEF Init, CaseKnown, NoWork, Midway, Tools
<1>5. NoHeldAmountMoves
  BY DEF Init, NoHeldAmountMoves
<1> QED
  BY <1>1, <1>2, <1>3, <1>4, <1>5 DEF PInv, Own

-----------------------------------------------------------------------------
(* Steps of a request and of the process *)

Parts == LimiterTypeOK /\ CacheTypeOK

\* A call as process begins it.
Fresh(w) ==
  w \in Work /\ w.seen = <<>> /\ w.pc \in {"none", "route"}
  /\ (w.pc = "route" => w.id \in DOMAIN events)

\* Only the table of requests changes, in one row.
LEMMA RequestStep ==
  ASSUME Own, Parts', NEW r \in Requests,
         UNCHANGED <<demo, store, phase, drain, moved>>,
         work' = work \/ Fresh(work'),
         NEW row \in Run, run' = [run EXCEPT ![r] = row],
         row.pc \notin {"idle", "done"} => row.scenario \in Scenario,
         row.pc \in {"before", "wait", "held", "answer"} => row.id \in DOMAIN events,
         row.pc \in {"idle", "seed", "persist"} => row.id = 0,
         row.pc = "answer" => row.row \in DOMAIN ledger
  PROVE  Own'
<1>1. \A q \in Requests : run'[q] = run[q] \/ run'[q] = row
  BY DEF Own, TypeOK
<1>2. TypeOK'
  <2>1. run' \in [Requests -> Run]
    BY DEF Own, TypeOK
  <2> QED
    BY <2>1 DEF Own, TypeOK, Parts, store, Fresh, Tools
<1>3. RowsExist'
  BY <1>1 DEF Own, RowsExist, store, Fresh
<1>4. CaseKnown'
  <2>1. CASE work' = work
    BY <2>1 DEF Own, CaseKnown, Payment, store
  <2>2. CASE Fresh(work')
    BY <2>2 DEF CaseKnown, Fresh, Midway, Tools
  <2> QED
    BY <2>1, <2>2
<1>5. NoHeldAmountMoves'
  BY DEF Own, NoHeldAmountMoves
<1> QED
  BY <1>2, <1>3, <1>4, <1>5 DEF Own

\* What process finds for an event is a call like any other, not yet begun.
LEMMA TakenIsWork ==
  ASSUME Own, NEW id \in DOMAIN events
  PROVE  Fresh(Taken(id)) /\ (Taken(id).pc = "route" => Taken(id).id = id)
<1>1. id \in 0..MaxEvents
  BY PlaygroundAssumption DEF Own, TypeOK, RowsExist
<1>2. CASE Ledgered(id)
  BY <1>2, PlaygroundAssumption DEF Taken, NoWork, Work, Fresh
<1>3. CASE ~Ledgered(id)
  <2>1. Taken(id) = [pc |-> "route", id |-> id, path |-> None, amount |-> None,
                     action |-> None, seen |-> <<>>]
    BY <1>3 DEF Taken, NoWork
  <2> QED
    BY <1>1, <2>1, PlaygroundAssumption DEF Work, Fresh
<1> QED
  BY <1>2, <1>3

LEMMA ServesStep ==
  ASSUME Own, Parts', NEW r \in Requests, Serves(r)
  PROVE  Own'
<1>1. /\ run \in [Requests -> Run] /\ run[r] \in Run
      /\ run[r].pc \notin {"idle", "done"} => run[r].scenario \in Scenario
      /\ run[r].pc \in {"before", "wait", "held", "answer"} => run[r].id \in DOMAIN events
      /\ run[r].pc \in {"idle", "seed", "persist"} => run[r].id = 0
      /\ run[r].pc = "answer" => run[r].row \in DOMAIN ledger
  BY DEF Own, TypeOK, RowsExist
<1>2. CASE Arrive(r)
  <2>1. UNCHANGED <<demo, store, phase, drain, work, moved>> /\ run' = [run EXCEPT ![r] = run[r]]
    BY <1>1, <1>2 DEF Arrive
  <2> QED
    BY <1>1, <2>1, RequestStep
<1>3. ASSUME NEW s \in Scenario, Admit(r, s) PROVE Own'
  <2>1. PICK pc \in {"seed", "done"} :
          run' = [run EXCEPT ![r] = [run[r] EXCEPT !.pc = pc, !.scenario = s]]
    BY <1>1, <1>3 DEF Admit
  <2>2. /\ [run[r] EXCEPT !.pc = pc, !.scenario = s] \in Run
        /\ [run[r] EXCEPT !.pc = pc, !.scenario = s].pc = pc
        /\ [run[r] EXCEPT !.pc = pc, !.scenario = s].scenario = s
        /\ [run[r] EXCEPT !.pc = pc, !.scenario = s].id = 0
    BY <1>1, <1>3 DEF Admit, Run, PC
  <2>3. UNCHANGED <<demo, store, phase, drain, work, moved>>
    BY <1>3 DEF Admit
  <2> QED
    BY <2>1, <2>2, <2>3, RequestStep
<1>4. CASE Seed(r)
  <2>1. /\ run[r].pc = "seed" /\ UNCHANGED <<store, phase, drain, work, moved>>
        /\ demo' = [demo EXCEPT ![run[r].scenario.payment] = run[r].scenario.amount]
        /\ run' = [run EXCEPT ![r].pc = "persist"]
    BY <1>4 DEF Seed, Goto
  <2>2. run[r].scenario.amount \in Amounts
    BY <1>1, <2>1 DEF Scenario
  <2>3. /\ demo' \in [Payments -> Amounts \cup {None}]
        /\ \A p \in Payments : demo[p] \in Amounts => demo'[p] \in Amounts
    BY <2>1, <2>2 DEF Own, TypeOK
  <2>4. run' \in [Requests -> Run]
    BY <1>1, <2>1 DEF Run, PC
  <2>5. TypeOK'
    BY <2>1, <2>3, <2>4 DEF Own, TypeOK, Parts, store
  <2>6. RowsExist'
    BY <1>1, <2>1 DEF Own, RowsExist, store, Run
  <2>7. CaseKnown'
    <3>1. work.pc # "none" => Payment \in Payments
      BY PaymentIsOne
    <3>2. Payment' = Payment
      BY <2>1 DEF Payment, store
    <3> QED
      BY <2>1, <2>3, <3>1, <3>2 DEF Own, CaseKnown, Midway, Tools
  <2>8. NoHeldAmountMoves'
    BY <2>1 DEF Own, NoHeldAmountMoves
  <2> QED
    BY <2>5, <2>6, <2>7, <2>8 DEF Own
<1>5. CASE Persist(r)
  <2>1. /\ run[r].pc = "persist" /\ Len(events) < MaxEvents
        /\ UNCHANGED <<demo, ledger, audit, settled, phase, drain, work, moved>>
        /\ events' = Append(events, run[r].scenario)
        /\ run' = [run EXCEPT ![r].pc = "before", ![r].id = Len(events) + 1]
        /\ run[r].scenario \in Scenario /\ events \in Seq(Scenario) /\ Len(events) \in Nat
    BY <1>1, <1>5 DEF Persist, Own, TypeOK
  <2>2. /\ events' \in Seq(Scenario) /\ Len(events') = Len(events) + 1
        /\ \A i \in DOMAIN events : i \in DOMAIN events' /\ events'[i] = events[i]
        /\ Len(events) + 1 \in DOMAIN events'
    BY <2>1, AppendProperties
  <2>3. Len(events) + 1 \in 0..MaxEvents
    BY <2>1, PlaygroundAssumption
  <2>4. /\ run' \in [Requests -> Run]
        /\ run'[r].pc = "before" /\ run'[r].id = Len(events) + 1
        /\ run'[r].scenario = run[r].scenario
        /\ \A q \in Requests : q # r => run'[q] = run[q]
    BY <1>1, <2>1, <2>3 DEF Run, PC
  <2>5. TypeOK'
    BY <2>1, <2>2, <2>4 DEF Own, TypeOK, Parts
  <2>6. RowsExist'
    BY <2>1, <2>2, <2>3, <2>4 DEF Own, RowsExist
  <2>7. CaseKnown'
    <3>1. work.pc # "none" => Payment' = Payment
      BY <2>1, <2>2 DEF Own, RowsExist, Payment
    <3> QED
      BY <2>1, <3>1 DEF Own, CaseKnown, Midway, Tools
  <2>8. NoHeldAmountMoves'
    BY <2>1 DEF Own, NoHeldAmountMoves
  <2> QED
    BY <2>5, <2>6, <2>7, <2>8 DEF Own
<1>6. CASE CountAudit(r)
  <2>1. PICK n \in Nat :
          run' = [run EXCEPT ![r] = [run[r] EXCEPT !.pc = "wait", !.before = n]]
    <3>1. /\ run[r].pc = "before" /\ audit \in [Payments -> Seq(Entry)]
          /\ run[r].scenario.payment \in Payments
      BY <1>1, <1>6 DEF CountAudit, Own, TypeOK, Scenario
    <3>2. Len(audit[run[r].scenario.payment]) \in Nat
      BY <3>1
    <3> QED
      BY <1>1, <1>6, <3>2 DEF CountAudit
  <2>2. /\ [run[r] EXCEPT !.pc = "wait", !.before = n] \in Run
        /\ [run[r] EXCEPT !.pc = "wait", !.before = n].pc = "wait"
        /\ [run[r] EXCEPT !.pc = "wait", !.before = n].scenario \in Scenario
        /\ [run[r] EXCEPT !.pc = "wait", !.before = n].id \in DOMAIN events
    BY <1>1, <1>6 DEF CountAudit, Run, PC
  <2>3. UNCHANGED <<demo, store, phase, drain, work, moved>>
    BY <1>6 DEF CountAudit
  <2> QED
    BY <2>1, <2>2, <2>3, RequestStep
<1>7. CASE BeginRun(r)
  <2>1. /\ run[r].pc = "wait" /\ work' = Taken(run[r].id)
        /\ UNCHANGED <<demo, store, phase, drain, moved>>
        /\ run[r].id \in DOMAIN events /\ run[r].scenario \in Scenario
    BY <1>1, <1>7 DEF BeginRun
  <2>2. PICK pc \in {"answer", "held"}, i \in Nat :
          /\ run' = [run EXCEPT ![r] = [run[r] EXCEPT !.pc = pc, !.row = i]]
          /\ pc = "answer" => i \in DOMAIN ledger
    <3>1. CASE Goto(r, "held")
      <4>1. run' = [run EXCEPT ![r] = [run[r] EXCEPT !.pc = "held", !.row = run[r].row]]
        BY <1>1, <3>1 DEF Goto, Run
      <4> QED
        BY <1>1, <4>1 DEF Run
    <3>2. ASSUME NEW i \in RowsOf(run[r].id), run' = [run EXCEPT ![r].pc = "answer", ![r].row = i]
          PROVE  /\ run' = [run EXCEPT ![r] = [run[r] EXCEPT !.pc = "answer", !.row = i]]
                 /\ i \in Nat /\ i \in DOMAIN ledger
      <4>1. i \in DOMAIN ledger /\ ledger \in Seq(Row)
        BY DEF RowsOf, Own, TypeOK
      <4>2. i \in Nat
        BY <4>1
      <4>3. run' = [run EXCEPT ![r] = [run[r] EXCEPT !.pc = "answer", !.row = i]]
        BY <1>1, <3>2
      <4> QED
        BY <4>1, <4>2, <4>3
    <3> QED
      BY <1>7, <3>1, <3>2 DEF BeginRun
  <2>3. /\ [run[r] EXCEPT !.pc = pc, !.row = i] \in Run
        /\ [run[r] EXCEPT !.pc = pc, !.row = i].pc = pc
        /\ [run[r] EXCEPT !.pc = pc, !.row = i].scenario \in Scenario
        /\ [run[r] EXCEPT !.pc = pc, !.row = i].id = run[r].id
        /\ [run[r] EXCEPT !.pc = pc, !.row = i].row = i
    BY <1>1, <2>1, <2>2 DEF Run, PC
  <2>4. Fresh(work')
    BY <2>1, TakenIsWork
  <2> QED
    BY <2>1, <2>2, <2>3, <2>4, RequestStep
<1>8. CASE AnswerRun(r)
  <2> DEFINE new == [run[r] EXCEPT !.pc = "done", !.shown = NewEntries(r),
                                   !.answer = AnswerRow(r)]
  <2>1. /\ run[r].pc = "answer" /\ UNCHANGED <<demo, store, phase, drain, work, moved>>
        /\ run' = [run EXCEPT ![r] = new]
    BY <1>1, <1>8 DEF AnswerRun
  <2>2. NewEntries(r) \in Seq(Entry)
    <3>1. audit[run[r].scenario.payment] \in Seq(Entry) /\ run[r].before \in Nat
      BY <1>1, <2>1 DEF Own, TypeOK, Scenario, Run
    <3> QED
      BY <3>1, SubSeqProperties DEF NewEntries
  <2>3. AnswerRow(r) \in Row
    <3>1. ledger \in Seq(Row) /\ run[r].row \in DOMAIN ledger
      BY <1>1, <2>1 DEF Own, TypeOK
    <3> QED
      BY <3>1 DEF AnswerRow
  <2>4. new \in Run /\ new.pc = "done" /\ new.id = run[r].id
    BY <1>1, <2>2, <2>3 DEF Run, PC
  <2> HIDE DEF new
  <2> QED
    BY <1>1, <2>1, <2>4, RequestStep
<1> QED
  BY <1>2, <1>3, <1>4, <1>5, <1>6, <1>7, <1>8 DEF Serves

LEMMA ProcessStep ==
  ASSUME Own, Parts', Boot \/ DrainNext \/ Serve \/ Crash \/ TimePasses
  PROVE  Own'
<1>1. CASE Boot \/ Serve \/ TimePasses
  <2>1. /\ UNCHANGED <<demo, events, ledger, audit, settled, work, run, moved>>
        /\ phase' \in {"down", "draining", "serving"} /\ drain' \subseteq DOMAIN events
    BY <1>1 DEF Boot, Serve, TimePasses, store, Own, TypeOK, RowsExist
  <2>2. DOMAIN events \subseteq EventRow
    BY PlaygroundAssumption DEF Own, TypeOK, RowsExist, EventRow
  <2>3. TypeOK'
    BY <2>1, <2>2 DEF Own, TypeOK, Parts
  <2>4. RowsExist' /\ NoHeldAmountMoves'
    BY <2>1 DEF Own, RowsExist, NoHeldAmountMoves
  <2>5. CaseKnown'
    BY <2>1 DEF Own, CaseKnown, Payment
  <2> QED
    BY <2>3, <2>4, <2>5 DEF Own
<1>2. CASE DrainNext
  <2>1. /\ UNCHANGED <<demo, events, ledger, audit, settled, phase, run, moved>>
        /\ drain' \subseteq drain
    BY <1>2 DEF DrainNext, store
  <2>2. PICK id \in DOMAIN events : work' = Taken(id)
    BY <1>2 DEF DrainNext, Own, RowsExist
  <2>3. Fresh(work')
    BY <2>2, TakenIsWork
  <2>4. TypeOK'
    BY <2>1, <2>3 DEF Own, TypeOK, Parts, Fresh, Tools
  <2>5. RowsExist' /\ NoHeldAmountMoves'
    BY <2>1, <2>3 DEF Own, RowsExist, NoHeldAmountMoves, Fresh
  <2>6. CaseKnown'
    BY <2>3 DEF CaseKnown, Fresh, Midway, Tools
  <2> QED
    BY <2>4, <2>5, <2>6 DEF Own
<1>3. CASE Crash
  <2>1. /\ UNCHANGED <<events, ledger, audit, settled, moved>>
        /\ phase' = "down" /\ drain' = {} /\ work' = NoWork
        /\ demo' = [p \in Payments |-> None] /\ run' = [r \in Requests |-> NoRun]
    BY <1>3 DEF Crash, store
  <2>2. NoRun \in Run /\ NoRun.pc = "idle" /\ NoRun.id = 0
    BY PlaygroundAssumption DEF NoRun, Run, PC
  <2>3. NoWork \in Work /\ NoWork.pc = "none"
    BY PlaygroundAssumption DEF NoWork, Work
  <2>4. TypeOK'
    BY <2>1, <2>2, <2>3 DEF Own, TypeOK, Parts, Tools
  <2>5. RowsExist' /\ NoHeldAmountMoves'
    BY <2>1, <2>2, <2>3 DEF Own, RowsExist, NoHeldAmountMoves
  <2>6. CaseKnown'
    BY <2>1, <2>3 DEF CaseKnown, Midway, Tools
  <2> QED
    BY <2>4, <2>5, <2>6 DEF Own
<1> QED
  BY <1>1, <1>2, <1>3

-----------------------------------------------------------------------------
(* Steps of the pipeline *)

\* Only the call with the lock changes and keeps its event; of the rest, the log,
\* the settled keys and what moved.
LEMMA WorkStep ==
  ASSUME Own, Parts', UNCHANGED <<demo, events, ledger, phase, drain, run>>,
         audit' \in [Payments -> Seq(Entry)], settled' \subseteq Payments \X Tools,
         moved' \subseteq Amounts, \A amount \in moved' : amount <= Threshold,
         work' \in Work, work.pc # "none", work'.id = work.id,
         work'.pc \in Midway =>
           work'.path \in Paths /\ work'.amount \in Amounts /\ demo[Payment] \in Amounts,
         work'.pc = "final" => work'.path \in Paths,
         work'.pc \in {"gate", "act", "settle"} => Fixed(work'.action),
         work'.pc = "act" => work'.action.cost <= Threshold
  PROVE  Own'
<1>1. Payment' = Payment
  BY DEF Payment
<1>2. TypeOK'
  <2>1. work'.pc \in Tools \cup {"ask", "write"} => work'.amount # None
    BY PlaygroundAssumption, LimiterAssumption DEF Midway
  <2> QED
    BY <2>1 DEF Own, TypeOK, Parts
<1>3. RowsExist'
  BY DEF Own, RowsExist
<1>4. CaseKnown'
  BY <1>1 DEF CaseKnown, Fixed
<1>5. NoHeldAmountMoves'
  BY DEF NoHeldAmountMoves
<1> QED
  BY <1>2, <1>3, <1>4, <1>5 DEF Own

\* What holds of the rest before a step.
LEMMA RestKept ==
  ASSUME Own, UNCHANGED <<audit, settled, moved>>
  PROVE  /\ audit' \in [Payments -> Seq(Entry)] /\ settled' \subseteq Payments \X Tools
         /\ moved' \subseteq Amounts /\ \A amount \in moved' : amount <= Threshold
BY DEF Own, TypeOK, NoHeldAmountMoves

\* The pc, and on the way in the path and the amount, of the call.
LEMMA CallSteps ==
  ASSUME Own, Parts', CacheTypeOK, RouteFails \/ RouteCase \/ Ask \/ StoreAnswer \/ OutOfAsks
  PROVE  Own'
<1>1. /\ work \in Work /\ UNCHANGED <<demo, events, ledger, audit, settled, phase, drain, run, moved>>
      /\ work.pc \in {"route", "ask", "write"}
  BY DEF Own, TypeOK, RouteFails, RouteCase, Ask, StoreAnswer, OutOfAsks, store
<1>2. /\ audit' \in [Payments -> Seq(Entry)] /\ settled' \subseteq Payments \X Tools
      /\ moved' \subseteq Amounts /\ \A amount \in moved' : amount <= Threshold
  BY <1>1, RestKept
<1>3. CASE RouteCase
  <2>1. PICK pc \in Tools \cup {"final", "ask"}, path \in Paths :
          work' = [work EXCEPT !.pc = pc, !.path = path, !.amount = demo[Payment]]
    BY <1>3 DEF RouteCase, Paths
  <2>2. demo[Payment] \in Amounts
    BY <1>1, <1>3, PaymentIsOne DEF RouteCase, KnownPayment, Own, TypeOK
  <2>3. work' \in Work /\ work'.id = work.id /\ work'.path = path
        /\ work'.amount = demo[Payment] /\ work'.pc = pc
    BY <1>1, <2>1, <2>2 DEF Work
  <2>4. pc \notin {"gate", "act", "settle"}
    BY DEF Tools
  <2> QED
    BY <1>1, <1>2, <2>2, <2>3, <2>4, WorkStep
<1>4. ASSUME NEW pc \in Tools \cup {"write", "final", "failed"}, work' = [work EXCEPT !.pc = pc],
             pc # "failed" => work.pc \in {"ask", "write"}
      PROVE  Own'
  <2>1. work' \in Work /\ work'.id = work.id /\ work'.path = work.path
        /\ work'.amount = work.amount /\ work'.pc = pc
    BY <1>1, <1>4 DEF Work
  <2>2. work.pc \in {"ask", "write"} =>
          work.path \in Paths /\ work.amount \in Amounts /\ demo[Payment] \in Amounts
    BY DEF Own, CaseKnown, Midway
  <2>3. pc \notin {"gate", "act", "settle"} /\ "failed" \notin Midway
    BY DEF Tools, Midway
  <2> QED
    BY <1>1, <1>2, <1>4, <2>1, <2>2, <2>3, WorkStep
<1>5. CASE RouteFails \/ OutOfAsks
  BY <1>4, <1>5 DEF RouteFails, OutOfAsks, Conclude
<1>6. CASE Ask
  <2>1. PICK pc \in Answers \cup {"write", "failed"} : work' = [work EXCEPT !.pc = pc]
    BY <1>6 DEF Ask, Follow, Conclude
  <2> QED
    BY <1>4, <1>6, <2>1, PlaygroundAssumption DEF Ask, Tools
<1>7. CASE StoreAnswer
  <2>1. PICK pc \in Answers \cup {"failed"} : work' = [work EXCEPT !.pc = pc]
    <3>1. CASE WriteDone /\ Follow(open.answer)
      BY <3>1 DEF WriteDone, CacheTypeOK, Follow
    <3>2. CASE WriteRaises /\ Conclude("failed")
      BY <3>2 DEF Conclude
    <3> QED
      BY <1>7, <3>1, <3>2 DEF StoreAnswer
  <2>2. work.pc = "write"
    BY <1>7 DEF StoreAnswer
  <2> QED
    BY <1>4, <2>1, <2>2, PlaygroundAssumption DEF Tools
<1> QED
  BY <1>3, <1>5, <1>6, <1>7

\* The end of a guarded call: its entry in the log, and its status in the run's steps.
LEMMA FinishFacts ==
  ASSUME Own, work.pc \in {"gate", "settle"}, NEW status \in Statuses, Finish(status)
  PROVE  /\ audit' \in [Payments -> Seq(Entry)]
         /\ work' \in Work /\ work'.id = work.id /\ work'.path = work.path
         /\ work'.amount = work.amount /\ work'.pc \in {"ask", "final"}
         /\ work'.seen = Append(work.seen, status)
<1>1. /\ Payment \in Payments /\ work.id \in EventRow /\ work \in Work
      /\ audit \in [Payments -> Seq(Entry)]
  <2>1. work.id \in DOMAIN events
    BY DEF Own, RowsExist
  <2> QED
    BY <2>1, PaymentIsOne, PlaygroundAssumption DEF Own, TypeOK, RowsExist, EventRow
<1>2. audit' \in [Payments -> Seq(Entry)]
  <2> DEFINE entry == [event |-> work.id, status |-> status]
  <2>1. entry \in Entry
    BY <1>1 DEF Entry
  <2>2. audit' = [audit EXCEPT ![Payment] = Append(audit[Payment], entry)]
    BY DEF Finish
  <2> HIDE DEF entry
  <2>3. Append(audit[Payment], entry) \in Seq(Entry)
    BY <1>1, <2>1, AppendProperties
  <2> QED
    BY <1>1, <2>2, <2>3
<1>3. work.seen \in Seq(Statuses)
  BY <1>1 DEF Work
<1>4. Append(work.seen, status) \in Seq(Statuses)
  BY <1>3, AppendProperties
<1>5. PICK pc \in {"ask", "final"} :
        work' = [pc |-> pc, id |-> work.id, path |-> work.path, amount |-> work.amount,
                 action |-> None, seen |-> Append(work.seen, status)]
  BY <1>1 DEF Finish, Work
<1>6. work' \in Work
  BY <1>1, <1>4, <1>5 DEF Work
<1> QED
  BY <1>2, <1>5, <1>6

LEMMA BuildStep ==
  ASSUME Own, Parts', Build
  PROVE  Own'
<1>1. /\ work \in Work /\ UNCHANGED <<demo, events, ledger, audit, settled, phase, drain, run, moved>>
      /\ work.pc \in Tools /\ work.path \in Paths /\ work.amount \in Amounts
      /\ demo[Payment] \in Amounts
  BY DEF Build, Own, TypeOK, CaseKnown, Midway, Tools, Elsewhere, store
<1>2. Fixed(ActionOf(work.pc))
  <2>1. demo[Payment] \in Nat
    BY <1>1, PlaygroundAssumption
  <2> QED
    BY <1>1, <2>1 DEF ActionOf, Fixed, Action, Tools
<1>3. /\ work' = [pc |-> "gate", id |-> work.id, path |-> work.path, amount |-> work.amount,
                  action |-> ActionOf(work.pc), seen |-> work.seen]
  BY <1>1 DEF Build, Work
<1>4. work' \in Work
  BY <1>1, <1>2, <1>3 DEF Work, Fixed
<1>5. work.pc # "none"
  BY <1>1 DEF Tools
<1> QED
  BY <1>1, <1>2, <1>3, <1>4, <1>5, RestKept, WorkStep

\* Past the gate the action is as the gate saw it.
LEMMA GateStep ==
  ASSUME Own, Parts', Gate
  PROVE  Own'
<1>1. /\ work \in Work /\ UNCHANGED <<demo, events, ledger, settled, phase, drain, run, moved>>
      /\ work.pc = "gate" /\ work.path \in Paths /\ work.amount \in Amounts
      /\ demo[Payment] \in Amounts /\ Fixed(work.action)
  BY DEF Gate, Own, TypeOK, CaseKnown, Midway, Elsewhere
<1>2. CASE Conclude("act") /\ ~Held /\ UNCHANGED audit
  <2>1. work' = [work EXCEPT !.pc = "act"]
    BY <1>2 DEF Conclude
  <2>2. /\ work' \in Work /\ work'.pc = "act" /\ work'.id = work.id /\ work'.path = work.path
        /\ work'.amount = work.amount /\ work'.action = work.action
    BY <1>1, <2>1 DEF Work
  <2>3. work.action.cost <= Threshold
    <3>1. work.action.cost \in Nat /\ ~(work.action.cost > Threshold)
      BY <1>1, <1>2 DEF Fixed, Action, Held
    <3> QED
      BY <3>1, PlaygroundAssumption
  <2> QED
    BY <1>1, <1>2, <2>2, <2>3, RestKept, WorkStep
<1>3. ASSUME NEW status \in Refusals, Finish(status) PROVE Own'
  <2>1. status \in Statuses
    BY DEF Refusals, Statuses
  <2>2. /\ audit' \in [Payments -> Seq(Entry)]
        /\ work' \in Work /\ work'.id = work.id /\ work'.path = work.path
        /\ work'.amount = work.amount /\ work'.pc \in {"ask", "final"}
    BY <1>1, <1>3, <2>1, FinishFacts
  <2>3. /\ settled' \subseteq Payments \X Tools
        /\ moved' \subseteq Amounts /\ \A amount \in moved' : amount <= Threshold
    BY <1>1 DEF Own, TypeOK, NoHeldAmountMoves
  <2> QED
    BY <1>1, <2>2, <2>3, WorkStep
<1> QED
  BY <1>2, <1>3 DEF Gate

\* What moves is what the gate has let pass.
LEMMA ActStep ==
  ASSUME Own, Parts', Act
  PROVE  Own'
<1>1. /\ work \in Work /\ UNCHANGED <<demo, events, ledger, audit, settled, phase, drain, run>>
      /\ work.pc = "act" /\ work.path \in Paths /\ work.amount \in Amounts
      /\ demo[Payment] \in Amounts /\ Fixed(work.action) /\ work.action.cost <= Threshold
  BY DEF Act, Own, TypeOK, CaseKnown, Midway, Elsewhere, store
<1>2. work' = [work EXCEPT !.pc = "settle"]
  BY DEF Act, Conclude
<1>3. /\ work' \in Work /\ work'.pc = "settle" /\ work'.id = work.id /\ work'.path = work.path
      /\ work'.amount = work.amount /\ work'.action = work.action
  BY <1>1, <1>2 DEF Work
<1>4. moved' \subseteq Amounts /\ \A amount \in moved' : amount <= Threshold
  <2>1. moved \subseteq Amounts /\ \A amount \in moved : amount <= Threshold
    BY DEF Own, TypeOK, NoHeldAmountMoves
  <2>2. work.action.tool = "refund" =>
          work.action.amount \in Amounts /\ work.action.amount <= Threshold
    BY <1>1 DEF Fixed
  <2> QED
    BY <2>1, <2>2 DEF Act, Refunded
<1>5. audit' \in [Payments -> Seq(Entry)] /\ settled' \subseteq Payments \X Tools
  BY <1>1 DEF Own, TypeOK
<1> QED
  BY <1>1, <1>3, <1>4, <1>5, WorkStep

LEMMA SettleStep ==
  ASSUME Own, Parts', Settle
  PROVE  Own'
<1>1. /\ work \in Work /\ UNCHANGED <<demo, events, ledger, phase, drain, run, moved>>
      /\ work.pc = "settle" /\ work.path \in Paths /\ work.amount \in Amounts
      /\ demo[Payment] \in Amounts /\ Fixed(work.action)
      /\ settled' = settled \cup {Key} /\ Finish("executed")
  BY DEF Settle, Own, TypeOK, CaseKnown, Midway, Elsewhere
<1>2. Key \in Payments \X Tools
  BY <1>1, PaymentIsOne DEF Key, Fixed, Action
<1>3. /\ settled' \subseteq Payments \X Tools
      /\ moved' \subseteq Amounts /\ \A amount \in moved' : amount <= Threshold
  BY <1>1, <1>2 DEF Own, TypeOK, NoHeldAmountMoves
<1>4. "executed" \in Statuses
  BY DEF Statuses
<1>5. /\ audit' \in [Payments -> Seq(Entry)]
      /\ work' \in Work /\ work'.id = work.id /\ work'.path = work.path
      /\ work'.amount = work.amount /\ work'.pc \in {"ask", "final"}
  BY <1>1, <1>4, FinishFacts
<1> QED
  BY <1>1, <1>3, <1>5, WorkStep

LEMMA RowTyped ==
  ASSUME Own, work.pc \in {"final", "failed"}
  PROVE  RowOf(work) \in Row /\ RowOf(work).event = work.id
<1>1. work.id \in EventRow /\ work \in Work /\ (work.pc = "final" => work.path \in Paths)
  <2>1. work.id \in DOMAIN events
    BY DEF Own, RowsExist
  <2> QED
    BY <2>1, PlaygroundAssumption DEF Own, TypeOK, RowsExist, EventRow, CaseKnown
<1>2. LastStatus(work.seen) \in Statuses \cup {None}
  <2>1. work.seen \in Seq(Statuses)
    BY <1>1 DEF Work
  <2>2. work.seen # <<>> => Len(work.seen) \in DOMAIN work.seen
    BY <2>1
  <2> QED
    BY <2>1, <2>2 DEF LastStatus
<1> QED
  BY <1>1, <1>2 DEF RowOf, Row

\* The ledger row, and with it the answer of the request that waits for it.
LEMMA RecordFacts ==
  ASSUME Own, Record
  PROVE  /\ Len(ledger) \in Nat /\ DOMAIN ledger = 1..Len(ledger)
         /\ ledger' \in Seq(Row) /\ DOMAIN ledger' = 1..(Len(ledger) + 1)
         /\ \A i \in DOMAIN ledger : ledger'[i] = ledger[i]
         /\ ledger'[Len(ledger) + 1] = RowOf(work)
         /\ \A r \in Requests :
              /\ run'[r] \in Run /\ run'[r].scenario = run[r].scenario
              /\ run'[r].id = run[r].id /\ run'[r].before = run[r].before
              /\ \/ run'[r] = run[r] /\ ~(run[r].pc = "held" /\ run[r].id = work.id)
                 \/ /\ run[r].pc = "held" /\ run[r].id = work.id
                    /\ run'[r].pc = "answer" /\ run'[r].row = Len(ledger) + 1
<1>1. /\ run' = [r \in Requests |-> IF run[r].pc = "held" /\ run[r].id = work.id
                                    THEN [run[r] EXCEPT !.pc = "answer", !.row = Len(ledger) + 1]
                                    ELSE run[r]]
      /\ work.pc \in {"final", "failed"} /\ ledger' = Append(ledger, RowOf(work))
  BY DEF Record
<1>2. ledger \in Seq(Row) /\ Len(ledger) \in Nat /\ DOMAIN ledger = 1..Len(ledger)
  <2>1. ledger \in Seq(Row)
    BY DEF Own, TypeOK
  <2> QED
    BY <2>1, LenProperties
<1>3. /\ ledger' \in Seq(Row) /\ DOMAIN ledger' = 1..(Len(ledger) + 1)
      /\ \A i \in DOMAIN ledger : ledger'[i] = ledger[i]
      /\ ledger'[Len(ledger) + 1] = RowOf(work)
  <2> DEFINE row == RowOf(work)
  <2>1. row \in Row /\ ledger' = Append(ledger, row)
    BY <1>1, RowTyped
  <2> HIDE DEF row
  <2>2. /\ ledger' \in Seq(Row) /\ Len(ledger') = Len(ledger) + 1
        /\ \A i \in 1..Len(ledger) : ledger'[i] = ledger[i]
        /\ ledger'[Len(ledger) + 1] = row
    BY <1>2, <2>1, AppendProperties
  <2>3. DOMAIN ledger' = 1..(Len(ledger) + 1)
    BY <2>2, LenProperties
  <2> QED
    BY <1>2, <2>2, <2>3 DEF row
<1>4. ASSUME NEW r \in Requests
      PROVE  /\ run'[r] \in Run /\ run'[r].scenario = run[r].scenario
             /\ run'[r].id = run[r].id /\ run'[r].before = run[r].before
             /\ \/ run'[r] = run[r] /\ ~(run[r].pc = "held" /\ run[r].id = work.id)
                \/ /\ run[r].pc = "held" /\ run[r].id = work.id
                   /\ run'[r].pc = "answer" /\ run'[r].row = Len(ledger) + 1
  <2>1. run[r] \in Run /\ Len(ledger) + 1 \in Nat
    BY <1>2 DEF Own, TypeOK
  <2>2. CASE run[r].pc = "held" /\ run[r].id = work.id
    <3>1. run'[r] = [run[r] EXCEPT !.pc = "answer", !.row = Len(ledger) + 1]
      BY <1>1, <2>2
    <3> QED
      BY <2>1, <2>2, <3>1 DEF Run, PC
  <2>3. CASE ~(run[r].pc = "held" /\ run[r].id = work.id)
    <3>1. run'[r] = run[r]
      BY <1>1, <2>3
    <3> QED
      BY <2>1, <2>3, <3>1
  <2> QED
    BY <2>2, <2>3
<1> QED
  BY <1>2, <1>3, <1>4

LEMMA RecordStep ==
  ASSUME Own, Parts', Record
  PROVE  Own'
<1>1. /\ UNCHANGED <<demo, events, audit, settled, phase, drain, moved>> /\ work' = NoWork
      /\ work.pc \in {"final", "failed"} /\ run' = [r \in Requests |-> run'[r]]
  BY DEF Record
<1>2. /\ Len(ledger) \in Nat /\ DOMAIN ledger = 1..Len(ledger)
      /\ ledger' \in Seq(Row) /\ DOMAIN ledger' = 1..(Len(ledger) + 1)
  BY RecordFacts
<1>3. \A r \in Requests :
        /\ run'[r] \in Run /\ run'[r].scenario = run[r].scenario
        /\ run'[r].id = run[r].id
        /\ \/ run'[r].pc = run[r].pc /\ run'[r].row = run[r].row
           \/ run[r].pc = "held" /\ run'[r].pc = "answer" /\ run'[r].row = Len(ledger) + 1
  BY RecordFacts
<1>4. NoWork \in Work /\ NoWork.pc = "none"
  BY PlaygroundAssumption DEF NoWork, Work
<1>5. TypeOK'
  <2>1. run' \in [Requests -> Run]
    BY <1>1, <1>3
  <2> QED
    BY <1>1, <1>2, <1>4, <2>1 DEF Own, TypeOK, Parts, Tools
<1>6. RowsExist'
  <2>1. DOMAIN ledger \subseteq DOMAIN ledger' /\ Len(ledger) + 1 \in DOMAIN ledger'
    BY <1>2
  <2> QED
    BY <1>1, <1>3, <1>4, <2>1 DEF Own, RowsExist
<1>7. CaseKnown'
  BY <1>1, <1>4 DEF CaseKnown, Midway, Tools
<1>8. NoHeldAmountMoves'
  BY <1>1 DEF Own, NoHeldAmountMoves
<1> QED
  BY <1>5, <1>6, <1>7, <1>8 DEF Own

LEMMA PlayStep == PInv /\ [Next]_vars => PInv'
<1> SUFFICES ASSUME PInv, [Next]_vars PROVE PInv'
  OBVIOUS
<1>1. CASE Next
  <2>1. LimiterInv' /\ CacheInv'
    BY <1>1, LimiterStep, StepInv, CacheStep, CacheStepInv DEF PInv
  <2>2. Parts' /\ Own /\ CacheTypeOK
    BY <2>1 DEF PInv, Parts, LimiterInv, CacheInv
  <2>3. Own'
    BY <1>1, <2>2, ServesStep, ProcessStep, CallSteps, BuildStep, GateStep, ActStep,
       SettleStep, RecordStep
       DEF Next, Pipeline
  <2> QED
    BY <2>1, <2>3 DEF PInv
<1>2. CASE UNCHANGED vars
  <2>1. UNCHANGED <<limiter, cache, demo, events, ledger, audit, settled, phase, drain, work,
                    run, moved>>
    BY <1>2 DEF vars, store
  <2>2. LimiterInv' /\ CacheInv'
    BY <2>1, StepInv, CacheStepInv DEF PInv
  <2>3. Parts'
    BY <2>2 DEF Parts, LimiterInv, CacheInv
  <2>4. Own'
    BY <2>1, <2>3 DEF PInv, Own, TypeOK, RowsExist, CaseKnown, NoHeldAmountMoves, Payment,
                      Parts
  <2> QED
    BY <2>2, <2>4 DEF PInv
<1> QED
  BY <1>1, <1>2

-----------------------------------------------------------------------------
(* The theorems *)

\* The invariant is one: it holds initially and every step keeps it.
THEOREM PlaygroundInvariant == Spec => []PInv
BY PlayInit, PlayStep, PTL DEF Spec

\* Every variable stays in its type, and a call past its routing knows the
\* amount of its case (playground.py, pipeline.py: process).
THEOREM PlaygroundTypes == Spec => []TypeOK
<1>1. PInv => TypeOK
  BY DEF PInv, Own
<1> QED
  BY <1>1, PlaygroundInvariant, PTL

\* The limit holds among drains, crashes and the runs it admits (playground.py:
\* RateLimiter).
THEOREM PlaygroundLimit == Spec => []WithinLimit
<1>1. PInv => WithinLimit
  BY InvImpliesLimit DEF PInv
<1> QED
  BY <1>1, PlaygroundInvariant, PTL

\* A prompt of any run is answered as it was before (llm/cache.py).
THEOREM PlaygroundAnswers == Spec => []AnswersStand
<1>1. PInv => AnswersStand
  BY StoredStands DEF PInv
<1> QED
  BY <1>1, PlaygroundInvariant, PTL

\* An amount above the approval threshold never moves, though every visitor may
\* overwrite the amount of another's payment between the reading of it, the gate and
\* the refund (playground.py:19-25, tools.py:134-185, executor.py:99-149).
THEOREM PlaygroundHolds == Spec => []NoHeldAmountMoves
<1>1. PInv => NoHeldAmountMoves
  BY DEF PInv, Own
<1> QED
  BY <1>1, PlaygroundInvariant, PTL

-----------------------------------------------------------------------------
(* The end of a log *)

LEMMA LogTypes ==
  ASSUME Own, NEW p \in Payments
  PROVE  /\ audit[p] \in Seq(Entry) /\ Len(audit[p]) \in Nat
         /\ DOMAIN audit[p] = 1..Len(audit[p])
<1>1. audit[p] \in Seq(Entry)
  BY DEF Own, TypeOK
<1> QED
  BY <1>1, LenProperties

\* Entries of others leave the last status of an event's calls as it is.
LEMMA EndsKept ==
  ASSUME NEW log, NEW new, NEW n \in Nat, NEW m \in Nat, DOMAIN log = 1..n, DOMAIN new = 1..m,
         n <= m, \A j \in 1..n : new[j] = log[j],
         NEW id, \A j \in 1..m : j > n => new[j].event # id,
         NEW status, EndsWith(log, id, status)
  PROVE  EndsWith(new, id, status)
<1>1. {i \in DOMAIN new : new[i].event = id} = {i \in DOMAIN log : log[i].event = id}
  <2>1. ASSUME NEW i \in 1..m, new[i].event = id PROVE i \in 1..n /\ log[i].event = id
    <3>1. ~(i > n)
      BY <2>1
    <3> QED
      BY <2>1, <3>1
  <2>2. ASSUME NEW i \in 1..n, log[i].event = id PROVE i \in 1..m /\ new[i].event = id
    BY <2>2
  <2> QED
    BY <2>1, <2>2
<1> QED
  BY <1>1 DEF EndsWith

\* A new entry is the last.
LEMMA EndsAppended ==
  ASSUME NEW log \in Seq(Entry), NEW id \in EventRow, NEW status \in Statuses
  PROVE  EndsWith(Append(log, [event |-> id, status |-> status]), id, status)
<1> DEFINE entry == [event |-> id, status |-> status]
           new == Append(log, entry)
           n == Len(log)
<1>1. entry \in Entry /\ entry.event = id /\ entry.status = status
  BY DEF Entry
<1> HIDE DEF entry
<1>2. n \in Nat /\ new[n + 1] = entry /\ new \in Seq(Entry) /\ Len(new) = n + 1
  BY <1>1, AppendProperties
<1>3. DOMAIN new = 1..(n + 1)
  BY <1>2, LenProperties
<1> HIDE DEF new, n
<1>4. n + 1 \in {i \in DOMAIN new : new[i].event = id} /\ \A j \in DOMAIN new : j <= n + 1
  BY <1>1, <1>2, <1>3
<1>5. EndsWith(new, id, status)
  BY <1>1, <1>2, <1>4 DEF EndsWith
<1> QED
  BY <1>5 DEF new, entry

LEMMA LastAppended ==
  ASSUME NEW seen \in Seq(Statuses), NEW status \in Statuses
  PROVE  LastStatus(Append(seen, status)) = status
<1>1. /\ Len(Append(seen, status)) = Len(seen) + 1 /\ Len(seen) \in Nat
      /\ Append(seen, status)[Len(seen) + 1] = status
  BY AppendProperties
<1>2. Append(seen, status) # <<>>
  BY <1>1
<1> QED
  BY <1>1, <1>2 DEF LastStatus

\* What is left of a sequence after its first m elements.
LEMMA LastPiece ==
  ASSUME NEW S, NEW s \in Seq(S), NEW m \in Nat, m <= Len(s)
  PROVE  LET piece == SubSeq(s, m + 1, Len(s))
         IN  /\ DOMAIN piece = 1..(Len(s) - m)
             /\ \A i \in 1..(Len(s) - m) : piece[i] = s[m + i]
<1> DEFINE piece == SubSeq(s, m + 1, Len(s))
<1>1. Len(s) \in Nat /\ \A i \in (m + 1)..Len(s) : s[i] \in S
  OBVIOUS
<1>2. /\ piece \in Seq(S)
      /\ Len(piece) = IF m + 1 <= Len(s) THEN Len(s) - (m + 1) + 1 ELSE 0
      /\ \A i \in 1..Len(s) - (m + 1) + 1 : piece[i] = s[(m + 1) + i - 1]
  <2> HIDE DEF piece
  <2>1. m + 1 \in Int /\ Len(s) \in Int
    BY <1>1
  <2> QED
    BY <1>1, <2>1, SubSeqProperties DEF piece
<1> HIDE DEF piece
<1>3. Len(piece) = Len(s) - m /\ DOMAIN piece = 1..Len(piece)
  BY <1>1, <1>2, LenProperties
<1>4. ASSUME NEW i \in 1..(Len(s) - m) PROVE piece[i] = s[m + i]
  <2>1. (m + 1) + i - 1 = m + i /\ i \in 1..Len(s) - (m + 1) + 1
    BY <1>1
  <2> QED
    BY <1>2, <2>1
<1> QED
  BY <1>3, <1>4 DEF piece

\* The piece of a log that holds all of an event's entries ends like the log.
LEMMA EndsPiece ==
  ASSUME NEW log, NEW piece, NEW n \in Nat, NEW m \in Nat, m <= n,
         DOMAIN log = 1..n, DOMAIN piece = 1..(n - m),
         \A i \in 1..(n - m) : piece[i] = log[m + i],
         NEW id, \A j \in 1..n : log[j].event = id => j > m,
         NEW status, EndsWith(log, id, status)
  PROVE  EndsWith(piece, id, status)
<1> DEFINE own  == {i \in DOMAIN log : log[i].event = id}
           part == {i \in DOMAIN piece : piece[i].event = id}
<1>1. ASSUME NEW i \in part PROVE m + i \in own /\ i \in Nat
  <2>1. i \in 1..(n - m) /\ log[m + i].event = id
    OBVIOUS
  <2> QED
    BY <2>1
<1>2. ASSUME NEW j \in own PROVE j - m \in part /\ j \in Nat /\ piece[j - m] = log[j]
  <2>1. j \in 1..n /\ j > m /\ log[j].event = id
    OBVIOUS
  <2>2. j - m \in 1..(n - m) /\ m + (j - m) = j
    BY <2>1
  <2>3. piece[j - m] = log[j]
    BY <2>2
  <2> QED
    BY <2>1, <2>2, <2>3
<1>3. CASE own = {} /\ status = None
  <2>1. part = {}
    BY <1>1, <1>3
  <2> QED
    BY <1>3, <2>1 DEF EndsWith
<1>4. ASSUME NEW i \in own, log[i].status = status, \A j \in own : j <= i
      PROVE  EndsWith(piece, id, status)
  <2>1. i - m \in part /\ piece[i - m].status = status /\ i \in Nat
    BY <1>2, <1>4
  <2>2. ASSUME NEW k \in part PROVE k <= i - m
    <3>1. m + k \in own /\ k \in Nat
      BY <1>1
    <3>2. m + k <= i
      BY <1>4, <3>1
    <3> QED
      BY <2>1, <3>1, <3>2
  <2> QED
    BY <2>1, <2>2 DEF EndsWith
<1> QED
  BY <1>3, <1>4 DEF EndsWith

-----------------------------------------------------------------------------
(* What a visitor is shown *)

\* Logs and ledger grow by what the call with the lock leaves.
LogsGrow ==
  \A p \in Payments :
    /\ Len(audit[p]) <= Len(audit'[p])
    /\ \A j \in 1..Len(audit[p]) : audit'[p][j] = audit[p][j]
    /\ \A j \in 1..Len(audit'[p]) : j > Len(audit[p]) => Busy(audit'[p][j].event)

LedgerGrows ==
  /\ \A i \in DOMAIN ledger : i \in DOMAIN ledger' /\ ledger'[i] = ledger[i]
  /\ \A i \in DOMAIN ledger' : i \notin DOMAIN ledger => Busy(ledger'[i].event)

\* A call under way goes on, and remembers the end of its payment's log.
Continues ==
  work.pc # "none" =>
    /\ work'.pc # "none" /\ work'.id = work.id
    /\ EndsWith(audit[Payment], work.id, LastStatus(work.seen)) =>
         EndsWith(audit'[Payment], work.id, LastStatus(work'.seen))

Shows(r) ==
  /\ \A i \in DOMAIN run[r].shown :
       /\ run[r].before + i \in DOMAIN Log(r)
       /\ run[r].shown[i] = Log(r)[run[r].before + i]
  /\ \A j \in DOMAIN Log(r) :
       Log(r)[j].event = run[r].id => j - run[r].before \in DOMAIN run[r].shown

\* What is owed to a request that was answered.
Answered(r) == Shows(r) /\ Agrees(run[r].answer, run[r].shown, run[r].id)

LEMMA AnswersOwed ==
  SInv => /\ Visits /\ Rows /\ \A r \in Requests : Stage(r)
          /\ \A r \in Requests : run[r].pc = "done" /\ run[r].id # 0 => Answered(r)
BY DEF SInv, ShownCoversOwn, HalvesAgree, Answered, Shows, Agrees

LEMMA AnswersGiven ==
  ASSUME Visits', Rows',
         \A r \in Requests :
           Stage(r)' /\ (run'[r].pc = "done" /\ run'[r].id # 0 => Answered(r)')
  PROVE  SInv'
BY DEF SInv, ShownCoversOwn, HalvesAgree, Answered, Shows, Agrees

\* A request that does not move stays as it is, as long as the call with the lock
\* is not a new one for its event.
LEMMA StageKept ==
  ASSUME Own, Own', Visits, NEW r \in Requests, Stage(r), LogsGrow, LedgerGrows,
         run'[r] = run[r],
         run[r].pc = "done" /\ run[r].id # 0 => Answered(r),
         run[r].id # 0 /\ Busy(run[r].id)' => Busy(run[r].id),
         run[r].pc = "held" => Continues
  PROVE  Stage(r)' /\ (run'[r].pc = "done" /\ run'[r].id # 0 => Answered(r)')
<1> DEFINE id == run[r].id
<1>1. CASE run[r].pc = "idle" \/ id = 0
  <2>1. run[r].pc \notin {"before", "wait", "held", "answer"}
    BY <1>1, PlaygroundAssumption DEF Own, TypeOK, RowsExist
  <2> QED
    BY <1>1, <2>1 DEF Stage
<1>2. CASE id # 0 /\ run[r].pc # "idle"
  <2> DEFINE p == run[r].scenario.payment
  <2>1. p \in Payments
    BY <1>2 DEF Visits, Scenario
  <2>2. /\ Log(r) = audit[p] /\ Log(r)' = audit'[p] /\ run'[r].id = id
        /\ run'[r].pc = run[r].pc /\ run'[r].before = run[r].before
        /\ run'[r].shown = run[r].shown /\ run'[r].row = run[r].row
        /\ run'[r].answer = run[r].answer /\ run[r].before \in Nat
    BY DEF Log, Own, TypeOK, Run
  <2>3. \A q \in Payments : /\ Len(audit[q]) \in Nat /\ DOMAIN audit[q] = 1..Len(audit[q])
                            /\ Len(audit'[q]) \in Nat /\ DOMAIN audit'[q] = 1..Len(audit'[q])
    <3>1. ASSUME NEW q \in Payments
          PROVE  audit[q] \in Seq(Entry) /\ audit'[q] \in Seq(Entry)
      BY <3>1 DEF Own, TypeOK
    <3> QED
      BY <3>1, LenProperties
  <2>4. /\ Len(audit[p]) <= Len(audit'[p])
        /\ \A j \in 1..Len(audit[p]) : audit'[p][j] = audit[p][j]
    BY <2>1 DEF LogsGrow
  <2>5. ASSUME NEW q \in Payments, NEW j \in DOMAIN audit'[q], audit'[q][j].event = id, ~Busy(id)
        PROVE  j \in DOMAIN audit[q] /\ audit[q][j].event = id
    <3>1. ~(j > Len(audit[q]))
      BY <2>3, <2>5 DEF LogsGrow
    <3>2. j \in 1..Len(audit[q])
      BY <2>3, <3>1
    <3> QED
      BY <2>3, <2>5, <3>2 DEF LogsGrow
  <2>6. run[r].pc \in {"before", "wait"} =>
          /\ ~(work'.pc # "none" /\ work'.id = id)
          /\ \A i \in DOMAIN ledger' : ledger'[i].event # id
          /\ \A q \in Payments : \A j \in DOMAIN audit'[q] : audit'[q][j].event # id
    <3> SUFFICES ASSUME run[r].pc \in {"before", "wait"}
                 PROVE  /\ ~(work'.pc # "none" /\ work'.id = id)
                        /\ \A i \in DOMAIN ledger' : ledger'[i].event # id
                        /\ \A q \in Payments : \A j \in DOMAIN audit'[q] :
                             audit'[q][j].event # id
      OBVIOUS
    <3>1. NotBegun(id) /\ ~Busy(id)
      BY DEF Stage, NotBegun
    <3>2. ~(work'.pc # "none" /\ work'.id = id)
      BY <1>2, <2>2, <3>1 DEF Busy
    <3>3. \A q \in Payments : \A j \in DOMAIN audit'[q] : audit'[q][j].event # id
      BY <2>5, <3>1 DEF NotBegun
    <3>4. \A i \in DOMAIN ledger' : ledger'[i].event # id
      BY <3>1 DEF NotBegun, LedgerGrows
    <3> QED
      BY <3>2, <3>3, <3>4
  <2>7. run[r].pc \in {"wait", "held", "answer"} => run[r].before <= Len(audit'[p])
    <3>1. run[r].pc \in {"wait", "held", "answer"} => run[r].before <= Len(audit[p])
      BY <1>2, <2>2 DEF Stage
    <3> QED
      BY <3>1, <2>1, <2>2, <2>3, <2>4
  <2>8. run[r].pc \in {"held", "answer"} =>
          \A j \in DOMAIN audit'[p] : audit'[p][j].event = id => j > run[r].before
    <3> SUFFICES ASSUME run[r].pc \in {"held", "answer"}, NEW j \in DOMAIN audit'[p],
                        audit'[p][j].event = id
                 PROVE  j > run[r].before
      OBVIOUS
    <3>1. /\ run[r].before <= Len(audit[p])
          /\ \A k \in DOMAIN audit[p] : audit[p][k].event = id => k > run[r].before
      BY <1>2, <2>2 DEF Stage
    <3>2. j \in Nat
      BY <2>1, <2>3
    <3>3. CASE j > Len(audit[p])
      BY <3>1, <3>2, <3>3, <2>1, <2>2, <2>3
    <3>4. CASE ~(j > Len(audit[p]))
      <4>1. j \in DOMAIN audit[p]
        BY <3>4, <2>1, <2>3
      <4> QED
        BY <4>1, <3>1, <2>1, <2>3, <2>4
    <3> QED
      BY <3>3, <3>4
  <2>9. run[r].pc \in {"answer", "done"} => ~(work'.pc # "none" /\ work'.id = id)
    BY <1>2, <2>2 DEF Stage, Busy
  <2>10. run[r].pc = "held" => /\ work'.pc # "none" /\ work'.id = id
                               /\ EndsWith(audit'[p], id, LastStatus(work'.seen))
    <3> SUFFICES ASSUME run[r].pc = "held"
                 PROVE  /\ work'.pc # "none" /\ work'.id = id
                        /\ EndsWith(audit'[p], id, LastStatus(work'.seen))
      OBVIOUS
    <3>1. work.pc # "none" /\ work.id = id /\ EndsWith(audit[p], id, LastStatus(work.seen))
      BY <2>2 DEF Stage, Busy
    <3>2. Payment = p
      BY <1>2, <3>1 DEF Visits, Payment
    <3> QED
      BY <3>1, <3>2 DEF Continues
  <2>11. run[r].pc = "answer" => Agrees(ledger'[run[r].row], audit'[p], id)
    <3> SUFFICES ASSUME run[r].pc = "answer"
                 PROVE  Agrees(ledger'[run[r].row], audit'[p], id)
      OBVIOUS
    <3>1. Agrees(ledger[run[r].row], audit[p], id) /\ ~Busy(id)
      BY <1>2, <2>2 DEF Stage
    <3>2. ledger'[run[r].row] = ledger[run[r].row]
      BY DEF Own, RowsExist, LedgerGrows
    <3>3. \A j \in 1..Len(audit'[p]) : j > Len(audit[p]) => audit'[p][j].event # id
      BY <2>1, <3>1 DEF LogsGrow
    <3>4. ASSUME NEW status, EndsWith(audit[p], id, status) PROVE EndsWith(audit'[p], id, status)
      <4> HIDE DEF id, p
      <4> QED
        BY <2>1, <2>3, <2>4, <3>3, <3>4, EndsKept
    <3> QED
      BY <3>1, <3>2, <3>4 DEF Agrees
  <2>12. Stage(r)'
    <3> HIDE DEF id, p
    <3> QED
      BY <2>2, <2>6, <2>7, <2>8, <2>9, <2>10, <2>11 DEF Stage, NotBegun, Busy
  <2>13. run'[r].pc = "done" /\ run'[r].id # 0 => Answered(r)'
    <3> SUFFICES ASSUME run[r].pc = "done" PROVE Answered(r)'
      BY <2>2
    <3>1. Shows(r) /\ ~Busy(id) /\ Agrees(run[r].answer, run[r].shown, id)
      BY <1>2 DEF Stage, Answered
    <3>2. ASSUME NEW i \in DOMAIN run[r].shown
          PROVE  /\ run[r].before + i \in DOMAIN audit'[p]
                 /\ run[r].shown[i] = audit'[p][run[r].before + i]
      <4> DEFINE k == run[r].before + i
      <4>1. k \in DOMAIN audit[p] /\ run[r].shown[i] = audit[p][k]
        BY <3>1, <3>2, <2>2 DEF Shows
      <4> HIDE DEF k
      <4>2. k \in DOMAIN audit'[p] /\ audit'[p][k] = audit[p][k]
        BY <4>1, <2>1, <2>3, <2>4
      <4> QED
        BY <4>1, <4>2 DEF k
    <3>3. ASSUME NEW j \in DOMAIN audit'[p], audit'[p][j].event = id
          PROVE  j - run[r].before \in DOMAIN run[r].shown
      <4>1. j \in DOMAIN audit[p] /\ audit[p][j].event = id
        BY <2>1, <2>5, <3>1, <3>3
      <4> QED
        BY <4>1, <3>1, <2>2 DEF Shows
    <3> HIDE DEF id, p
    <3> QED
      BY <2>2, <3>1, <3>2, <3>3 DEF Answered, Shows
  <2> QED
    BY <2>12, <2>13
<1> QED
  BY <1>1, <1>2

\* No request moves.
LEMMA CallCovers ==
  ASSUME Own, Own', SInv, UNCHANGED run, Visits', Rows', LogsGrow, LedgerGrows, Continues,
         \A id : id # 0 /\ Busy(id)' => Busy(id)
  PROVE  SInv'
<1>1. ASSUME NEW r \in Requests
      PROVE  Stage(r)' /\ (run'[r].pc = "done" /\ run'[r].id # 0 => Answered(r)')
  <2>1. Stage(r) /\ Visits /\ (run[r].pc = "done" /\ run[r].id # 0 => Answered(r))
    BY AnswersOwed
  <2>2. run[r].id # 0 /\ Busy(run[r].id)' => Busy(run[r].id)
    <3>1. Busy(run[r].id)' <=> (work'.pc # "none" /\ work'.id = run[r].id)
      BY DEF Busy
    <3> QED
      BY <3>1 DEF Busy
  <2> QED
    BY <2>1, <2>2, StageKept
<1> QED
  BY <1>1, AnswersGiven

LEMMA SameLogs == UNCHANGED audit /\ Own => LogsGrow
<1> SUFFICES ASSUME UNCHANGED audit, Own, NEW p \in Payments
             PROVE  /\ Len(audit[p]) <= Len(audit[p])
                    /\ \A j \in 1..Len(audit[p]) : ~(j > Len(audit[p]))
  BY DEF LogsGrow
<1> QED
  BY LogTypes

LEMMA LogsAfterCall ==
  ASSUME Own, work.pc \in {"gate", "settle"}, Rows, NEW status,
         audit' = [audit EXCEPT ![Payment] =
                     Append(audit[Payment], [event |-> work.id, status |-> status])],
         status \in Statuses, UNCHANGED <<events, ledger>>
  PROVE  LogsGrow /\ Rows'
<1> DEFINE entry == [event |-> work.id, status |-> status]
<1>1. Payment \in Payments /\ work.id \in DOMAIN events /\ work.id \in EventRow
  <2>1. work.id \in DOMAIN events
    BY DEF Own, RowsExist
  <2> QED
    BY <2>1, PaymentIsOne, PlaygroundAssumption DEF Own, TypeOK, RowsExist, EventRow
<1>2. entry \in Entry /\ entry.event = work.id
  BY <1>1 DEF Entry
<1> HIDE DEF entry
<1>3. ASSUME NEW p \in Payments
      PROVE  /\ Len(audit[p]) \in Nat /\ DOMAIN audit[p] = 1..Len(audit[p])
             /\ Len(audit'[p]) \in Nat /\ DOMAIN audit'[p] = 1..Len(audit'[p])
             /\ Len(audit'[p]) \in {Len(audit[p]), Len(audit[p]) + 1}
             /\ \A j \in 1..Len(audit[p]) : audit'[p][j] = audit[p][j]
             /\ Len(audit'[p]) = Len(audit[p]) + 1 => audit'[p][Len(audit[p]) + 1] = entry
  <2>1. audit[p] \in Seq(Entry) /\ Len(audit[p]) \in Nat /\ DOMAIN audit[p] = 1..Len(audit[p])
    BY LogTypes
  <2>2. CASE p = Payment
    <3>1. audit'[p] = Append(audit[p], entry)
      BY <1>1, <2>2 DEF Own, TypeOK, entry
    <3> QED
      BY <1>2, <2>1, <3>1, AppendProperties, LenProperties
  <2>3. CASE p # Payment
    <3>1. audit'[p] = audit[p]
      BY <2>3 DEF Own, TypeOK
    <3>2. Len(audit[p]) # Len(audit[p]) + 1
      BY <2>1
    <3> QED
      BY <2>1, <3>1, <3>2, Zenon
  <2> QED
    BY <2>2, <2>3
<1>4. LogsGrow
  <2> SUFFICES ASSUME NEW p \in Payments
               PROVE  /\ Len(audit[p]) <= Len(audit'[p])
                      /\ \A j \in 1..Len(audit[p]) : audit'[p][j] = audit[p][j]
                      /\ \A j \in 1..Len(audit'[p]) :
                           j > Len(audit[p]) => Busy(audit'[p][j].event)
    BY DEF LogsGrow
  <2>1. ASSUME NEW j \in 1..Len(audit'[p]), j > Len(audit[p]) PROVE Busy(audit'[p][j].event)
    <3>1. j = Len(audit[p]) + 1 /\ Len(audit'[p]) = Len(audit[p]) + 1
      BY <1>3, <2>1
    <3> QED
      BY <3>1, <1>2, <1>3 DEF Busy
  <2> QED
    BY <1>3, <2>1
<1>5. Rows'
  <2>1. ASSUME NEW p \in Payments, NEW j \in DOMAIN audit'[p]
        PROVE  audit'[p][j].event \in DOMAIN events
    <3>1. j \in DOMAIN audit[p] \/ (j = Len(audit[p]) + 1 /\ Len(audit'[p]) = Len(audit[p]) + 1)
      BY <1>3, <2>1
    <3> QED
      BY <3>1, <1>1, <1>2, <1>3 DEF Rows
  <2> QED
    BY <2>1 DEF Rows
<1> QED
  BY <1>4, <1>5

\* A guarded call that ends, seen from outside: one more entry, and the same event.
LEMMA FinishCovers ==
  ASSUME Own, work.pc \in {"gate", "settle"}, NEW status \in Statuses, Finish(status), Rows,
         UNCHANGED <<events, ledger>>
  PROVE  LogsGrow /\ Rows' /\ Continues /\ work'.id = work.id
<1>1. /\ Payment \in Payments /\ work.id \in EventRow /\ work.seen \in Seq(Statuses)
      /\ audit \in [Payments -> Seq(Entry)]
  <2>1. work.id \in DOMAIN events
    BY DEF Own, RowsExist
  <2> QED
    BY <2>1, PaymentIsOne, PlaygroundAssumption DEF Own, TypeOK, RowsExist, EventRow, Work
<1>2. audit' = [audit EXCEPT ![Payment] =
                  Append(audit[Payment], [event |-> work.id, status |-> status])]
  BY DEF Finish
<1>3. LogsGrow /\ Rows'
  BY <1>2, LogsAfterCall
<1>4. /\ work'.id = work.id /\ work'.pc \in {"ask", "final"}
      /\ work'.seen = Append(work.seen, status)
  BY FinishFacts
<1>5. LastStatus(work'.seen) = status
  BY <1>1, <1>4, LastAppended
<1>6. EndsWith(audit'[Payment], work.id, status)
  <2>1. audit'[Payment] = Append(audit[Payment], [event |-> work.id, status |-> status])
    BY <1>1, <1>2
  <2>2. audit[Payment] \in Seq(Entry)
    BY <1>1
  <2> QED
    BY <1>1, <2>1, <2>2, EndsAppended
<1> QED
  BY <1>3, <1>4, <1>5, <1>6 DEF Continues

\* The steps of the call with the lock, before its ledger row.
LEMMA PipelineCovers ==
  ASSUME Own, Own', SInv, RouteFails \/ RouteCase \/ Ask \/ StoreAnswer \/ OutOfAsks
                          \/ Build \/ Gate \/ Act \/ Settle
  PROVE  SInv'
<1>1. work \in Work /\ UNCHANGED <<events, ledger, phase, drain, run, stamp>> /\ work.pc # "none"
  <2>1. work \in Work
    BY DEF Own, TypeOK
  <2>2. CASE RouteFails \/ RouteCase \/ OutOfAsks
    BY <2>1, <2>2 DEF RouteFails, RouteCase, OutOfAsks, Elsewhere, limiter, store
  <2>3. CASE Ask \/ StoreAnswer
    BY <2>1, <2>3 DEF Ask, StoreAnswer, limiter, store
  <2>4. CASE Build \/ Gate \/ Act \/ Settle
    BY <2>1, <2>4 DEF Build, Gate, Act, Settle, Tools, Elsewhere, limiter, store
  <2> QED
    BY <2>2, <2>3, <2>4
<1>2. Rows /\ Visits /\ LedgerGrows
  BY <1>1 DEF SInv, LedgerGrows
<1>3. ASSUME UNCHANGED audit, work' \in Work, work'.pc # "none", work'.id = work.id,
             work'.seen = work.seen
      PROVE  LogsGrow /\ Rows' /\ Continues
  BY <1>1, <1>2, <1>3, SameLogs DEF Rows, Continues
<1>4. ASSUME NEW status \in Statuses, Finish(status), work.pc \in {"gate", "settle"}
      PROVE  LogsGrow /\ Rows' /\ Continues /\ work'.id = work.id
  BY <1>1, <1>2, <1>4, FinishCovers
<1>5. work' \in Work
  BY DEF Own, TypeOK
<1>6. LogsGrow /\ Rows' /\ Continues /\ work'.id = work.id
  <2>1. CASE RouteFails \/ OutOfAsks \/ Act
    <3>1. \E pc \in {"failed", "final", "settle"} : work' = [work EXCEPT !.pc = pc]
      BY <2>1 DEF RouteFails, OutOfAsks, Act, Conclude
    <3>2. work'.pc # "none" /\ work'.id = work.id /\ work'.seen = work.seen
      BY <1>1, <3>1 DEF Work
    <3>3. UNCHANGED audit
      BY <2>1 DEF RouteFails, OutOfAsks, Act, store
    <3> QED
      BY <1>3, <1>5, <3>2, <3>3
  <2>2. CASE RouteCase
    <3>1. \E pc \in Tools \cup {"final", "ask"}, path \in Paths :
            work' = [work EXCEPT !.pc = pc, !.path = path, !.amount = demo[Payment]]
      BY <2>2 DEF RouteCase, Paths
    <3>2. work'.pc # "none" /\ work'.id = work.id /\ work'.seen = work.seen
      BY <1>1, <3>1 DEF Work, Tools
    <3>3. UNCHANGED audit
      BY <2>2 DEF RouteCase, store
    <3> QED
      BY <1>3, <1>5, <3>2, <3>3
  <2>3. CASE Ask \/ StoreAnswer
    <3>1. \E pc : work' = [work EXCEPT !.pc = pc]
      BY <2>3 DEF Ask, StoreAnswer, Conclude, Follow
    <3>2. work'.id = work.id /\ work'.seen = work.seen
      BY <1>1, <3>1 DEF Work
    <3>3. UNCHANGED audit
      BY <2>3 DEF Ask, StoreAnswer, store
    <3>4. work'.pc # "none"
      <4>1. WriteDone => open.answer \in Answers
        BY DEF WriteDone, Own, TypeOK, CacheTypeOK
      <4>2. CASE Ask
        <5>1. \E pc \in Answers \cup {"write", "failed"} : work' = [work EXCEPT !.pc = pc]
          BY <4>2 DEF Ask, Conclude, Follow
        <5> QED
          BY <1>1, <5>1, PlaygroundAssumption DEF Work
      <4>3. CASE StoreAnswer
        <5>1. \E pc \in Answers \cup {"failed"} : work' = [work EXCEPT !.pc = pc]
          BY <4>1, <4>3 DEF StoreAnswer, Conclude, Follow
        <5> QED
          BY <1>1, <5>1, PlaygroundAssumption DEF Work
      <4> QED
        BY <2>3, <4>2, <4>3
    <3> QED
      BY <1>3, <1>5, <3>2, <3>3, <3>4
  <2>4. CASE Build
    <3>1. work' = [work EXCEPT !.pc = "gate", !.action = ActionOf(work.pc)] /\ UNCHANGED audit
      BY <2>4 DEF Build, store
    <3>2. work'.pc # "none" /\ work'.id = work.id /\ work'.seen = work.seen
      BY <1>1, <3>1 DEF Work
    <3> QED
      BY <1>3, <1>5, <3>1, <3>2
  <2>5. CASE Gate
    <3>1. CASE Conclude("act") /\ UNCHANGED audit
      <4>1. work'.pc # "none" /\ work'.id = work.id /\ work'.seen = work.seen
        BY <1>1, <3>1 DEF Conclude, Work
      <4> QED
        BY <1>3, <1>5, <3>1, <4>1
    <3>2. ASSUME NEW status \in Refusals, Finish(status)
          PROVE  LogsGrow /\ Rows' /\ Continues /\ work'.id = work.id
      <4>1. status \in Statuses /\ work.pc \in {"gate", "settle"}
        BY <2>5 DEF Refusals, Statuses, Gate
      <4> QED
        BY <1>4, <3>2, <4>1
    <3> QED
      BY <2>5, <3>1, <3>2 DEF Gate
  <2>6. CASE Settle
    <3>1. Finish("executed") /\ "executed" \in Statuses /\ work.pc \in {"gate", "settle"}
      BY <2>6 DEF Settle, Statuses
    <3> QED
      BY <1>4, <3>1
  <2> QED
    BY <2>1, <2>2, <2>3, <2>4, <2>5, <2>6
<1>7. Visits'
  BY <1>1, <1>2 DEF Visits
<1>8. \A id : Busy(id)' => Busy(id)
  BY <1>1, <1>6 DEF Busy
<1> QED
  BY <1>1, <1>2, <1>6, <1>7, <1>8, CallCovers

\* The call is over with its ledger row: its request may read the log, and the row
\* tells how the log ends.
LEMMA RecordCovers ==
  ASSUME Own, Own', SInv, Record
  PROVE  SInv'
<1>1. /\ UNCHANGED <<events, audit, phase, drain, stamp>> /\ work' = NoWork
      /\ work.pc \in {"final", "failed"}
  BY DEF Record, Elsewhere, limiter
<1>2. RowOf(work).event = work.id /\ work.id \in DOMAIN events
  BY <1>1, RowTyped DEF Own, RowsExist
<1>3. /\ Len(ledger) \in Nat /\ DOMAIN ledger = 1..Len(ledger)
      /\ DOMAIN ledger' = 1..(Len(ledger) + 1)
      /\ \A i \in DOMAIN ledger : ledger'[i] = ledger[i]
      /\ ledger'[Len(ledger) + 1] = RowOf(work)
  BY RecordFacts
<1>4. \A i \in DOMAIN ledger' : i \in DOMAIN ledger \/ i = Len(ledger) + 1
  BY <1>3
<1>5. LedgerGrows
  <2>1. DOMAIN ledger \subseteq DOMAIN ledger'
    BY <1>3
  <2> QED
    BY <1>1, <1>2, <1>3, <1>4, <2>1 DEF LedgerGrows, Busy
<1>6. \A r \in Requests :
        /\ run'[r].scenario = run[r].scenario /\ run'[r].id = run[r].id
        /\ run'[r].before = run[r].before
        /\ \/ run'[r] = run[r] /\ ~(run[r].pc = "held" /\ run[r].id = work.id)
           \/ /\ run[r].pc = "held" /\ run[r].id = work.id
              /\ run'[r].pc = "answer" /\ run'[r].row = Len(ledger) + 1
  BY RecordFacts
<1>7. Visits'
  <2>1. Visits
    BY DEF SInv
  <2>2. phase # "serving" => \A r \in Requests : run'[r].pc = "idle"
    BY <1>6, <2>1 DEF Visits
  <2> QED
    BY <1>1, <1>6, <2>1, <2>2 DEF Visits
<1>8. Rows'
  <2>1. Rows
    BY DEF SInv
  <2>2. ASSUME NEW i \in DOMAIN ledger' PROVE ledger'[i].event \in DOMAIN events
    BY <1>2, <1>3, <1>4, <2>1, <2>2 DEF Rows
  <2> QED
    BY <1>1, <2>1, <2>2 DEF Rows
<1>9. ASSUME NEW r \in Requests
      PROVE  Stage(r)' /\ (run'[r].pc = "done" /\ run'[r].id # 0 => Answered(r)')
  <2>1. Stage(r) /\ Visits /\ (run[r].pc = "done" /\ run[r].id # 0 => Answered(r))
    BY AnswersOwed
  <2>2. CASE run'[r] = run[r] /\ ~(run[r].pc = "held" /\ run[r].id = work.id)
    <3>1. run[r].pc # "held"
      BY <2>1, <2>2 DEF Stage, Busy
    <3>2. ~Busy(run[r].id)'
      BY <1>1, <2>2 DEF Busy, NoWork
    <3> QED
      BY <1>1, <1>5, <2>1, <2>2, <3>1, <3>2, SameLogs, StageKept
  <2>3. CASE /\ run[r].pc = "held" /\ run[r].id = work.id
             /\ run'[r].pc = "answer" /\ run'[r].row = Len(ledger) + 1
    <3>1. Log(r)' = Log(r)
      BY <1>1, <1>6 DEF Log
    <3>2. /\ EndsWith(Log(r), run[r].id, LastStatus(work.seen))
          /\ run[r].before <= Len(Log(r))
          /\ \A j \in DOMAIN Log(r) : Log(r)[j].event = run[r].id => j > run[r].before
      BY <2>1, <2>3 DEF Stage
    <3>3. Agrees(RowOf(work), Log(r), run[r].id)
      BY <1>1, <1>2, <2>3, <3>2 DEF Agrees, RowOf
    <3>4. Agrees(ledger'[run'[r].row], Log(r), run[r].id)
      BY <1>3, <2>3, <3>3
    <3> QED
      BY <1>1, <1>6, <2>3, <3>1, <3>2, <3>4 DEF Stage, Busy, NoWork
  <2> QED
    BY <1>6, <2>2, <2>3
<1> QED
  BY <1>7, <1>8, <1>9, AnswersGiven

\* While nobody visits, nothing is owed.
LEMMA IdleCovers ==
  ASSUME Own', Visits', Rows', \A r \in Requests : run'[r].pc = "idle"
  PROVE  SInv'
<1>1. \A r \in Requests : run'[r].id = 0
  BY DEF Own, RowsExist
<1> QED
  BY <1>1 DEF SInv, Stage, ShownCoversOwn, HalvesAgree

LEMMA SameCall == UNCHANGED <<events, ledger, audit, work>> => LedgerGrows /\ Continues
BY DEF LedgerGrows, Continues

LEMMA ProcessCovers ==
  ASSUME Own, Own', SInv, Boot \/ DrainNext \/ Serve \/ Crash \/ TimePasses
  PROVE  SInv'
<1>1. UNCHANGED <<events, ledger, audit>>
  BY DEF Boot, DrainNext, Serve, Crash, TimePasses, store
<1>2. Rows'
  BY <1>1 DEF SInv, Rows
<1>3. CASE Boot \/ DrainNext \/ Serve
  <2>1. UNCHANGED <<run, stamp>> /\ phase # "serving"
    BY <1>3 DEF Boot, DrainNext, Serve, Elsewhere, limiter, SInv, Visits
  <2>2. phase' = "serving" => drain' = {}
    BY <1>3, <2>1 DEF Boot, DrainNext, Serve
  <2>3. Visits'
    BY <2>1, <2>2, <1>1 DEF SInv, Visits
  <2>4. \A r \in Requests : run'[r].pc = "idle"
    BY <2>1 DEF SInv, Visits
  <2> QED
    BY <2>3, <2>4, <1>2, IdleCovers
<1>4. CASE Crash
  <2>1. /\ phase' = "down" /\ \A r \in Requests : stamp'[r] = None /\ run'[r] = NoRun
    BY <1>4 DEF Crash, LimiterRestart
  <2>2. Visits'
    BY <2>1 DEF Visits, NoRun
  <2> QED
    BY <2>1, <2>2, <1>2, IdleCovers DEF NoRun
<1>5. CASE TimePasses
  <2>1. UNCHANGED <<run, work, stamp, phase, drain>>
    BY <1>5 DEF TimePasses, Tick
  <2>2. Visits'
    BY <2>1, <1>1 DEF SInv, Visits
  <2> QED
    BY <2>1, <2>2, <1>1, <1>2, SameLogs, SameCall, CallCovers DEF Busy
<1> QED
  BY <1>3, <1>4, <1>5

\* A step of one request: the others stay, and it must come to a stage of its own.
LEMMA RequestCovers ==
  ASSUME Own, Own', SInv, NEW r \in Requests, UNCHANGED <<ledger, audit>>, Visits', Rows',
         \A q \in Requests : q # r => run'[q] = run[q],
         \A q \in Requests : q # r /\ run[q].id # 0 /\ Busy(run[q].id)' => Busy(run[q].id),
         Continues, Stage(r)', run'[r].pc = "done" /\ run'[r].id # 0 => Answered(r)'
  PROVE  SInv'
<1>1. LogsGrow /\ LedgerGrows
  BY SameLogs DEF LedgerGrows
<1>2. ASSUME NEW q \in Requests
      PROVE  Stage(q)' /\ (run'[q].pc = "done" /\ run'[q].id # 0 => Answered(q)')
  <2>1. CASE q = r
    BY <2>1
  <2>2. CASE q # r
    <3>1. Stage(q) /\ Visits /\ (run[q].pc = "done" /\ run[q].id # 0 => Answered(q))
      BY AnswersOwed
    <3>2. run[q].id # 0 /\ Busy(run[q].id)' => Busy(run[q].id)
      BY <2>2
    <3>3. run'[q] = run[q]
      BY <2>2
    <3> QED
      BY <1>1, <3>1, <3>2, <3>3, StageKept
  <2> QED
    BY <2>1, <2>2
<1> QED
  BY <1>2, AnswersGiven

LEMMA PersistCovers ==
  ASSUME Own, Own', SInv, NEW r \in Requests, Persist(r)
  PROVE  SInv'
<1> DEFINE new == Len(events) + 1
<1>1. /\ run \in [Requests -> Run] /\ run[r] \in Run /\ run[r].id = 0
      /\ DOMAIN events = 1..Len(events) /\ Len(events) \in Nat
      /\ Visits /\ Rows /\ Stage(r) /\ run[r].pc = "persist"
  BY DEF Own, TypeOK, RowsExist, SInv, Persist
<1>2. /\ Len(events) < MaxEvents
      /\ UNCHANGED <<ledger, audit, phase, drain, work, stamp>>
      /\ events' = Append(events, run[r].scenario)
      /\ run' = [run EXCEPT ![r].pc = "before", ![r].id = new]
      /\ run[r].scenario \in Scenario /\ events \in Seq(Scenario)
  BY DEF Persist, Elsewhere, limiter, Own, TypeOK, RowsExist
<1>3. /\ DOMAIN events \subseteq DOMAIN events' /\ new \in DOMAIN events' /\ new \notin DOMAIN events
      /\ \A i \in DOMAIN events : events'[i] = events[i]
      /\ events'[new] = run[r].scenario
  <2>1. /\ DOMAIN events' = 1..(Len(events) + 1)
        /\ \A i \in 1..Len(events) : events'[i] = events[i]
        /\ events'[Len(events) + 1] = run[r].scenario
    BY <1>2, AppendProperties, LenProperties
  <2> QED
    BY <2>1, <1>1
<1>4. new # 0
  BY <1>1
<1> HIDE DEF new
<1>5. run'[r] = [run[r] EXCEPT !.pc = "before", !.id = new]
      /\ \A q \in Requests : q # r => run'[q] = run[q]
  BY <1>1, <1>2
<1>6. /\ run'[r].pc = "before" /\ run'[r].id = new /\ run'[r].scenario = run[r].scenario
      /\ \A q \in Requests : q # r => run'[q] = run[q]
  BY <1>1, <1>5 DEF Run
<1>7. Visits'
  <2>1. phase = "serving"
    BY <1>1 DEF Visits
  <2>2. \A q \in Requests : run[q].id # 0 => run[q].id # new
    BY <1>1, <1>3 DEF Visits
  <2>3. ASSUME NEW q \in Requests, run'[q].id # 0
        PROVE  /\ run'[q].id \in DOMAIN events' /\ run'[q].scenario \in Scenario
               /\ events'[run'[q].id] = run'[q].scenario
    <3>1. CASE q = r
      BY <3>1, <1>2, <1>3, <1>6
    <3>2. CASE q # r
      BY <3>2, <2>3, <1>1, <1>3, <1>6 DEF Visits
    <3> QED
      BY <3>1, <3>2
  <2>4. ASSUME NEW q \in Requests, NEW s \in Requests, run'[q].id # 0, run'[q].id = run'[s].id
        PROVE  q = s
    BY <2>2, <2>4, <1>1, <1>4, <1>6 DEF Visits
  <2> QED
    BY <1>1, <1>2, <2>1, <2>3, <2>4 DEF Visits
<1>8. Rows'
  BY <1>1, <1>2, <1>3 DEF Rows
<1>9. /\ ~(work.pc # "none" /\ work.id = new)
      /\ \A i \in DOMAIN ledger : ledger[i].event # new
      /\ \A p \in Payments : \A j \in DOMAIN audit[p] : audit[p][j].event # new
  BY <1>1, <1>3 DEF Rows, Own, RowsExist
<1>10. Stage(r)'
  BY <1>2, <1>6, <1>9 DEF Stage, NotBegun, Busy
<1>11. Continues
  BY <1>2 DEF Continues
<1> QED
  BY <1>2, <1>6, <1>7, <1>8, <1>10, <1>11, RequestCovers DEF Busy

\* Nothing was done for the event before its request has the lock.
LEMMA BeginCovers ==
  ASSUME Own, Own', SInv, NEW r \in Requests, BeginRun(r)
  PROVE  SInv'
<1>1. /\ run \in [Requests -> Run] /\ run[r] \in Run /\ run[r].id \in DOMAIN events
      /\ Visits /\ Rows /\ Stage(r) /\ run[r].pc = "wait" /\ work = NoWork
  BY DEF Own, TypeOK, RowsExist, SInv, BeginRun
<1>2. run[r].id # 0
  BY <1>1 DEF Own, TypeOK
<1>3. /\ NotBegun(run[r].id) /\ run[r].before <= Len(Log(r))
      /\ UNCHANGED <<events, ledger, audit, phase, drain, stamp>>
  BY <1>1 DEF BeginRun, Elsewhere, store, limiter, Stage
<1>4. RowsOf(run[r].id) = {}
  BY <1>3 DEF RowsOf, NotBegun
<1>5. /\ run' = [run EXCEPT ![r].pc = "held"]
      /\ work' = [NoWork EXCEPT !.pc = "route", !.id = run[r].id]
  BY <1>4 DEF BeginRun, Goto, Ledgered, Taken
<1>6. work'.pc = "route" /\ work'.id = run[r].id /\ work'.seen = <<>>
  BY <1>5 DEF NoWork
<1>7. /\ run'[r] = [run[r] EXCEPT !.pc = "held"]
      /\ \A q \in Requests : q # r => run'[q] = run[q]
  BY <1>1, <1>5
<1>8. /\ run'[r].pc = "held" /\ run'[r].before = run[r].before /\ run'[r].id = run[r].id
      /\ run'[r].scenario = run[r].scenario
  BY <1>1, <1>7 DEF Run
<1>9. Visits' /\ Rows'
  <2>1. \A q \in Requests : /\ run'[q].id = run[q].id /\ run'[q].scenario = run[q].scenario
                            /\ run'[q].pc = run[q].pc \/ q = r
    BY <1>7, <1>8
  <2>2. phase = "serving"
    BY <1>1 DEF Visits
  <2> QED
    BY <1>1, <1>3, <2>1, <2>2 DEF Visits, Rows
<1>10. Stage(r)'
  <2>1. Log(r)' = Log(r) /\ run[r].scenario.payment \in Payments
    BY <1>1, <1>2, <1>3, <1>8 DEF Log, Visits, Scenario
  <2>2. \A j \in DOMAIN Log(r) : Log(r)[j].event # run[r].id
    BY <1>3, <2>1 DEF NotBegun, Log
  <2>3. EndsWith(Log(r), run[r].id, LastStatus(work'.seen))
    BY <1>6, <2>2 DEF EndsWith, LastStatus
  <2>4. Busy(run[r].id)'
    BY <1>6, <1>8 DEF Busy
  <2> QED
    BY <1>3, <1>6, <1>8, <2>1, <2>2, <2>3 DEF Stage, Busy
<1>11. \A q \in Requests : q # r /\ run[q].id # 0 => ~(work'.pc # "none" /\ work'.id = run[q].id)
  BY <1>1, <1>6 DEF Visits
<1>12. Continues
  BY <1>1 DEF Continues, NoWork
<1> QED
  BY <1>3, <1>7, <1>8, <1>9, <1>10, <1>11, <1>12, RequestCovers DEF Busy

\* The piece of the log shown holds all entries of the run, and ends with what the
\* row says.
LEMMA AnswerCovers ==
  ASSUME Own, Own', SInv, NEW r \in Requests, AnswerRun(r)
  PROVE  SInv'
<1> DEFINE log == Log(r)
           m == run[r].before
           piece == NewEntries(r)
           row == AnswerRow(r)
<1>1. /\ run \in [Requests -> Run] /\ run[r] \in Run /\ run[r].id \in DOMAIN events
      /\ Visits /\ Rows /\ Stage(r) /\ run[r].pc = "answer"
  BY DEF Own, TypeOK, RowsExist, SInv, AnswerRun
<1>2. run[r].id # 0
  BY <1>1 DEF Own, TypeOK
<1>3. /\ UNCHANGED <<events, ledger, audit, phase, drain, work, stamp>>
      /\ run' = [run EXCEPT ![r].pc = "done", ![r].shown = piece, ![r].answer = row]
  BY DEF AnswerRun, Elsewhere, store, limiter
<1>4. /\ m \in Nat /\ m <= Len(log) /\ ~Busy(run[r].id)
      /\ \A j \in DOMAIN log : log[j].event = run[r].id => j > m
      /\ row.event = run[r].id /\ (row.path # "failed" => EndsWith(log, run[r].id, row.status))
  BY <1>1, <1>2 DEF Stage, AnswerRow, Agrees, Run
<1>5. log \in Seq(Entry) /\ Len(log) \in Nat /\ DOMAIN log = 1..Len(log)
  <2>1. run[r].scenario.payment \in Payments
    BY <1>1, <1>2 DEF Visits, Scenario
  <2> QED
    BY <2>1, LogTypes DEF Log
<1>6. piece = SubSeq(log, m + 1, Len(log))
  BY DEF NewEntries, Log
<1> HIDE DEF log, m, piece, row
<1>7. /\ DOMAIN piece = 1..(Len(log) - m)
      /\ \A i \in 1..(Len(log) - m) : piece[i] = log[m + i]
  BY <1>4, <1>5, <1>6, LastPiece
<1>8. run'[r] = [run[r] EXCEPT !.pc = "done", !.shown = piece, !.answer = row]
      /\ \A q \in Requests : q # r => run'[q] = run[q]
  BY <1>1, <1>3
<1>9. /\ run'[r].pc = "done" /\ run'[r].shown = piece /\ run'[r].before = m
      /\ run'[r].answer = row /\ run'[r].id = run[r].id /\ run'[r].scenario = run[r].scenario
  BY <1>1, <1>8 DEF Run, m
<1>10. Visits' /\ Rows'
  BY <1>1, <1>3, <1>8, <1>9 DEF Visits, Rows
<1>11. Stage(r)'
  BY <1>3, <1>4, <1>9 DEF Stage, Busy
<1>12. Log(r)' = log
  BY <1>3, <1>9 DEF Log, log
<1>13. Shows(r)'
  <2>1. ASSUME NEW i \in DOMAIN piece PROVE m + i \in DOMAIN log /\ piece[i] = log[m + i]
    BY <1>4, <1>5, <1>7, <2>1
  <2>2. ASSUME NEW j \in DOMAIN log, log[j].event = run[r].id PROVE j - m \in DOMAIN piece
    <3>1. j > m /\ j \in 1..Len(log)
      BY <1>4, <1>5, <2>2
    <3>2. j - m \in 1..(Len(log) - m)
      BY <1>4, <1>5, <3>1
    <3> QED
      BY <1>7, <3>2
  <2> QED
    BY <1>9, <1>12, <2>1, <2>2 DEF Shows
<1>14. Agrees(row, piece, run[r].id)
  <2>1. ASSUME NEW status, EndsWith(log, run[r].id, status)
        PROVE  EndsWith(piece, run[r].id, status)
    <3> DEFINE n == Len(log)
               id == run[r].id
    <3>1. /\ n \in Nat /\ DOMAIN log = 1..n /\ m \in Nat /\ m <= n
          /\ DOMAIN piece = 1..(n - m) /\ \A i \in 1..(n - m) : piece[i] = log[m + i]
          /\ \A j \in 1..n : log[j].event = id => j > m
          /\ EndsWith(log, id, status)
      BY <1>4, <1>5, <1>7, <2>1
    <3> HIDE DEF n, id
    <3>2. EndsWith(piece, id, status)
      BY ONLY <3>1, EndsPiece
    <3> QED
      BY <3>2 DEF id
  <2>2. row.path # "failed" => EndsWith(piece, run[r].id, row.status)
    BY <1>4, <2>1
  <2> QED
    BY <1>4, <2>2 DEF Agrees
<1>15. Answered(r)'
  BY <1>9, <1>13, <1>14 DEF Answered
<1>16. Continues
  BY <1>3 DEF Continues
<1> QED
  BY <1>3, <1>8, <1>10, <1>11, <1>15, <1>16, RequestCovers DEF Busy

LEMMA ServesCovers ==
  ASSUME Own, Own', SInv, NEW r \in Requests, Serves(r)
  PROVE  SInv'
<1>1. /\ run \in [Requests -> Run] /\ run[r] \in Run
      /\ run[r].pc \in {"idle", "seed", "persist"} => run[r].id = 0
      /\ run[r].pc = "before" => run[r].id \in DOMAIN events
      /\ Visits /\ Rows /\ Stage(r)
  BY DEF Own, TypeOK, RowsExist, SInv
<1>2. CASE Arrive(r)
  <2>1. /\ UNCHANGED <<events, ledger, audit, phase, drain, work, run>> /\ phase = "serving"
        /\ run[r].pc = "idle"
    BY <1>2 DEF Arrive, store
  <2>2. Visits' /\ Rows'
    BY <1>1, <2>1 DEF Visits, Rows
  <2> QED
    BY <2>1, <2>2, SameLogs, SameCall, CallCovers DEF Busy
<1>3. ASSUME NEW s \in Scenario, Admit(r, s) PROVE SInv'
  <2>1. PICK pc \in {"seed", "done"} :
          run' = [run EXCEPT ![r] = [run[r] EXCEPT !.pc = pc, !.scenario = s]]
    BY <1>1, <1>3 DEF Admit
  <2>2. /\ run[r].pc = "idle" /\ stamp[r] # None
        /\ UNCHANGED <<events, ledger, audit, phase, drain, work>>
    BY <1>3 DEF Admit, Allow, store
  <2>3. run'[r].pc = pc /\ run'[r].id = 0 /\ \A q \in Requests : q # r => run'[q] = run[q]
    BY <1>1, <2>1, <2>2 DEF Run
  <2>4. Visits' /\ Rows'
    <3>1. phase = "serving"
      BY <1>1, <2>2 DEF Visits
    <3> QED
      BY <1>1, <2>2, <2>3, <3>1 DEF Visits, Rows
  <2>5. Stage(r)' /\ Continues
    BY <2>2, <2>3, SameCall DEF Stage
  <2> QED
    BY <2>2, <2>3, <2>4, <2>5, RequestCovers DEF Busy
<1>4. CASE Seed(r)
  <2>1. /\ run[r].pc = "seed" /\ UNCHANGED <<events, ledger, audit, phase, drain, work, stamp>>
        /\ run' = [run EXCEPT ![r].pc = "persist"]
    BY <1>4 DEF Seed, Goto, Elsewhere, store, limiter
  <2>2. run'[r].pc = "persist" /\ run'[r].id = 0 /\ \A q \in Requests : q # r => run'[q] = run[q]
    BY <1>1, <2>1 DEF Run
  <2>3. Visits' /\ Rows'
    BY <1>1, <2>1, <2>2 DEF Visits, Rows
  <2>4. Stage(r)' /\ Continues
    BY <2>1, <2>2, SameCall DEF Stage
  <2> QED
    BY <2>1, <2>2, <2>3, <2>4, RequestCovers DEF Busy
<1>5. CASE Persist(r)
  BY <1>5, PersistCovers
<1>6. CASE CountAudit(r)
  <2> DEFINE n == Len(Log(r))
  <2>1. /\ run[r].pc = "before" /\ UNCHANGED <<events, ledger, audit, phase, drain, work, stamp>>
        /\ run' = [run EXCEPT ![r].pc = "wait", ![r].before = n]
    BY <1>6 DEF CountAudit, Elsewhere, store, limiter, Log
  <2>2. n \in Nat /\ NotBegun(run[r].id)
    <3>1. run[r].id # 0
      BY <1>1, <2>1 DEF Own, TypeOK
    <3>2. run[r].scenario.payment \in Payments
      BY <1>1, <3>1 DEF Visits, Scenario
    <3> QED
      BY <3>2, <1>1, <2>1, LogTypes DEF Log, Stage
  <2> HIDE DEF n
  <2>3. /\ run'[r].pc = "wait" /\ run'[r].before = n /\ run'[r].scenario = run[r].scenario
        /\ run'[r].id = run[r].id /\ \A q \in Requests : q # r => run'[q] = run[q]
    BY <1>1, <2>1 DEF Run
  <2>4. Visits' /\ Rows'
    BY <1>1, <2>1, <2>3 DEF Visits, Rows
  <2>5. Stage(r)' /\ Continues
    <3>1. Log(r)' = Log(r) /\ n <= n
      BY <2>1, <2>2, <2>3 DEF Log
    <3> QED
      BY <2>1, <2>2, <2>3, <3>1, SameCall DEF Stage, NotBegun, Busy, n
  <2> QED
    BY <2>1, <2>3, <2>4, <2>5, RequestCovers DEF Busy
<1>7. CASE BeginRun(r)
  BY <1>7, BeginCovers
<1>8. CASE AnswerRun(r)
  BY <1>8, AnswerCovers
<1> QED
  BY <1>2, <1>3, <1>4, <1>5, <1>6, <1>7, <1>8 DEF Serves

LEMMA InitCovers == Init => SInv
BY DEF Init, LimiterInit, NoRun, SInv, Visits, Rows, Stage, ShownCoversOwn, HalvesAgree

LEMMA StepCovers == PInv /\ PInv' /\ SInv /\ [Next]_vars => SInv'
<1> SUFFICES ASSUME Own, Own', SInv, [Next]_vars PROVE SInv'
  BY DEF PInv
<1>1. CASE \E r \in Requests : Serves(r)
  BY <1>1, ServesCovers
<1>2. CASE Pipeline
  BY <1>2, PipelineCovers, RecordCovers DEF Pipeline
<1>3. CASE Boot \/ DrainNext \/ Serve \/ Crash \/ TimePasses
  BY <1>3, ProcessCovers
<1>4. CASE UNCHANGED vars
  <2>1. UNCHANGED <<events, ledger, audit, phase, drain, work, run, stamp>>
    BY <1>4 DEF vars, store, limiter
  <2>2. Visits' /\ Rows'
    BY <2>1 DEF SInv, Visits, Rows
  <2> QED
    BY <2>1, <2>2, SameLogs, SameCall, CallCovers DEF Busy
<1> QED
  BY <1>1, <1>2, <1>3, <1>4 DEF Next

\* A visitor is shown every audit entry of the run that was made for him, in an
\* unbroken piece of the log, whatever others do between the two reads of it
\* (playground.py:340-346).
THEOREM PlaygroundShows == Spec => []ShownCoversOwn
<1>1. SInv => ShownCoversOwn
  BY DEF SInv
<1> QED
  BY <1>1, InitCovers, StepCovers, PlaygroundInvariant, PTL DEF Spec

\* The row and the entries of a response are of one run, the visitor's: the last
\* entry that is his says what the row says of the last call, unless the run raised
\* (playground.py:163-166, 343-347, pipeline.py:184-194, 271-275).
THEOREM PlaygroundAgrees == Spec => []HalvesAgree
<1>1. SInv => HalvesAgree
  BY DEF SInv
<1> QED
  BY <1>1, InitCovers, StepCovers, PlaygroundInvariant, PTL DEF Spec

=============================================================================
