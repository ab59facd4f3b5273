------------------------------ MODULE Playground ------------------------------
(***************************************************************************)
(* Demo runs (recovery/playground.py): requests of a thread pool, each of  *)
(* which passes the rate limiter, seeds a synthetic payment, stores an     *)
(* event, calls the pipeline and shows the audit entries that appeared.    *)
(* Composes the limiter, the demo provider, the pipeline with its lock and *)
(* its startup drain, the model's cache and, in the terms a demo run can   *)
(* tell apart, the executor that GuardedExecutor models in full.           *)
(***************************************************************************)
EXTENDS RateLimiter, ResponseCache

CONSTANTS
  Payments,   \* demo payment ids
  Amounts,    \* amounts a visitor may enter
  Threshold,  \* approval_threshold_inr
  MaxAsks,    \* max_iterations of an agent run
  MaxEvents,  \* bound: demo events stored in a behaviour
  MaxCrashes  \* bound: crashes in a behaviour

ASSUME PlaygroundAssumption ==
  /\ Amounts \subseteq Nat /\ Threshold \in Nat
  /\ MaxAsks \in Nat /\ MaxEvents \in Nat /\ MaxCrashes \in Nat
  /\ Answers \subseteq {"refund", "link", "final"}

VARIABLES
  demo,     \* DemoProvider's payments: an amount, or None for an unknown id
  events,   \* internal_events of the demo provider: the row id is the position
  ledger,   \* its rows, oldest first: a ledger id is a position
  audit,    \* per payment, its audit entries: whose call, and how it ended
  settled,  \* guard store: keys with a terminal result
  phase,    \* of the process: down, draining its backlog, serving
  drain,    \* row ids process_pending has yet to process
  work,     \* the call of process that holds the pipeline's lock
  run,      \* the requests under way
  crashes,
  moved     \* history: amounts refunded

store == <<events, ledger, audit, settled>>
vars  == <<limiter, cache, demo, store, phase, drain, work, run, crashes, moved>>

-----------------------------------------------------------------------------
EventRow == 1..MaxEvents
Scenario == [payment: Payments, amount: Amounts]
Tools    == {"refund", "link"}
Statuses == {"executed", "duplicate", "pending_approval", "blocked"}
PC       == {"idle", "seed", "persist", "before", "wait", "held", "answer", "done"}
Paths    == {"deterministic", "llm"}
NoRun    == [pc |-> "idle", scenario |-> None, id |-> 0, before |-> 0,
             row |-> 0, shown |-> <<>>, answer |-> None]
NoWork   == [pc |-> "none", id |-> 0, path |-> None, amount |-> None, action |-> None,
             seen |-> <<>>]

\* Every prompt a run may build has its cache entry.
ASSUME PromptsAssumption ==
  \A n \in 0..(MaxAsks - 1) :
    \A p \in Payments, a \in Amounts : \A s \in [1..n -> Statuses] : <<p, a, s>> \in Prompts

Payment == events[work.id].payment
\* What the model is asked: the case, and what its calls came to.
Prompt  == <<Payment, work.amount, work.seen>>

\* for_event.
RowsOf(id)   == {i \in DOMAIN ledger : ledger[i].event = id}
Ledgered(id) == RowsOf(id) # {}

Goto(r, pc) == run' = [run EXCEPT ![r].pc = pc]
\* A step of a request, and of the process without the limiter and the cache.
Elsewhere == UNCHANGED <<limiter, cache, crashes>>

-----------------------------------------------------------------------------
(* The request: run_scenario *)

Arrive(r) ==
  /\ phase = "serving" /\ run[r].pc = "idle"
  /\ ReadClock(r)
  /\ UNCHANGED <<cache, demo, store, phase, drain, work, run, crashes, moved>>

\* Admitted with a scenario, or answered 429.
Admit(r, s) ==
  /\ run[r].pc = "idle"
  /\ \E answer \in BOOLEAN :
       /\ Allow(r, answer)
       /\ run' = [run EXCEPT ![r].pc = IF answer THEN "seed" ELSE "done",
                             ![r].scenario = s]
  /\ UNCHANGED <<cache, demo, store, phase, drain, work, crashes, moved>>

\* _seed_demo_payment: the last visitor's amount is the payment's.
Seed(r) ==
  /\ run[r].pc = "seed"
  /\ demo' = [demo EXCEPT ![run[r].scenario.payment] = run[r].scenario.amount]
  /\ Goto(r, "persist")
  /\ Elsewhere /\ UNCHANGED <<store, phase, drain, work, moved>>

\* _persist_demo_event: a row with an event id of its own.
Persist(r) ==
  /\ run[r].pc = "persist" /\ Len(events) < MaxEvents
  /\ events' = Append(events, run[r].scenario)
  /\ run' = [run EXCEPT ![r].pc = "before", ![r].id = Len(events) + 1]
  /\ Elsewhere
  /\ UNCHANGED <<demo, ledger, audit, settled, phase, drain, work, moved>>

\* audit_before, read outside the pipeline's lock.
CountAudit(r) ==
  /\ run[r].pc = "before"
  /\ run' = [run EXCEPT ![r].pc = "wait", ![r].before = Len(audit[run[r].scenario.payment])]
  /\ Elsewhere /\ UNCHANGED <<demo, store, phase, drain, work, moved>>

\* process has the lock: nothing is left to do for an event with a ledger row.
Taken(id) == IF Ledgered(id) THEN NoWork ELSE [NoWork EXCEPT !.pc = "route", !.id = id]

BeginRun(r) ==
  /\ run[r].pc = "wait" /\ work = NoWork
  /\ work' = Taken(run[r].id)
  /\ \/ ~Ledgered(run[r].id) /\ Goto(r, "held")
     \/ \E i \in RowsOf(run[r].id) :
          run' = [run EXCEPT ![r].pc = "answer", ![r].row = i]
  /\ Elsewhere /\ UNCHANGED <<demo, store, phase, drain, moved>>

\* Faulty: the slice starts one entry late.
SkipsFirst(r) == SubSeq(audit[run[r].scenario.payment], run[r].before + 2,
                        Len(audit[run[r].scenario.payment]))
\* read_audit(...)[audit_before:], again outside the lock.
NewEntries(r) == SubSeq(audit[run[r].scenario.payment], run[r].before + 1,
                        Len(audit[run[r].scenario.payment]))

\* Faulty: the newest row, as the list of recent runs shows it.
NewestRow(r) == ledger[Len(ledger)]
\* The row of the ledger id that process returned.
AnswerRow(r) == ledger[run[r].row]

\* build_result assembles the response from what was stored.
AnswerRun(r) ==
  /\ run[r].pc = "answer"
  /\ run' = [run EXCEPT ![r].pc = "done", ![r].shown = NewEntries(r),
                         ![r].answer = AnswerRow(r)]
  /\ Elsewhere /\ UNCHANGED <<demo, store, phase, drain, work, moved>>

-----------------------------------------------------------------------------
(* The pipeline, under its lock *)

Conclude(path) ==
  work' = [work EXCEPT !.pc = path]

\* Faulty: a payment the provider does not know goes on.
AnyPayment(p) == TRUE
KnownPayment(p) == demo[p] # None

\* get_payment raises: the process that seeded the payment is gone.
RouteFails ==
  /\ work.pc = "route" /\ ~KnownPayment(Payment)
  /\ Conclude("failed")
  /\ Elsewhere /\ UNCHANGED <<demo, store, phase, drain, run, moved>>

\* The case is built from the provider's record.  A rule's action is a tool, or none
\* ("no_effect"); without a rule the agent takes the case.
RouteCase ==
  /\ work.pc = "route" /\ KnownPayment(Payment)
  /\ \/ \E pc \in Tools \cup {"final"} :
          work' = [work EXCEPT !.pc = pc, !.path = "deterministic", !.amount = demo[Payment]]
     \/ work' = [work EXCEPT !.pc = "ask", !.path = "llm", !.amount = demo[Payment]]
  /\ Elsewhere /\ UNCHANGED <<demo, store, phase, drain, run, moved>>

\* The model's answer: a tool, or a final decision, which ends the run.
Follow(a) == work' = [work EXCEPT !.pc = a]

\* Every answer but the final one has come to a status.
Ask ==
  /\ work.pc = "ask" /\ Len(work.seen) < MaxAsks
  /\ \/ \E a \in Answers : Hit(Prompt, a) /\ Follow(a)
     \/ \E a \in Answers : MissAnswered(Prompt, a) /\ Follow("write")
     \/ HitRaises(Prompt) /\ Conclude("failed")
     \/ MissRaises(Prompt) /\ Conclude("failed")
  /\ UNCHANGED <<limiter, demo, store, phase, drain, run, crashes, moved>>

StoreAnswer ==
  /\ work.pc = "write"
  /\ \/ WriteDone /\ Follow(open.answer)
     \/ WriteRaises /\ Conclude("failed")
  /\ UNCHANGED <<limiter, demo, store, phase, drain, run, crashes, moved>>

\* max_iterations.
OutOfAsks ==
  /\ work.pc = "ask" /\ Len(work.seen) >= MaxAsks
  /\ Conclude("final")
  /\ Elsewhere /\ UNCHANGED <<demo, store, phase, drain, run, moved>>

\* A refund's cost and its amount are one reading of the provider, taken here and
\* carried in the action; a link costs nothing and moves nothing.
ActionOf(tool) ==
  LET inr == IF tool = "refund" THEN demo[Payment] ELSE 0
  IN [tool |-> tool, cost |-> inr, amount |-> inr]

\* build_action, of the rule path and of the agent.
Build ==
  /\ work.pc \in Tools
  /\ work' = [work EXCEPT !.pc = "gate", !.action = ActionOf(work.pc)]
  /\ Elsewhere /\ UNCHANGED <<demo, store, phase, drain, run, moved>>

Key == <<Payment, work.action.tool>>

\* An open breaker, a budget or the cap may block any call; else its key and the
\* approval gate decide.
Held     == work.action.cost > Threshold
Refusals ==
  {"blocked"} \cup (IF Key \in settled THEN {"duplicate"}
                   ELSE IF Held THEN {"pending_approval"} ELSE {})

\* The call ends: its audit entry, and back to the agent or on to the ledger.
Finish(status) ==
  /\ audit' = [audit EXCEPT ![Payment] = Append(@, [event |-> work.id, status |-> status])]
  /\ work' = [work EXCEPT !.pc = IF work.path = "llm" THEN "ask" ELSE "final",
                          !.action = None, !.seen = Append(@, status)]

Gate ==
  /\ work.pc = "gate"
  /\ \/ \E status \in Refusals : Finish(status)
     \/ Key \notin settled /\ ~Held /\ Conclude("act") /\ UNCHANGED audit
  /\ Elsewhere /\ UNCHANGED <<demo, events, ledger, settled, phase, drain, run, moved>>

\* Faulty: the handler asks the provider once more.
RefundsCurrent == demo[Payment]
\* The handler refunds the amount in the action's parameters; the demo provider
\* takes any.
Refunded == work.action.amount

Act ==
  /\ work.pc = "act"
  /\ moved' = IF work.action.tool = "refund" THEN moved \cup {Refunded} ELSE moved
  /\ Conclude("settle")
  /\ Elsewhere /\ UNCHANGED <<demo, store, phase, drain, run>>

\* The result under its key, and the audit entry.
Settle ==
  /\ work.pc = "settle"
  /\ settled' = settled \cup {Key}
  /\ Finish("executed")
  /\ Elsewhere /\ UNCHANGED <<demo, events, ledger, phase, drain, run, moved>>

\* How the run's last call ended, if it made one.
LastStatus(seen) == IF seen = <<>> THEN None ELSE seen[Len(seen)]

\* A run that raised has no status, whatever its calls came to.
RowOf(w) ==
  IF w.pc = "failed" THEN [event |-> w.id, path |-> "failed", status |-> None]
  ELSE [event |-> w.id, path |-> w.path, status |-> LastStatus(w.seen)]

\* The ledger row; the lock is free again, and the request goes on with its id.
Record ==
  /\ work.pc \in {"final", "failed"}
  /\ ledger' = Append(ledger, RowOf(work))
  /\ run' = [r \in Requests |-> IF run[r].pc = "held" /\ run[r].id = work.id
                                THEN [run[r] EXCEPT !.pc = "answer", !.row = Len(ledger) + 1]
                                ELSE run[r]]
  /\ work' = NoWork
  /\ Elsewhere /\ UNCHANGED <<demo, events, audit, settled, phase, drain, moved>>

-----------------------------------------------------------------------------
(* The process *)

\* Demo events of an earlier process are in the backlog like any other.
Boot ==
  /\ phase = "down"
  /\ phase' = "draining"
  /\ drain' = {id \in DOMAIN events : ~Ledgered(id)}
  /\ Elsewhere /\ UNCHANGED <<demo, store, work, run, moved>>

DrainNext ==
  /\ work = NoWork
  /\ \E id \in drain :
       /\ \A other \in drain : id <= other
       /\ work' = Taken(id)
       /\ drain' = drain \ {id}
  /\ Elsewhere /\ UNCHANGED <<demo, store, phase, run, moved>>

Serve ==
  /\ phase = "draining" /\ drain = {} /\ work = NoWork
  /\ phase' = "serving"
  /\ Elsewhere /\ UNCHANGED <<demo, store, drain, work, run, moved>>

\* The database and the cache directory stay.
Crash ==
  /\ phase # "down" /\ crashes < MaxCrashes
  /\ crashes' = crashes + 1
  /\ phase' = "down" /\ drain' = {} /\ work' = NoWork
  /\ demo' = [p \in Payments |-> None]
  /\ run' = [r \in Requests |-> NoRun]
  /\ LimiterRestart /\ CacheCrash
  /\ UNCHANGED <<store, moved>>

TimePasses ==
  /\ Tick
  /\ UNCHANGED <<cache, demo, store, phase, drain, work, run, crashes, moved>>

Init ==
  /\ LimiterInit /\ CacheInit
  /\ demo = [p \in Payments |-> None]
  /\ events = <<>> /\ ledger = <<>>
  /\ audit = [p \in Payments |-> <<>>] /\ settled = {} /\ moved = {}
  /\ phase = "down" /\ drain = {} /\ work = NoWork
  /\ run = [r \in Requests |-> NoRun] /\ crashes = 0

Serves(r) ==
  \/ Arrive(r) \/ (\E s \in Scenario : Admit(r, s))
  \/ Seed(r) \/ Persist(r) \/ CountAudit(r) \/ BeginRun(r) \/ AnswerRun(r)

Pipeline ==
  \/ RouteFails \/ RouteCase \/ Ask \/ StoreAnswer \/ OutOfAsks
  \/ Build \/ Gate \/ Act \/ Settle \/ Record

Next ==
  \/ \E r \in Requests : Serves(r)
  \/ Pipeline
  \/ Boot \/ DrainNext \/ Serve \/ Crash \/ TimePasses

Spec == Init /\ [][Next]_vars

-----------------------------------------------------------------------------
(* Properties *)

Entry  == [event: EventRow, status: Statuses]
Row    == [event: EventRow, path: Paths \cup {"failed"}, status: Statuses \cup {None}]
Action == [tool: Tools, cost: Nat, amount: Nat]
Run == [pc: PC, scenario: Scenario \cup {None}, id: 0..MaxEvents, before: Nat,
        row: Nat, shown: Seq(Entry), answer: Row \cup {None}]
Work == [pc: Tools \cup {"none", "route", "ask", "write", "gate", "act", "settle",
                         "final", "failed"},
         id: 0..MaxEvents, path: Paths \cup {None}, amount: Amounts \cup {None},
         action: Action \cup {None}, seen: Seq(Statuses)]

\* Types; and a call that is past its routing knows the amount of its case.
TypeOK ==
  /\ LimiterTypeOK /\ CacheTypeOK
  /\ demo \in [Payments -> Amounts \cup {None}]
  /\ events \in Seq(Scenario)
  /\ ledger \in Seq(Row)
  /\ audit \in [Payments -> Seq(Entry)]
  /\ settled \subseteq Payments \X Tools /\ moved \subseteq Amounts
  /\ phase \in {"down", "draining", "serving"} /\ drain \subseteq EventRow
  /\ work \in Work /\ run \in [Requests -> Run]
  /\ work.pc \in Tools \cup {"ask", "write"} => work.amount # None

\* playground.py:19-25: an amount above the threshold never moves, also when
\* another visitor seeds the same payment between the steps of a refund: what the
\* gate saw is what the handler is given (tools.py:139-147, 181-184).
NoHeldAmountMoves == \A amount \in moved : amount <= Threshold

\* The log of the payment that a request is about.
Log(r) == audit[run[r].scenario.payment]

\* playground.py:10, 340-346: the response shows an unbroken piece of its payment's
\* log, and in it every audit entry of the run it answers; both reads of the log
\* are outside the lock, among other runs.
ShownCoversOwn ==
  \A r \in Requests : run[r].pc = "done" /\ run[r].id # 0 =>
    /\ \A i \in DOMAIN run[r].shown :
         /\ run[r].before + i \in DOMAIN Log(r)
         /\ run[r].shown[i] = Log(r)[run[r].before + i]
    /\ \A j \in DOMAIN Log(r) :
         Log(r)[j].event = run[r].id => j - run[r].before \in DOMAIN run[r].shown

\* The last of an event's entries has this status; none has, if there is no entry.
EndsWith(log, id, status) ==
  LET own == {i \in DOMAIN log : log[i].event = id}
  IN \/ own = {} /\ status = None
     \/ \E i \in own : log[i].status = status /\ \A j \in own : j <= i

\* playground.py:164, 346-347: a response is put together from two readings, the
\* row of a ledger id and a piece of the audit log, with other runs of the payment
\* before, between and after; its halves are about one run.  The row is of the
\* visitor's own event, and says of its last call what the entries shown say; but a
\* run that raised is shown the entries of calls that its row is silent about.
HalvesAgree ==
  \A r \in Requests : run[r].pc = "done" /\ run[r].id # 0 =>
    /\ run[r].answer.event = run[r].id
    /\ run[r].answer.path # "failed" =>
         EndsWith(run[r].shown, run[r].id, run[r].answer.status)

-----------------------------------------------------------------------------
(* Why a response covers its run *)

\* Requests are about rows of their own, and come only after the backlog.
Visits ==
  /\ phase # "serving" => \A r \in Requests : run[r].pc = "idle" /\ stamp[r] = None
  /\ phase = "serving" => drain = {}
  /\ \A r \in Requests : run[r].id # 0 =>
       /\ run[r].id \in DOMAIN events /\ run[r].scenario \in Scenario
       /\ events[run[r].id] = run[r].scenario
  /\ \A r, q \in Requests : run[r].id # 0 /\ run[r].id = run[q].id => r = q

\* Logs and ledger name stored events.
Rows ==
  /\ \A p \in Payments : \A j \in DOMAIN audit[p] : audit[p][j].event \in DOMAIN events
  /\ \A i \in DOMAIN ledger : ledger[i].event \in DOMAIN events

Busy(id) == work.pc # "none" /\ work.id = id

\* Nothing has been done for the event yet.
NotBegun(id) ==
  /\ ~Busy(id)
  /\ \A i \in DOMAIN ledger : ledger[i].event # id
  /\ \A p \in Payments : \A j \in DOMAIN audit[p] : audit[p][j].event # id

\* A row, and the log it is about.
Agrees(row, log, id) ==
  row.event = id /\ (row.path # "failed" => EndsWith(log, id, row.status))

\* Until the request has the lock its event is untouched; from then on the
\* entries of its run come after those it has counted, and the last of them is
\* what its call, and later its row, has last seen.
Stage(r) ==
  /\ run[r].pc \in {"before", "wait"} => NotBegun(run[r].id)
  /\ run[r].pc \in {"wait", "held", "answer"} => run[r].before <= Len(Log(r))
  /\ run[r].pc \in {"held", "answer"} =>
       \A j \in DOMAIN Log(r) : Log(r)[j].event = run[r].id => j > run[r].before
  /\ run[r].pc = "held" =>
       Busy(run[r].id) /\ EndsWith(Log(r), run[r].id, LastStatus(work.seen))
  /\ run[r].pc = "answer" => Agrees(ledger[run[r].row], Log(r), run[r].id)
  /\ run[r].pc \in {"answer", "done"} /\ run[r].id # 0 => ~Busy(run[r].id)

SInv == Visits /\ Rows /\ (\A r \in Requests : Stage(r)) /\ ShownCoversOwn /\ HalvesAgree

=============================================================================
