# Verification of the payment recovery agent

TLA+ models of the parts of this repository that decide and act: the guarded
executor, the recovery pipeline with its webhook endpoint and startup drain, the
agent loop, the rule store with its grammar and router, the distiller that turns
the agent's decisions into rules, the payment providers' adapters and the calls
made through them, and the public playground with its rate limiter and the model
cache. TLC checks them on small instances; TLAPS proves, for every value of the
constants, every safety property that the passing runs check, and that the
executor implements its abstract contract. Source lines are given relative to the
repository's root.

## The system

| Part | State | Operations | Talks to |
| --- | --- | --- | --- |
| Guarded executor, `agentcore/guardrails/executor.py` | handlers (the rest is in the store) | `execute`, `approve`, `reject_approval` | guard store, provider |
| Guard store, `guardrails/store.py` | results by key, approvals, counts, spend, breaker, audit log | one transaction per method | SQLite, or memory |
| Audit replay, `guardrails/replay.py` | none | fold of a run's log | guard store |
| Webhook endpoint, `recovery/webhooks.py` | raw and internal events | receive, normalise, schedule, answer | pipeline (background task) |
| Pipeline, `recovery/pipeline.py` | one process-wide lock | `process`, `process_pending` | router, executor, agent, ledger |
| Ledger, `recovery/ledger.py` | one row per processed event | record, lookups by event | pipeline, dashboard |
| Startup, `recovery/app.py` | -- | seed an empty rule store, drain, then serve | rule store, pipeline |
| Agent loop, `agentcore/agent/loop.py` | trajectory, iteration, last effect | `run` | model client, tools, executor |
| Trajectory store, `recovery/trajectory_store.py` | trajectories | save, load | pipeline |
| Router, rule store, grammar, `recovery/router.py`, `rules_repo.py`, `agentcore/rules/` | versioned rules with status and priority | route, add, set status, parse, evaluate | pipeline, distiller |
| Distiller, `recovery/distiller.py`, `agentcore/distill/` | observations, created keys, shadow statistics, recent windows | `observe`, `step` (distill, promote, demote) | rule store, proposer model |
| Evaluation, `evals/` | records of a simulated stream | case by case: route, act, observe, step | router, agent, distiller |
| Playground, `recovery/playground.py` | sliding window of admitted runs; the demo provider's payments | one demo run | limiter, demo provider, pipeline, audit log |
| Model cache, `llm/cache.py` | one file per prompt | `complete` | model client, disk |
| Providers, `providers/` | none (the fake one: its stored objects) | parse, look up, refund, link | Razorpay, Stripe |
| Dashboard, model clients | none | reads, requests | ledger; the outside |

A failed payment arrives as a webhook. The endpoint stores it raw, stores it
normalised, answers 200 and schedules `process`, which takes the pipeline's
lock, drops redeliveries, enriches the event from the provider and asks the
router. An active rule acts through the executor without the model; otherwise
the agent loop asks the model for up to `agent_max_iterations` decisions, and
each effect it asks for passes the same executor. One ledger row is written,
then the event's routing columns. After a crash the next start drains the
failures without a ledger row. In the evaluation the distiller watches every
handled case and on its cadence proposes rules into shadow, promotes and
demotes them.

**What is hard here.** Nearly every operation is several transactions, so a
crash separates an effect from its record; webhooks are redelivered and their
tasks interleave; a timed-out provider call may have acted; values are checked
some transactions before they are used; outcomes are summarised from one piece
of state while others say more; statistics gathered in one phase of a rule's
life are used in another. `PROJECT.json` lists each hazard at its line with the
properties about it.

## Modules

| Module | Models | Notes |
| --- | --- | --- |
| `GuardedExecutor` | executor and store | one action per store transaction, plus the provider's act |
| `AuditReplay` | `replay.py`, beside the counters | extends the executor |
| `GuardContract` | abstract: what the executor promises | no code of its own |
| `GuardedExecutorRefinement` | the refinement mapping | effect outstanding = the call between handler and `put_result` |
| `GuardedExecutorProofs` | theorems about the executor, its contract and its log | see below |
| `RecoveryPipeline` | endpoint, task pool, pipeline, ledger, drain | executor reduced to its idempotency |
| `RecoveryPipelineProofs` | theorems about the pipeline | see below |
| `AgentRun` | agent loop, trajectory, `_run_agent`'s row | composed with the whole executor |
| `AgentRunProofs` | theorems about agent runs | rest on the executor's |
| `Distiller` | observe, distill, promote, demote; router's choice among active rules | Wilson bounds in integers |
| `DistillerProofs` | theorems about it | see below |
| `RuleGrammar` | validator and evaluator: what parses, what matches | no state; `RuleStore` extends it |
| `RuleStore` | rule table, seeding, loading, router, the ledger's record of a decision | one action per transaction |
| `RuleStoreProofs` | theorems about it | see below |
| `ProviderAdapters` | the tables and conversions of the three adapters | no state |
| `ProviderCalls` | payments of an account, and effects requested over a network | executor reduced to its stored results |
| `ProviderCallsProofs` | theorems about it | see below |
| `RateLimiter` | the sliding window under threads | a component of `Playground` |
| `RateLimiterProofs` | the limit, for every number of threads | |
| `ResponseCache` | the cache's files, a write in two steps | a component of `Playground` |
| `Playground` | demo runs: limiter, demo provider, pipeline with lock and drain, cache | executor reduced to what a demo run can tell apart |
| `PlaygroundProofs` | theorems about the composition and the cache | |
| `MC*` | instances: payments, actions, webhooks, rules, accounts, visitors | |

### GuardedExecutor

A call's program counter names the transaction it does next, in the order of
`execute` (lines 74-163): breaker, idempotency, gate (with `create_pending` as a
step of its own, since it is an atomic get-or-create), budget, cap, handler,
`record_execution`, `put_result`, audit. `approve` writes the record's state and
goes on as `execute` of the stored action. `Crash` ends every call and keeps the
store. A handler either returns, raises without acting, or raises after acting.
The history variables `effects`, `outlay`, `lapses` and `denied` say what
happened outside; no guard reads them.

`Serialised` says that calls of the executor exclude each other. In the service
this is the pipeline's lock (`pipeline.py:117` and `124`), which is held for the
whole of an event: no code in the service calls an executor elsewhere, and the
README's promises are for one process. The store itself does not give it: its
own lock covers single methods. `AuditReplayThreads` checks what holds without it.

Approval ids are random; a record is unique per run and key (`store.py:442`), so
the pair stands for it. Costs are naturals, amounts of rupees; the code's floats
are exact for those.

### RecoveryPipeline

The endpoint is asynchronous code without an `await` between its first commit
and its answer, so one request is in hand at a time, but the thread pool's steps
come between its commits. `work` gives per internal event where its call of
`process` stands; `LockFree` is the lock. The order in which waiting tasks get it
is open. What rule, model and provider answer is a choice: `RouteToRule`,
`RouteToAgent`, `AgentCallsTool` and `ActRaises` cover every path to a ledger row.
Of the executor it keeps what the pipeline's promises rest on: a settled key
never acts, everything else may be refused.

### AgentRun

Extends `GuardedExecutor` and adds the loop (`loop.py:111-213`), so an effect
really passes breaker, idempotency, gate, budget and cap before the agent sees
its status. Each way an iteration can end is an action. A trajectory keeps the
effect steps in full and the number of the others: nothing but the model reads
them. Approvals are not decided here, because the service has no route for it.

### Distiller

The cases of one failure reason, told apart by their amount and its band. A key
of the rule store is the reason or one of its bands, as in `_candidate_situations`.
The proposer may answer any rule of `Proposals`, or be rejected. The agent may
take any action, or none, and the customer may recover or not. All distilled
rules have priority 50, so any matching active rule may be first. Statistics are
integers: the Wilson lower bound of s/n reaches a rate p/q exactly if
`s * q >= p * n` and `(s * q - p * n)^2 * d >= z * p * (q - p) * n`, with z/d the
square of the normal quantile, and the upper bound likewise; this is the
quadratic whose roots `wilson_interval` (`metrics.py:12-23`) returns. Cases of other
reasons, and the hand-written seed rules, are left out: they neither match nor
are counted in a cluster of this reason.

### RuleStore and RuleGrammar

`RuleGrammar` follows the validator check by check over a vocabulary given as
constants. A JSON scalar is a kind and a value, so that comparing two kinds is
visible; every object without exactly the keys its place asks for is one value.
`RuleStore` keeps the table as a set of rows. Rules are added while the service
serves, change status at any time, and may be edited in the database behind its
back, into another rule, into one that no longer parses, or into no JSON at all.
A start reads the table of each status, which is one step here, since at startup
nothing else writes (an edit of the database between the four reads is left out),
seeds an empty store with one transaction per rule, and may die between any two. Of the provenance only the
number of demotions is kept. The version is read in the transaction that inserts
it and one process writes, so the unique constraint never bites. Startup with
`seed_rules_on_startup` off is a start of a store that is not empty.

### ProviderAdapters and ProviderCalls

A table of the code, native value to normalised one, is a record from the
normalised value to the set of native ones. An amount in rupees is a float in the
code; here it is an integer in tenths of a paisa, and the product with 100 may be
off by one of them, so `_inr_to_paise` rounds something. `MCProviderCalls` evaluates
the contract of `providers/conformance.py` on a failed payment of every native
error in the tables.

`ProviderCalls` follows one call of `process` at a time from a notification to one
effect: the payment is looked up once for the case and, for a refund, once more by
`build_refund_action`. A request on the `wire` is performed, refused, recalled by
its key, or never heard of again, before or after its client gave up; `lapses`
counts, per key, the clients that did. Only Stripe's `refund_payment` sends the
key, so only there can the provider answer a repetition (`Keyed`). Between two
calls the customer may pay the failed payment himself, which nothing re-checks.

The two effects differ in where their amount comes from. A refund's is the
provider's record, asked for by `build_refund_action`. A link's is the case's when a
rule acts (`pipeline.py:249-251`) and any number of the model's when the agent does
(`tools.py:124-131`), which need not be whole paise (`ModelAmounts`). What is booked
under a key is the action's cost, none for a link, and what is stored is the
bounded answer, which holds an amount for a refund only (`tools.py:63-72`). So of a
link the books can be asked whether it was made, and of a refund also for how much:
`BookedWasMade` says both. An agent's second effect in one run is a call of its own
here, and a lookup that raises ends a call, though the agent is told and may go on.
Native payments are positions in the account; their amounts differ, so a mix-up
shows. `MaxPayments` and `MaxCalls` bound account and requests.

### Playground, RateLimiter and ResponseCache

A request is a thread: it reads the clock, waits for the limiter's lock, seeds the
demo payment (the last visitor's amount is the payment's), stores an event, counts
the audit entries, waits for the pipeline's lock, and slices the log when it has
its answer. Both reads of the log are outside the lock. `work` is the holder of
the lock, for a request or for the startup drain, to which demo events of an earlier
process are events like any other; there the lookup raises, because the demo
provider is in memory.

The amount of a refund passes through three steps: `Build` reads it from the
provider (`tools.py:139`) and puts it into the action as cost and as parameter,
`Gate` compares the cost (`executor.py:99`), `Act` refunds the parameter
(`tools.py:181-184`). `Seed` is outside the lock and may come between any two, or
between the routing and the first. A rule acts through the same steps, or names no
tool ("no_effect"); the agent returns to the model after each call. `Record` writes
the ledger row with path and last status and hands its id to the request, whose
answer is the row of that id and the slice of the log. Of the agent's tools refund
and link are modelled: `escalate_to_human` is to the executor what a link is, an
effect without cost under a key of its own, and the reading tools change nothing.

The model's answers go through `ResponseCache`, whose
file exists from the first moment of `write_text`. Clock readings are taken before
the limiter's lock, so the stamps need not ascend. `MaxEvents`, `MaxTime` and
`MaxCrashes` are bounds of the model, the rest are settings of the code.

## Runs

Passing runs explore the whole state space of their instance.

| Run | Question | Bounds |
| --- | --- | --- |
| `GuardedExecutor` | caps, budget, gate, breaker, idempotency, the inductive invariant; the log replays to the store; the executor implements its contract | 2 threads, 5 calls, 1 crash; 4 actions on 3 keys, one above the threshold, one unregistered; cap 4, budget 2: cap, budget and gate each bite |
| `AuditReplayThreads` | what the log may claim when threads are not serialised | 3 calls, 1 crash |
| `RecoveryPipeline` | redelivery, interleaving, crash: routed once, acted once | 3 deliveries of 2 events about a payment, 2 tools, 1 crash |
| `RecoveryLiveness` | is every stored failure ledgered? | 2 deliveries of 3 notifications, one without an event id, one no failure; drain limit 2, so the backlog fits; 1 crash |
| `AgentRun` | trajectory, audit log and ledger agree; runs end | 2 runs of 2 iterations, 1 crash; one refund held, one above the cap |
| `RuleLifecycle` | no held amount refunded by a rule; demotion is final and on the rule's own record | 8 cases, cadence 2, 2 amounts around the threshold, refund rules bounded at and above it; support 2, window 1, floors and z small enough for two cases to promote and one to demote |
| `ProviderCalls` | what delayed, lost and repeated requests do at the provider; whose history a rule sees | 2 customers, 3 payments, 2 requests, listings of 2, rounding errors of both signs, a link amount beside whole paise, 1 crash, both providers |
| `Playground` | limit, cache, held amounts, and answers whose halves agree, together | 2 requests, 1 payment, amounts 1 and 3 around a threshold of 2; 1 run per window of 1, clock to 2; 2 asks; 2 events; 1 crash |
| `RuleStore` | is what is loaded a rule; seeds first, and not put back; decisions traceable | one seed, 3 rows, 2 accepted and 15 hostile definitions, one edited row, one demotion per row, one case; 3 kinds of case, in and out of each rule's precondition |

Two callers are enough to interleave two calls, and one crash to separate any
two steps; a second crash only repeats the choice. Three deliveries give a
duplicate of one event beside another event of the same payment. Thirty
observations are scaled to one or two and z with them: the guards are the code's,
and every promotion and demotion the properties are about does occur. Three rows
give a seed beside two versions of another rule, or two seeds, one of them edited.
Two requests are one that lapses and its repetition; a listing of two is outgrown
by the third payment. Two visitors of one payment are what a demo run has to be
kept apart from, and two events are both of theirs, or one from before the crash
that the drain finds and one after it. The limiter's queue holds one stamp in this
run, so the limit bites at the second request; queues of several stamps, appended
out of order, are beyond it, and `LimitHolds` is what covers them.

`ProviderCalls` and `Playground` run into the bounds on their requests, events
and clock, where the system they model would go on, so their runs do not look for
deadlocks; customers and visitors are interchangeable, and the symmetry is used in
runs without liveness properties only.

Runs that expect a violation record where a sentence of the repository and its
code part ways; the counterexample is the shortest way there.

| Run | The sentence | What happens |
| --- | --- | --- |
| `DeniedThenApproved` | executor.py:181 | a denied record is approved later, and executes |
| `HeldUnlisted` | RAZORPAY_TEST_MODE.md:162-163 | a held action whose run ended otherwise is not listed |
| `SeedingCutShort` | RAZORPAY_TEST_MODE.md:63-64 | a crash between the two seeds, and the second is never inserted |

The models show further differences of the same kind, for which no run is kept:
a crash between handler and `put_result` lets a key act again (README.md:411;
`AtMostOnce` says exactly how often) and one before `_audit` leaves the log behind
the counters (replay.py:3-6; `ReplayNeverOverstates` is what remains); an
unregistered action raises without an audit entry (executor.py:46-47); the drain
takes at most 500 events (README.md:212-216); a crash before `_mark_event` leaves
the routing columns empty (models.py:52-55); an agent run that failed stops its
redelivery (ledger.py:36-40); an exception after an effect loses the trajectory
(loop.py:8-9); a refund bounded at the threshold itself may be promoted
(README.md:329-331 says strictly below; `NoHeldAmountRefunded` shows why nothing
follows); a row edited into something that is no JSON is not skipped
(README.md:420) but fails every routing, or the start, that reads it; cases that
another rule handled count for a promotion (README.md:311-321) and a demotion
(README.md:324-325 says firings); and a failed attempt has a ledger row, so no
restart retries it (README.md:561-563).

About providers: an effect whose client timed out may be made twice, as the
Razorpay refund and every payment link are sent without the key (README.md:411,
RAZORPAY_TEST_MODE.md:178-179; `EffectsAccounted` says how often, `KeyHonoured`
that Stripe's refund is safe); a refund answered with the status "failed" is
settled like any other; the payment's status is not looked at again before it is
refunded (`PaidLater`); an event id derived from type and payment is shared by a
second failure of the payment (RAZORPAY_TEST_MODE.md:182-185 says so); Razorpay's
history is cut at the account's newest hundred payments, Stripe's counts every
payment that did not succeed as failed. About demo runs: two concurrent runs of one
payment show each other's audit entries (playground.py:10; `ShownCoversOwn` is what
remains, and is proved) and may act on the amount the other seeded; a run that
raised after an effect is shown its audit entries beside a row without a status
(`HalvesAgree` excepts it); a cache entry cut off by a
crash fails every later run with its prompt (cache.py:3-5 promises cheap reruns;
`AnswersStand` is what remains); the window counts stamps taken before the lock,
not admissions.

### Fairness

Only the runs that ask for progress use it. `RecoveryPipeline`: the endpoint's
handler is a coroutine without an unbounded wait; the lock's holder runs, since
provider and model clients have timeouts; a free lock is taken while somebody
waits (weak fairness of the set of waiters, no order among them); a process that
is down is started again by its host, an assumption about the deployment; and a
booted process drains and serves. Nothing forces a webhook to arrive or a crash
to happen. `AgentRun`: a step of a run in progress is eventually taken, for the
same reasons.

## Proofs

`GuardedExecutorProofs` proves, for all runs, keys, actions, limits and bounds:

| Theorem | States |
| --- | --- |
| `TypeCorrect` | `Spec => []TypeOK`, with or without the lock |
| `Inductive` | `Spec => []IInv` |
| `SpendNeverPassesCap`, `BudgetNeverPassed` | the two limits on the books |
| `EffectsAtMostOnce` | `effects <= lapses + 1` per id |
| `OutlayNeverPassesCap` | the limit on the money itself, as long as no result was lost |
| `GateNeverPassed`, `HaltedRunsRest` | the two action properties |
| `ContractKept` | the executor implements `GuardContract` |
| `LogNeverOverstates` | what the log implies, the store holds, with or without the lock |
| `LogReplaysToStore` | until a crash, a log at rest replays to exactly that |

All but `TypeCorrect` and `LogNeverOverstates` assume `Serialised`. The other
assumptions are `ConfigAssumption`, the shape of the constants, and, for the contract,
`NoneAssumption`, that the absence of an effect is not an effect; every run
evaluates them.

The limits are not inductive by themselves: spend is written two transactions
after it was compared with the cap. `IInv` adds what links the two moments. One
call runs at a time (`OneAtATime`); what a call has checked is still true
(`ChecksStillHold`: breaker shut, key unsettled, gate passed, budget and cap with
room), because nobody else writes; each effect is settled, lost, or in the hands
of the call that made it (`EffectsAccounted`); and the money gone is the money
booked, plus what the call about to book has spent (`OutlayRecorded`). Each
conjunct has its lemma with one step per action. The two action properties then
follow from `IInv` at the step: an effect comes from a call at its handler, whose
checks still hold.

The contract has one effect of a run outstanding at a time. The mapping takes it from
the call between its handler and `put_result`, which `OneAtATime` makes unique.
The handler, the booking, the settling, the opened breaker and the approval are
steps of the contract, the other transactions stutter, and a crash is the loss of
whatever is outstanding. That the contract permits the step when the handler acts is
what `ChecksStillHold` is for (`ContractPermits`).

The log is folded by a recursive function. That the function exists and unfolds at
each entry (`ReplayAppend`) is proved by induction on the length of the log; the
induction itself is a lemma about sets of numbers (`Induction`), drawn from the
well-foundedness of the subsets of an interval, because the library's induction
takes an operator. `LogNeverOverstates` cannot compare the log with the books
directly: without the lock, several calls may have moved the store and not yet
logged it, and each will append its entry to whatever log there is by then.
The invariant (`LogCovered`) says that in whatever order the due entries, or some
of them, are appended, the log stays within the books. A step either makes an
entry due and moves the books by it, or appends the entry, which was already
covered as the first of its order; a crash leaves the order in which nothing more
is appended. Under the lock at most one entry is due, and `LogExact`, the same with
equality, is kept by every step but a crash.

`RecoveryPipelineProofs` proves, for all notifications, tools, limits and bounds:

| Theorem | States |
| --- | --- |
| `PipelineTypes` | `Spec => []TypeOK` |
| `PipelineRoutesOnce` | at most one delivery of a provider event is routed |
| `PipelineActsOnce` | `effects <= lapses + 1` per key |
| `PipelineIgnoresRedelivery` | no effect for an event that has a routed row |

The check for a redelivery and the ledger row it looks for are separate steps, and
the lock is what joins them. The invariant says so: at most one call is past the
lock (`OneHolder`), and whatever it found out still holds (`CallsKnow`: from the
routing to the ledger row, no row routed a delivery of its event). Every effect is
settled, about to be, or counted as lost by the crash that cut it off
(`EffectsCounted`). The third link is the endpoint: it runs only after the drain,
and the event it schedules has no call yet (`HandlerInStep`). The executor is the
reduction described above: its guard, that the executor never acts under a settled
key, is part of `IInv` of `GuardedExecutor` (`ChecksStillHold`). `ConfigAssumption` is the only assumption.

`ProviderCallsProofs` proves, for all accounts, delays, crashes and request numbers:

| Theorem | States |
| --- | --- |
| `Types` | `Spec => []TypeOK` |
| `KeyOnce` | a payment of the Stripe account is refunded at most once |
| `HistoriesOwn` | a customer's history counts his own payments, all of them |
| `EffectsCounted` | effects under a key are at most one more than the clients that gave up |
| `BooksAreBacked` | what is settled was made; a refund's cost, effect and stored amount are one |

The invariant relates the request on its way to the call that sent it. A serial
number is used once, so a request in transit has had no effect (`SerialsFresh`);
what a key was answered with stands for the one refund made under it (`KeysKept`);
every answer, on the wire or in the books, is that of an effect (`AnswersBacked`);
and requests that had or may still have an effect are counted by the lapses but
for the one that was settled or is waited for (`RequestsCounted`). For the amounts,
`AmountsAgree` says that of a refund event, case, request, answer, effect, cost and
result name one amount, that of the payment, which never changes; `RoundTrip` is the
lemma that the float's error does not survive the rounding. Nothing is said of a
link's amount, which the model may choose. The assumptions are that the error is below
a tenth of a paisa (`CallsAssumption`) and that an absent field is no value
(`AbsentAssumption`). `HistoriesOwn` needs no more than the types: the listing that
an adapter filters is the whole account as long as one answer holds it
(`NewestIsAll`), and the rest of its history is a count over the same positions.

`RateLimiterProofs` and `PlaygroundProofs` prove, for all visitors, payments,
amounts, limits and windows:

| Theorem | States |
| --- | --- |
| `QueueCounts`, `LimitHolds` | the limiter alone: no more stamps in the window than the limit |
| `CacheStands` | the cache alone, whatever it is asked, one call at a time: an answer stands |
| `PlaygroundLimit`, `PlaygroundAnswers` | both in the composition |
| `PlaygroundHolds` | no amount above the threshold moves, whatever is seeded between the steps of a refund |
| `PlaygroundAgrees` | the row and the log entries of an answer are about one run, the visitor's |
| `PlaygroundShows` | an answer shows an unbroken piece of the log with all of the visitor's run |
| `PlaygroundTypes` | `Spec => []TypeOK` |

The limit is not inductive: what counts is that the queue holds all stamps still
in the window, and that what was popped, by however old a clock reading, stays out
of it (`QueueIsWhatCounts`). For the cache it is that a caller was told what the
file says, and that a file being written has told nobody anything (`ToldAsStored`).
Each step of the composition is a step of the limiter, or leaves it alone
(`LimiterStep`), and the same for the cache (`CacheStep`), which needs that the
prompts of a run are among the cache's: hence `RowsExist` and `CaseKnown`. No held
amount moves because the action carries one reading of the provider from the gate
to the handler (`Fixed`), while `demo` may change at every step between; a
handler that asked the provider again (mutant `RefundsCurrent`) would move what
another visitor seeded meanwhile.

`PlaygroundShows` and `PlaygroundAgrees` need `SInv`, which follows a request through
its run: until it has the lock nothing was done for its event, so the entries it
counted before are not its own, and after its call no more are made (`Stage`). That
rests on its event being nobody else's, neither another request's nor the drain's,
which is over before the first request (`Visits`). While its call is under way, the
last of its entries is what the call has seen last; at the end the row takes
that status, and the id the request gets is that row's. From then on neither half
changes, whoever appends to log and ledger before the two are read.

`AgentRunProofs` proves, for all runs, offers, callers and iteration limits:

| Theorem | States |
| --- | --- |
| `AgentInductive`, `AgentTypesCorrect` | `AgentSpec => []AgentIInv`, and `[]AgentTypeOK` |
| `StepsToldAsAudited` | a trajectory's effect steps are the audit entries of its run |
| `OutcomesBackedByStore` | what a ledger row says of an effect, the store bears out |
| `AgentUsesExecutor` | `AgentSpec => Spec`: the executor sees behaviours of its own |
| `AgentKeepsContract` | so agent runs keep `GuardContract`, given the lock |

`AgentIInv` (in `AgentRun`) says that what a run was told is the end of its payment's
log since it began (`StepsInLog`), that its outcome is that of the last thing it was
told (`OutcomeOfLast`), and that each decision told is borne out by the store
(`DecisionsBacked`). The last is kept because the store only grows here: results and
counts are never taken back, and the service has no route that answers an approval
(`NobodyAnswers`). The row's approval is the pending record of its payment, and it is
that of the action last asked for because only refunds are ever held, and those
of a payment share a key, which `tools.py` builds from the payment
(`RefundAssumption`). The pipeline's lock is a guard of `AgentRun`, so its
theorems need no `Serialised`, but for `AgentKeepsContract`, which rests on
`ContractKept`.

`DistillerProofs` proves, for all proposals, amounts, thresholds and floors:

| Theorem | States |
| --- | --- |
| `DistillerInductive`, `DistillerTypesCorrect` | `Spec => []IInv`, `Spec => []TypeOK` |
| `NoActiveRuleRefundsHeld` | no active rule refunds an amount above the threshold |
| `DemotedNeverReturns` | a demoted rule is never changed again |
| `DemotedOnActiveRecord` | demotion follows `MinRecent` matches of the active time |

A rule is checked when it is promoted and acts much later; `ActiveRulesChecked`
carries the check, and `NoActiveRuleRefundsHeld` is then about the grammar: a refund rule
whose precondition has an upper bound of at most the threshold matches no amount above
it, whichever of its predicates the bound came from. `WindowFromActiveTime` bounds the window by the
matches since promotion, so a full window is evidence of the active time. The key of
a demoted rule stays in `created` (`TypeOK` ties the two), so no proposal
replaces it. The Wilson comparisons stay closed: nothing here depends on their value.

`RuleStoreProofs` proves, for all seeds, rules, edits and cases:

| Theorem | States |
| --- | --- |
| `StoreInductive`, `StoreTypesCorrect` | `Spec => []IInv`, `Spec => []TypeOK` |
| `LoadedRulesAlwaysAnswerable` | no rule that is loaded compares values of two kinds |
| `DecisionsStayTraceable` | a decision names a row that stands, and its action |
| `SeedsNeverRevived` | no restart puts a seed back that was taken out of use |
| `SeedsDecideFirst` | a matching active seed is not overtaken by an added rule |

A row that nobody edited still parses (`UntamperedParse`) and has the priority it was
inserted with (`RowPriorities`). Seeding starts only where no usable row stands, and
from then on the whole rows are those of this start, a prefix of the seeds
(`SeedingFresh`): so a seed is inserted beside no whole row of its key. A decision
stays traceable because key and version name one row, which takes that the next
version is above all earlier ones (`NewVersion`, over the maximum of a finite set).
`StoreAssumption` says of the seeds what `seed_rules.py` shows: distinct keys,
definitions that parse, priorities before those of distilled rules, whose keys differ;
`ContextAssumption` says that a case's values are of the schema's types.
`LoadedRulesAlwaysAnswerable` needs no invariant: it is about the validator, over
whatever the table holds (`ParsedAnswerable`).

Only model-checked: the liveness properties `EveryFailureLedgered` and `RunEnds`,
because fairness and `ENABLED` are beyond the prover; and the contract of
`providers/conformance.py`, which `MCProviderCalls` evaluates table by table. The three
sentences that runs refute are no theorems.

## Not modelled

- Signatures and HTTP formats: I/O. A notification that fails its signature
  changes nothing. Dates and texts of native objects are left out.
- The fake provider's orders, links and histories: tests store them in it.
- Collisions of audit sequence numbers: they need several processes on one store.
- A store method that raises: like a crash at that point for the database, and
  the pipeline records the attempt as failed.
- The dashboard, reports and prompts: reading and formatting.
- Synthetic customers and ground truth of the evaluation: their answers are
  choices here.

## Plan

Order and reasons: the executor first, because every effect passes it; then the
pipeline, where concurrency and crashes meet; the agent over the executor; the
distiller, which decides what acts without a model, and the store its rules live
in; then what surrounds them, the providers and the playground. These exist. What
would add most next:

1. `Distiller` over `RuleStore` in place of its one version per key: distilled
   rules beside seeds, a distiller that starts over on a store with rules.
2. The pipeline over the whole executor in place of its reduction, shown to
   implement it.
3. Proofs: with the second item, that an event's effects through the pipeline keep
   `GuardContract`; that the playground's runs implement the pipeline's steps; what the
   validator accepts, the evaluator answers (for the router over any set of rules).
