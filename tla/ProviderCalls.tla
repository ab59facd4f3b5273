----------------------------- MODULE ProviderCalls -----------------------------
(***************************************************************************)
(* Calls of the live providers over a network (providers/razorpay.py and   *)
(* stripe.py, called from recovery/pipeline.py and recovery/tools.py).     *)
(* A request may be lost, refused, or carried out long after its client    *)
(* stopped waiting; a failed attempt is repeated by the next notification  *)
(* of its payment.  What an adapter sends decides whether the provider can *)
(* tell a repetition: of all effects only Stripe's refund carries the key. *)
(*                                                                         *)
(* The pipeline is reduced to the one call its lock admits, the executor   *)
(* to its stored results; RecoveryPipeline and GuardedExecutor model both. *)
(***************************************************************************)
EXTENDS ProviderAdapters

CONSTANTS
  Customers,    \* customer ids
  FailedWith,   \* per provider, the native errors of failed payments
  Rounding,     \* errors of a float product, in tenths of a paisa
  ModelAmounts, \* amounts the model may ask a link for, whole paise or not
  MaxPayments,  \* bound: payments of the account
  MaxCalls,     \* bound: requests sent
  MaxCrashes    \* bound: crashes in a behaviour

ASSUME CallsAssumption ==
  /\ MaxPayments \in Nat /\ MaxCalls \in Nat /\ MaxCrashes \in Nat
  /\ Rounding \subseteq -1..1 /\ ModelAmounts \subseteq Int

VARIABLES
  provider,    \* the provider the account is with
  account,     \* external: its payments, oldest first; an id is a position
  notices,     \* external: failure notifications it sent, deliverable any time
  remembered,  \* external: per payment, the refund a key was answered with
  effects,     \* external: refunds and links made, by serial number
  wire,        \* requests on their way, by serial number
  call,        \* the call of process under way
  results,     \* guard store: what is booked and stored under a key, or None
  sent,        \* requests sent so far
  crashes,
  \* history, read by no guard
  lapses       \* per key, requests whose client stopped waiting

calls == <<call, results, sent, crashes, lapses>>
world == <<account, notices, remembered, effects>>
vars  == <<provider, world, wire, calls>>

-----------------------------------------------------------------------------
Providers == {"razorpay", "stripe"}
Kinds     == {"refund", "link"}
Ids       == 1..MaxPayments
Keys      == Ids \X Kinds
Serial    == 1..MaxCalls

Request == [id: Ids, kind: Kinds, amount: Int, keyed: BOOLEAN, answer: Int \cup {None}]
Effect  == [id: Ids, kind: Kinds, amount: Int]
Result  == [cost: Int, amount: Int \cup {None}]

ASSUME AbsentAssumption == None \notin Int \cup Request \cup Effect \cup Result

KeyOf(q) == <<q.id, q.kind>>
NoCall == [pc |-> "none", event |-> None, record |-> None, kind |-> None, cost |-> None]

\* What each provider calls a failed payment, a paid one, and a failure event.
FailedStatus == [razorpay |-> "failed", stripe |-> "requires_payment_method"]
PaidStatus   == [razorpay |-> "captured", stripe |-> "succeeded"]
FailureType  == [razorpay |-> "payment.failed", stripe |-> "payment_intent.payment_failed"]

\* Amounts are small, and different for every payment.
Native(c, status, error) ==
  [id |-> Len(account) + 1, customer |-> c, amount |-> 2 * Len(account) + 1,
   status |-> status, method |-> "card", error |-> error]

-----------------------------------------------------------------------------
(* The account, outside the program *)

PaymentFails(c) ==
  /\ Len(account) < MaxPayments
  /\ \E error \in FailedWith[provider] :
       LET d == Native(c, FailedStatus[provider], error) IN
         /\ account' = Append(account, d)
         /\ notices' = notices \cup
              {[type |-> FailureType[provider], id |-> None, entity |-> d]}
  /\ UNCHANGED <<provider, remembered, effects, wire, calls>>

PaymentSucceeds(c) ==
  /\ Len(account) < MaxPayments
  /\ account' = Append(account, Native(c, PaidStatus[provider], None))
  /\ UNCHANGED <<provider, notices, remembered, effects, wire, calls>>

\* The customer tries the failed payment again, by himself, and succeeds.
PaidLater(id) ==
  /\ id \in DOMAIN account /\ account[id].status = FailedStatus[provider]
  /\ account' = [account EXCEPT ![id].status = PaidStatus[provider], ![id].error = None]
  /\ UNCHANGED <<provider, notices, remembered, effects, wire, calls>>

-----------------------------------------------------------------------------
(* process: the adapter's lookups and one effect *)

\* parse_event, and process for the event.
Receive(n) ==
  /\ call = NoCall
  /\ call' = [NoCall EXCEPT !.pc = "route", !.event = parse_event(provider, n, None)]
  /\ UNCHANGED <<provider, world, wire, results, sent, crashes, lapses>>

\* Faulty: the newest payment instead of the one that failed.
NewestPayment(id) == to_payment(provider, account[Len(account)])
get_payment(id) == to_payment(provider, account[id])

\* The case is the provider's record as it is now.
Route ==
  /\ call.pc = "route"
  /\ \E kind \in Kinds :
       call' = [call EXCEPT !.pc = "act", !.kind = kind,
                            !.record = get_payment(call.event.payment_id)]
  /\ UNCHANGED <<provider, world, wire, results, sent, crashes, lapses>>

\* _raise_for_status, or no connection, at a lookup of process or at the one of
\* build_refund_action: the attempt is over.
LookupRaises ==
  /\ call.pc = "route" \/ (call.pc = "act" /\ call.kind = "refund")
  /\ call' = NoCall
  /\ UNCHANGED <<provider, world, wire, results, sent, crashes, lapses>>

\* Faulty: the key is looked up in this process only.
ForgetsResults(key) == FALSE
\* The executor knows the key.
Settled(key) == results[key] # None

Duplicate ==
  /\ call.pc = "act" /\ Settled(<<call.record.id, call.kind>>)
  /\ call' = NoCall
  /\ UNCHANGED <<provider, world, wire, results, sent, crashes, lapses>>

\* build_refund_action asks the provider again.
RefundAmount == get_payment(call.record.id).amount_inr
\* A rule's link is for the case's amount; a model may ask for any number.
LinkAmounts == {call.record.amount_inr} \cup ModelAmounts

AmountsOf(kind) == IF kind = "refund" THEN {RefundAmount} ELSE LinkAmounts
\* A link costs nothing.
CostOf(kind, inr) == IF kind = "refund" THEN inr ELSE 0

\* Faulty: the header is left out.
NeverKeyed(kind) == FALSE
\* refund_payment of the Stripe adapter sends an Idempotency-Key.
Keyed(kind) == provider = "stripe" /\ kind = "refund"

\* The request leaves, its amount in minor units.
Send ==
  /\ call.pc = "act" /\ ~Settled(<<call.record.id, call.kind>>)
  /\ sent < MaxCalls
  /\ sent' = sent + 1
  /\ \E inr \in AmountsOf(call.kind), err \in Rounding :
       /\ wire' = [wire EXCEPT ![sent + 1] =
            [id |-> call.record.id, kind |-> call.kind,
             amount |-> _inr_to_paise(inr, err),
             keyed |-> Keyed(call.kind), answer |-> None]]
       /\ call' = [call EXCEPT !.pc = "wait", !.cost = CostOf(call.kind, inr)]
  /\ UNCHANGED <<provider, world, results, crashes, lapses>>

-----------------------------------------------------------------------------
(* The network and the provider *)

InTransit(s) == wire[s] # None /\ wire[s].answer = None
Answered(s)  == wire[s] # None /\ wire[s].answer # None

\* The provider carries a request out, whether its client still waits or not.  A
\* request that is lost is one this never happens to.
Perform(s) ==
  /\ InTransit(s) /\ ~(wire[s].keyed /\ remembered[wire[s].id] # None)
  /\ effects' = [effects EXCEPT ![s] =
       [id |-> wire[s].id, kind |-> wire[s].kind, amount |-> wire[s].amount]]
  /\ wire' = [wire EXCEPT ![s].answer = wire[s].amount]
  /\ remembered' = IF wire[s].keyed
                   THEN [remembered EXCEPT ![wire[s].id] = wire[s].amount] ELSE remembered
  /\ UNCHANGED <<provider, account, notices, calls>>

\* A key it has seen is answered with the refund it made then.
Recall(s) ==
  /\ InTransit(s) /\ wire[s].keyed /\ remembered[wire[s].id] # None
  /\ wire' = [wire EXCEPT ![s].answer = remembered[wire[s].id]]
  /\ UNCHANGED <<provider, world, calls>>

Waiting(s) == call.pc = "wait" /\ s = sent

\* An error status: nothing was done, and the handler raises.
Refused(s) ==
  /\ Waiting(s) /\ InTransit(s)
  /\ wire' = [wire EXCEPT ![s] = None]
  /\ call' = NoCall
  /\ UNCHANGED <<provider, world, results, sent, crashes, lapses>>

\* bounded_refund keeps the amount of the answer, bounded_link none.
bounded(kind, answer) == IF kind = "refund" THEN _paise_to_inr(answer) ELSE None

\* The answer: the executor books the cost and stores the result under the key,
\* whatever the status of the refund or link in it.
Settles(s) ==
  /\ Waiting(s) /\ Answered(s)
  /\ results' = [results EXCEPT ![KeyOf(wire[s])] =
       [cost |-> call.cost, amount |-> bounded(wire[s].kind, wire[s].answer)]]
  /\ wire' = [wire EXCEPT ![s] = None]
  /\ call' = NoCall
  /\ UNCHANGED <<provider, world, sent, crashes, lapses>>

Lapse == lapses' = [lapses EXCEPT ![<<call.record.id, call.kind>>] = @ + 1]

\* httpx gives up after ten seconds and raises; the request goes its way.
TimesOut ==
  /\ call.pc = "wait"
  /\ Lapse
  /\ call' = NoCall
  /\ UNCHANGED <<provider, world, wire, results, sent, crashes>>

\* The event is processed again by the startup drain, or a new one is.
Crash ==
  /\ call # NoCall /\ crashes < MaxCrashes
  /\ crashes' = crashes + 1
  /\ \/ call.pc = "wait" /\ Lapse
     \/ call.pc # "wait" /\ UNCHANGED lapses
  /\ call' = NoCall
  /\ UNCHANGED <<provider, world, wire, results, sent>>

Init ==
  /\ provider \in Providers
  /\ account = <<>> /\ notices = {}
  /\ remembered = [id \in Ids |-> None]
  /\ effects = [s \in Serial |-> None] /\ wire = [s \in Serial |-> None]
  /\ call = NoCall /\ results = [k \in Keys |-> None]
  /\ sent = 0 /\ crashes = 0
  /\ lapses = [k \in Keys |-> 0]

Account ==
  \/ \E c \in Customers : PaymentFails(c) \/ PaymentSucceeds(c)
  \/ \E id \in Ids : PaidLater(id)
Process ==
  \/ \E n \in notices : Receive(n)
  \/ Route \/ LookupRaises \/ Duplicate \/ Send \/ TimesOut \/ Crash
Network == \E s \in Serial :
  Perform(s) \/ Recall(s) \/ Refused(s) \/ Settles(s)

Next == Account \/ Process \/ Network

Spec == Init /\ [][Next]_vars

-----------------------------------------------------------------------------
(* Properties *)

Native_ == [id: Ids, customer: Customers, amount: Nat,
            status: {FailedStatus[provider], PaidStatus[provider]}, method: {"card"},
            error: FailedWith[provider] \cup {None}]

\* Types; and a call that is past its lookup has the record of its event.
TypeOK ==
  /\ provider \in Providers
  /\ account \in Seq(Native_) /\ Len(account) <= MaxPayments
  /\ \A n \in notices : n.entity.id \in DOMAIN account
  /\ remembered \in [Ids -> Int \cup {None}]
  /\ effects \in [Serial -> Effect \cup {None}]
  /\ wire \in [Serial -> Request \cup {None}]
  /\ call.pc \in {"none", "route", "act", "wait"}
  /\ call.pc # "none" => call.event.payment_id \in DOMAIN account
  /\ call.pc \in {"act", "wait"} =>
       /\ call.record.id = call.event.payment_id
       /\ call.record.amount_inr = call.event.amount_inr
       /\ call.kind \in Kinds
  /\ call.pc = "wait" => call.cost \in Int
  /\ results \in [Keys -> Result \cup {None}]
  /\ sent \in 0..MaxCalls /\ crashes \in 0..MaxCrashes
  /\ lapses \in [Keys -> Nat]

EffectsOf(key) == {s \in Serial : effects[s] # None /\ KeyOf(effects[s]) = key}

\* stripe.py:324-329: whatever is delayed, lost, repeated or cut off by a crash,
\* a payment of the Stripe account is refunded at most once.
KeyHonoured ==
  provider = "stripe" =>
    \A id \in Ids : Cardinality(EffectsOf(<<id, "refund">>)) <= 1

\* README.md:411, "exactly one effect", as far as a provider that gets no key
\* allows: one more refund or link per request whose client stopped waiting.
EffectsAccounted == \A k \in Keys : Cardinality(EffectsOf(k)) <= 1 + lapses[k]

\* executor.py:146-160, tools.py:134-147: a key that is settled has its effect at
\* the provider; and a refund's three amounts are one: the cost that the cap and
\* the audit log count, read from the record before; what the provider paid back;
\* and the amount stored, taken from an answer that may be of an earlier request.
BookedWasMade ==
  \A k \in Keys : results[k] # None =>
    \E s \in EffectsOf(k) :
      k[2] = "refund" =>
        /\ _paise_to_inr(effects[s].amount) = results[k].cost
        /\ results[k].amount = results[k].cost

\* A customer's history (context of the rules) counts his own payments, all of
\* them, as paid or failed, while one answer holds them: at Stripe his, at Razorpay
\* those of the whole account (razorpay.py:218-225).
HistoryIsOwn ==
  \A c \in Customers :
    LET own    == OfCustomer(account, DOMAIN account, c)
        paid   == WithStatus(account, own, PaidStatus[provider])
        listed == IF provider = "stripe" THEN own ELSE DOMAIN account
    IN Cardinality(listed) <= ListLimit =>
         get_customer_history(provider, account, c) =
           [total_payments      |-> Cardinality(own),
            successful_payments |-> Cardinality(paid),
            failed_payments     |-> Cardinality(own \ paid)]

=============================================================================
