-------------------------- MODULE ProviderCallsProofs --------------------------
(***************************************************************************)
(* What the keys of refunds and the books of the executor promise, for     *)
(* every account, however long requests are delayed and wherever calls end.*)
(***************************************************************************)
EXTENDS ProviderCalls, FiniteSetTheorems, SequenceTheorems, TLAPS

-----------------------------------------------------------------------------
(* The inductive invariant *)

AmountAt(id) == 10 * account[id].amount
CallKey == <<call.record.id, call.kind>>
CostAt(k) == IF k[2] = "refund" THEN AmountAt(k[1]) ELSE 0

\* A refund, asked for or made, is of its payment's amount.
Full(x) == x.id \in DOMAIN account /\ (x.kind = "refund" => x.amount = account[x.id].amount)

\* A payment's amount never changes, so every refund and its books agree on it.
AmountsAgree ==
  /\ \A i \in DOMAIN account : account[i].id = i
  /\ \A n \in notices : n.entity.amount = account[n.entity.id].amount
  /\ call = [pc |-> call.pc, event |-> call.event, record |-> call.record,
             kind |-> call.kind, cost |-> call.cost]
  /\ call.pc # "none" => call.event.amount_inr = AmountAt(call.event.payment_id)
  /\ call.pc = "wait" => call.cost = CostAt(CallKey)
  /\ \A s \in Serial : wire[s] # None =>
       /\ Full(wire[s])
       /\ wire[s].kind = "refund" /\ wire[s].answer # None =>
            wire[s].answer = account[wire[s].id].amount
  /\ \A s \in Serial : effects[s] # None => Full(effects[s])
  /\ \A id \in Ids : remembered[id] # None =>
       id \in DOMAIN account /\ remembered[id] = account[id].amount
  /\ \A k \in Keys : results[k] # None =>
       /\ k[1] \in DOMAIN account /\ results[k].cost = CostAt(k)
       /\ k[2] = "refund" => results[k].amount = AmountAt(k[1])

\* A serial number is used once: a request in transit has had no effect.
SerialsFresh ==
  /\ \A s \in Serial : s > sent => wire[s] = None /\ effects[s] = None
  /\ \A s \in Serial : InTransit(s) => effects[s] = None
  /\ call.pc = "wait" =>
       /\ sent \in Serial /\ wire[sent] # None /\ KeyOf(wire[sent]) = CallKey
       /\ results[CallKey] = None

\* What a key was answered with stands for the one refund made under it.
KeysKept ==
  /\ \A s \in Serial : wire[s] # None => wire[s].keyed = Keyed(wire[s].kind)
  /\ \A id \in Ids : remembered[id] # None => EffectsOf(<<id, "refund">>) # {}
  /\ provider = "stripe" => \A id \in Ids : \A s, t \in EffectsOf(<<id, "refund">>) :
       remembered[id] # None /\ s = t

\* An answer, in transit or in the books, is that of an effect.
AnswersBacked ==
  /\ \A s \in Serial : Answered(s) => EffectsOf(KeyOf(wire[s])) # {}
  /\ \A k \in Keys : results[k] # None => EffectsOf(k) # {}

\* Requests that had, or may still have, an effect under a key.
RequestsOf(k) ==
  EffectsOf(k) \cup {s \in Serial : wire[s] # None /\ KeyOf(wire[s]) = k}

OneOf(k) == IF results[k] # None \/ (call.pc = "wait" /\ CallKey = k) THEN 1 ELSE 0

\* Each of them lapsed, but the one that was settled or is waited for.
RequestsCounted ==
  \A k \in Keys : Cardinality(RequestsOf(k)) <=
    lapses[k] + OneOf(k)

Inv ==
  TypeOK /\ AmountsAgree /\ SerialsFresh /\ KeysKept /\ AnswersBacked /\ RequestsCounted

-----------------------------------------------------------------------------
(* The adapters *)

\* Rupees and back: the error of a float product never reaches another paisa.
LEMMA RoundTrip ==
  ASSUME NEW paise \in Int, NEW err \in -1..1
  PROVE  _inr_to_paise(_paise_to_inr(paise), err) = paise
<1>1. CASE err = 0
  <2>1. (10 * paise + err) \div 10 = paise /\ (10 * paise + err) % 10 = 0
    BY <1>1
  <2> QED
    BY <2>1 DEF _inr_to_paise, _paise_to_inr
<1>2. CASE err = 1
  <2>1. (10 * paise + err) \div 10 = paise /\ (10 * paise + err) % 10 = 1
    BY <1>2
  <2> QED
    BY <2>1 DEF _inr_to_paise, _paise_to_inr
<1>3. CASE err = -1
  <2>1. (10 * paise + err) \div 10 = paise - 1 /\ (10 * paise + err) % 10 = 9
    BY <1>3
  <2> QED
    BY <2>1 DEF _inr_to_paise, _paise_to_inr
<1> QED
  BY <1>1, <1>2, <1>3

\* Both live adapters keep a payment's id and its amount in rupees.
LEMMA PaymentKept ==
  ASSUME NEW p \in Providers, NEW d
  PROVE  to_payment(p, d).id = d.id /\ to_payment(p, d).amount_inr = 10 * d.amount
BY DEF to_payment, RazorpayPayment, StripePayment, _paise_to_inr, Providers

LEMMA EventKept ==
  ASSUME NEW p \in Providers, NEW n
  PROVE  /\ parse_event(p, n, None).payment_id = n.entity.id
         /\ parse_event(p, n, None).amount_inr = 10 * n.entity.amount
BY DEF parse_event, RazorpayEvent, StripeEvent, _paise_to_inr, Providers

-----------------------------------------------------------------------------
(* Types *)

LEMMA InitInv == Init => Inv
<1> SUFFICES ASSUME Init PROVE Inv
  OBVIOUS
<1>1. TypeOK
  BY CallsAssumption DEF Init, TypeOK, NoCall
<1>2. AmountsAgree
  BY DEF Init, AmountsAgree, NoCall
<1>3. SerialsFresh
  BY DEF Init, SerialsFresh, InTransit, NoCall
<1>4. \A k : EffectsOf(k) = {} /\ RequestsOf(k) = {}
  BY DEF Init, EffectsOf, RequestsOf
<1>5. KeysKept
  BY <1>4 DEF Init, KeysKept
<1>6. AnswersBacked
  BY <1>4 DEF Init, AnswersBacked, Answered
<1>7. RequestsCounted
  <2>1. Cardinality({}) = 0
    BY FS_EmptySet
  <2>2. \A k \in Keys : lapses[k] = 0 /\ Cardinality(RequestsOf(k)) = 0
    BY <1>4, <2>1 DEF Init
  <2>3. \A k \in Keys : OneOf(k) \in {0, 1}
    BY DEF OneOf
  <2> QED
    BY <2>2, <2>3 DEF RequestsCounted
<1> QED
  BY <1>1, <1>2, <1>3, <1>5, <1>6, <1>7 DEF Inv

\* A payment is added to the account; those before it stay.
LEMMA AccountGrows ==
  ASSUME TypeOK, AmountsAgree, NEW c \in Customers,
         PaymentFails(c) \/ PaymentSucceeds(c)
  PROVE  /\ account' \in Seq(Native_) /\ Len(account') = Len(account) + 1
         /\ Len(account') <= MaxPayments
         /\ \A i \in DOMAIN account : i \in DOMAIN account' /\ account'[i] = account[i]
         /\ \A i \in DOMAIN account' : account'[i].id = i
         /\ notices' = notices \/ notices' =
              notices \cup {[type |-> FailureType[provider], id |-> None,
                             entity |-> account'[Len(account')]]}
<1>1. account \in Seq(Native_) /\ Len(account) \in Nat /\ Len(account) < MaxPayments
      /\ MaxPayments \in Nat /\ DOMAIN account = 1..Len(account)
  BY CallsAssumption DEF TypeOK, PaymentFails, PaymentSucceeds
<1>2. PICK d \in Native_ :
        /\ account' = Append(account, d) /\ d.id = Len(account) + 1
        /\ notices' = notices \/ notices' =
              notices \cup {[type |-> FailureType[provider], id |-> None, entity |-> d]}
  <2>1. Len(account) + 1 \in Ids /\ 2 * Len(account) + 1 \in Nat
    BY <1>1 DEF Ids
  <2>2. \A st \in {FailedStatus[provider], PaidStatus[provider]},
           e \in FailedWith[provider] \cup {None} :
          Native(c, st, e) \in Native_ /\ Native(c, st, e).id = Len(account) + 1
    BY <2>1 DEF Native, Native_
  <2> QED
    BY <2>2 DEF PaymentFails, PaymentSucceeds
<1>3. /\ account' \in Seq(Native_) /\ Len(account') = Len(account) + 1
      /\ \A i \in 1..Len(account) : account'[i] = account[i]
      /\ account'[Len(account) + 1] = d
  BY <1>1, <1>2, AppendProperties
<1>4. DOMAIN account' = 1..(Len(account) + 1)
  BY <1>3
<1>5. \A i \in DOMAIN account' : account'[i].id = i
  BY <1>1, <1>2, <1>3, <1>4 DEF AmountsAgree
<1> QED
  BY <1>1, <1>2, <1>3, <1>4, <1>5

LEMMA SameNative == UNCHANGED provider => Native_' = Native_
BY DEF Native_

\* A refund's request carries the amount of the payment, whatever the float's error.
LEMMA SendFacts ==
  ASSUME Inv, Send
  PROVE  /\ UNCHANGED <<provider, account, notices, remembered, effects, results, lapses>>
         /\ call.pc = "act" /\ call'.pc = "wait"
         /\ call'.event = call.event /\ call'.record = call.record /\ call'.kind = call.kind
         /\ call'.cost = CostAt(CallKey) /\ call'.cost \in Int
         /\ call' = [pc |-> call'.pc, event |-> call'.event, record |-> call'.record,
                     kind |-> call'.kind, cost |-> call'.cost]
         /\ sent + 1 \in Serial /\ sent' = sent + 1
         /\ \A s \in Serial : s # sent + 1 => wire'[s] = wire[s]
         /\ wire'[sent + 1] # None
         /\ wire'[sent + 1].id = call.record.id /\ wire'[sent + 1].kind = call.kind
         /\ call.kind = "refund" => wire'[sent + 1].amount = account[call.record.id].amount
         /\ wire'[sent + 1].keyed = Keyed(call.kind) /\ wire'[sent + 1].answer = None
         /\ call.record.id \in DOMAIN account
         /\ CallKey \in Keys /\ results[CallKey] = None
         /\ wire' \in [Serial -> Request \cup {None}]
<1>1. /\ UNCHANGED <<provider, account, notices, remembered, effects, results, lapses>>
      /\ call.pc = "act" /\ sent < MaxCalls /\ sent' = sent + 1
      /\ results[CallKey] = None
  BY DEF Send, world, Settled, CallKey
<1>2. /\ call.record.id \in DOMAIN account /\ call.kind \in Kinds
      /\ call.record.amount_inr = AmountAt(call.record.id)
      /\ provider \in Providers /\ account[call.record.id] \in Native_
      /\ account[call.record.id].id = call.record.id
  BY <1>1 DEF Inv, TypeOK, AmountsAgree
<1>3. account[call.record.id].amount \in Int /\ AmountAt(call.record.id) \in Int
  BY <1>2 DEF Native_, AmountAt
<1>4. PICK inr \in AmountsOf(call.kind), err \in Rounding :
        /\ wire' = [wire EXCEPT ![sent + 1] =
             [id |-> call.record.id, kind |-> call.kind,
              amount |-> _inr_to_paise(inr, err),
              keyed |-> Keyed(call.kind), answer |-> None]]
        /\ call' = [call EXCEPT !.pc = "wait", !.cost = CostOf(call.kind, inr)]
  BY DEF Send
<1>5. inr \in Int /\ (call.kind = "refund" => inr = AmountAt(call.record.id))
  <2>1. RefundAmount = AmountAt(call.record.id)
    BY <1>2, PaymentKept DEF RefundAmount, get_payment, AmountAt
  <2> QED
    BY <1>2, <1>3, <2>1, CallsAssumption DEF AmountsOf, LinkAmounts
<1>6. CostOf(call.kind, inr) = CostAt(CallKey) /\ CostOf(call.kind, inr) \in Int
  BY <1>3, <1>5 DEF CostOf, CostAt, CallKey
<1>7. /\ call'.pc = "wait" /\ call'.event = call.event /\ call'.record = call.record
      /\ call'.kind = call.kind /\ call'.cost = CostOf(call.kind, inr)
      /\ call' = [pc |-> call'.pc, event |-> call'.event, record |-> call'.record,
                  kind |-> call'.kind, cost |-> call'.cost]
  BY <1>4 DEF Inv, AmountsAgree
<1>8. sent + 1 \in Serial /\ sent' = sent + 1 /\ wire \in [Serial -> Request \cup {None}]
  BY <1>1, CallsAssumption DEF Inv, TypeOK, Serial
<1> DEFINE paise == _inr_to_paise(inr, err)
<1>9. paise \in Int /\ (call.kind = "refund" => paise = account[call.record.id].amount)
  <2>1. err \in -1..1 /\ err \in Int
    BY CallsAssumption
  <2>2. paise \in Int
    BY <1>5, <2>1 DEF _inr_to_paise
  <2>3. ASSUME call.kind = "refund" PROVE paise = account[call.record.id].amount
    <3>1. inr = _paise_to_inr(account[call.record.id].amount)
      BY <1>5, <2>3 DEF _paise_to_inr, AmountAt
    <3> QED
      BY <1>3, <2>1, <3>1, RoundTrip
  <2> QED
    BY <2>2, <2>3
<1> HIDE DEF paise
<1>10. wire'[sent + 1] =
         [id |-> call.record.id, kind |-> call.kind, amount |-> paise,
          keyed |-> Keyed(call.kind), answer |-> None]
  BY <1>4, <1>8 DEF paise
<1>11. call.record.id \in Ids /\ CallKey \in Keys
  BY <1>2, CallsAssumption DEF Inv, TypeOK, CallKey, Keys, Ids
<1>12. wire'[sent + 1] \in Request
  BY <1>2, <1>9, <1>10, <1>11 DEF Request, Keyed
<1>13. wire'[sent + 1] # None
  BY <1>12, AbsentAssumption
<1>14. /\ \A s \in Serial : s # sent + 1 => wire'[s] = wire[s]
       /\ wire' \in [Serial -> Request \cup {None}]
  <2>1. \A s \in Serial : s # sent + 1 => wire'[s] = wire[s]
    BY <1>4, <1>8
  <2>2. wire' = [s \in Serial |-> wire'[s]]
    BY <1>4, <1>8
  <2> QED
    BY <1>8, <1>12, <2>1, <2>2
<1> QED
  BY <1>1, <1>2, <1>6, <1>7, <1>8, <1>9, <1>10, <1>11, <1>13, <1>14

LEMMA TypeStep ==
  ASSUME Inv, [Next]_vars
  PROVE  TypeOK'
<1> USE DEF Inv
<1>1. ASSUME NEW c \in Customers, PaymentFails(c) \/ PaymentSucceeds(c) PROVE TypeOK'
  <2>1. /\ UNCHANGED <<provider, remembered, effects, wire, call, results, sent, crashes,
                       lapses>>
    BY <1>1 DEF PaymentFails, PaymentSucceeds, calls
  <2>2. /\ account' \in Seq(Native_') /\ Len(account') <= MaxPayments
        /\ \A i \in DOMAIN account : i \in DOMAIN account'
    BY <1>1, <2>1, AccountGrows DEF Native_
  <2>3. \A n \in notices' : n.entity.id \in DOMAIN account'
    <3>1. Len(account') \in DOMAIN account' /\ account'[Len(account')].id = Len(account')
      BY <1>1, AccountGrows DEF TypeOK
    <3>2. \A n \in notices : n.entity.id \in DOMAIN account'
      BY <2>2 DEF TypeOK
    <3> QED
      BY <1>1, <3>1, <3>2, AccountGrows
  <2> QED
    BY <2>1, <2>2, <2>3 DEF TypeOK
<1>2. ASSUME NEW id \in Ids, PaidLater(id) PROVE TypeOK'
  <2>1. UNCHANGED <<provider, notices, remembered, effects, wire, call, results, sent,
                    crashes, lapses>>
    BY <1>2 DEF PaidLater, calls
  <2>2. /\ account' \in Seq(Native_') /\ Len(account') = Len(account)
        /\ DOMAIN account' = DOMAIN account
    <3>1. /\ account \in Seq(Native_) /\ id \in DOMAIN account /\ account[id] \in Native_
          /\ account' = [account EXCEPT ![id].status = PaidStatus[provider], ![id].error = None]
      BY <1>2 DEF PaidLater, TypeOK
    <3>2. /\ DOMAIN account' = DOMAIN account /\ DOMAIN account = 1..Len(account)
          /\ Len(account) \in Nat
          /\ \A i \in DOMAIN account : i # id => account'[i] = account[i]
          /\ account'[id] = [account[id] EXCEPT !.status = PaidStatus[provider], !.error = None]
      BY <3>1
    <3>3. account'[id] \in Native_
      BY <3>1, <3>2 DEF Native_
    <3>4. \A i \in 1..Len(account) : account'[i] \in Native_
      BY <3>1, <3>2, <3>3
    <3>5. account' \in [1..Len(account) -> Native_]
      BY <3>1, <3>2, <3>4
    <3> QED
      BY <2>1, <3>2, <3>5, SameNative
  <2> QED
    BY <2>1, <2>2 DEF TypeOK
<1>3. ASSUME NEW n \in notices, Receive(n) PROVE TypeOK'
  <2>1. /\ UNCHANGED <<provider, account, notices, remembered, effects, wire, results,
                       sent, crashes, lapses>>
        /\ call'.pc = "route" /\ call'.event = parse_event(provider, n, None)
    BY <1>3 DEF Receive, world, NoCall
  <2>2. call'.event.payment_id \in DOMAIN account
    BY <2>1, EventKept DEF TypeOK
  <2> QED
    BY <2>1, <2>2, SameNative DEF TypeOK
<1>4. CASE Route
  <2>1. /\ UNCHANGED <<provider, account, notices, remembered, effects, wire, results,
                       sent, crashes, lapses>>
        /\ call.pc = "route" /\ call'.pc = "act" /\ call'.event = call.event
        /\ call'.kind \in Kinds /\ call'.record = get_payment(call.event.payment_id)
    BY <1>4 DEF Route, world, AmountsAgree
  <2>2. call'.record.id = call.event.payment_id
        /\ call'.record.amount_inr = call.event.amount_inr
    <3>1. /\ provider \in Providers /\ call.event.payment_id \in DOMAIN account
          /\ account[call.event.payment_id].id = call.event.payment_id
          /\ call.event.amount_inr = 10 * account[call.event.payment_id].amount
      BY <2>1 DEF TypeOK, AmountsAgree, AmountAt, Full, CostAt, CallKey
    <3> QED
      BY <2>1, <3>1, PaymentKept DEF get_payment
  <2> QED
    BY <2>1, <2>2, SameNative DEF TypeOK
<1>5. ASSUME LookupRaises \/ Duplicate PROVE TypeOK'
  <2>1. /\ UNCHANGED <<provider, world, wire, results, sent, crashes, lapses>>
        /\ call'.pc = "none"
    BY <1>5 DEF LookupRaises, Duplicate, NoCall
  <2> QED
    BY <2>1, SameNative DEF TypeOK, world
<1>6. CASE Send
  <2>1. sent' \in 0..MaxCalls /\ crashes' = crashes
    BY <1>6, CallsAssumption DEF Send, TypeOK
  <2>2. /\ call'.pc = "wait" /\ call'.event = call.event /\ call'.record = call.record
        /\ call'.kind = call.kind /\ call.pc = "act" /\ call'.cost \in Int
        /\ UNCHANGED <<provider, account, notices, remembered, effects, results, lapses>>
        /\ wire' \in [Serial -> Request \cup {None}]
    BY <1>6, SendFacts
  <2> QED
    BY <2>1, <2>2, SameNative DEF TypeOK
<1>7. ASSUME NEW s \in Serial, Perform(s) PROVE TypeOK'
  <2>1. /\ UNCHANGED <<provider, account, notices, call, results, sent, crashes, lapses>>
        /\ wire[s] \in Request
    BY <1>7, AbsentAssumption DEF Perform, calls, InTransit, TypeOK
  <2>2. /\ effects' \in [Serial -> Effect \cup {None}]
        /\ wire' \in [Serial -> Request \cup {None}]
        /\ remembered' \in [Ids -> Int \cup {None}]
    BY <1>7, <2>1 DEF Perform, TypeOK, Request, Effect
  <2> QED
    BY <2>1, <2>2, SameNative DEF TypeOK
<1>8. ASSUME NEW s \in Serial, Recall(s) PROVE TypeOK'
  <2>1. /\ UNCHANGED <<provider, account, notices, remembered, effects, call, results,
                       sent, crashes, lapses>>
        /\ wire[s] \in Request /\ remembered[wire[s].id] \in Int
    BY <1>8, AbsentAssumption DEF Recall, calls, world, InTransit, TypeOK, Request
  <2>2. wire' \in [Serial -> Request \cup {None}]
    BY <1>8, <2>1 DEF Recall, TypeOK, Request
  <2> QED
    BY <2>1, <2>2, SameNative DEF TypeOK
<1>9. ASSUME NEW s \in Serial, Refused(s) PROVE TypeOK'
  BY <1>9, SameNative DEF Refused, world, NoCall, TypeOK
<1>10. ASSUME NEW s \in Serial, Settles(s) PROVE TypeOK'
  <2>1. /\ UNCHANGED <<provider, account, notices, remembered, effects, sent, crashes,
                       lapses>>
        /\ call' = NoCall /\ call.pc = "wait"
        /\ wire' = [wire EXCEPT ![s] = None]
        /\ results' = [results EXCEPT ![KeyOf(wire[s])] =
             [cost |-> call.cost, amount |-> bounded(wire[s].kind, wire[s].answer)]]
    BY <1>10 DEF Settles, Waiting, world
  <2>2. [cost |-> call.cost, amount |-> bounded(wire[s].kind, wire[s].answer)] \in Result
    <3>1. wire[s] \in Request /\ wire[s].answer # None
      BY <1>10, AbsentAssumption DEF Settles, Answered, TypeOK
    <3>2. bounded(wire[s].kind, wire[s].answer) \in Int \cup {None}
      BY <3>1 DEF Request, bounded, _paise_to_inr
    <3> QED
      BY <2>1, <3>2 DEF TypeOK, Result
  <2>3. results' \in [Keys -> Result \cup {None}]
    <3> HIDE DEF Inv
    <3>1. results \in [Keys -> Result \cup {None}]
      BY DEF Inv, TypeOK
    <3> QED
      BY <2>1, <2>2, <3>1
  <2> QED
    BY <2>1, <2>3, SameNative DEF TypeOK, NoCall
<1>11. ASSUME TimesOut \/ Crash PROVE TypeOK'
  <2>1. /\ UNCHANGED <<provider, account, notices, remembered, effects, wire, results, sent>>
        /\ call' = NoCall
        /\ crashes' \in 0..MaxCrashes /\ lapses' \in [Keys -> Nat]
    <3>1. call.pc = "wait" => <<call.record.id, call.kind>> \in Keys
      <4>1. call.pc = "wait" => call.record.id \in 1..MaxPayments /\ call.kind \in Kinds
        BY CallsAssumption DEF TypeOK
      <4> QED
        BY <4>1 DEF Keys, Ids
    <3>2. lapses' \in [Keys -> Nat]
      <4>1. lapses \in [Keys -> Nat]
        BY DEF TypeOK
      <4>2. lapses' = lapses \/ (call.pc = "wait" /\ Lapse)
        BY <1>11 DEF TimesOut, Crash
      <4> QED
        BY <3>1, <4>1, <4>2 DEF Lapse
    <3> QED
      BY <1>11, <3>2, CallsAssumption DEF TimesOut, Crash, world, TypeOK
  <2> QED
    BY <2>1, SameNative DEF TypeOK, NoCall
<1>12. CASE UNCHANGED vars
  BY <1>12, SameNative DEF vars, world, calls, TypeOK
<1> QED
  BY <1>1, <1>2, <1>3, <1>4, <1>5, <1>6, <1>7, <1>8, <1>9, <1>10, <1>11, <1>12
     DEF Next, Account, Process, Network

-----------------------------------------------------------------------------
(* The rest of the invariant, one lemma per kind of step *)

Rest == AmountsAgree /\ SerialsFresh /\ KeysKept /\ AnswersBacked /\ RequestsCounted

\* Requests, effects and books stay, and no call begins or ends to wait.
Quiet ==
  /\ UNCHANGED <<provider, remembered, effects, wire, results, sent, lapses>>
  /\ call' = call \/ (call.pc # "wait" /\ call'.pc # "wait")

LEMMA QuietStep ==
  ASSUME Inv, Quiet
  PROVE  SerialsFresh' /\ KeysKept' /\ AnswersBacked' /\ RequestsCounted'
<1>1. \A k \in Keys : EffectsOf(k)' = EffectsOf(k) /\ RequestsOf(k)' = RequestsOf(k)
                      /\ OneOf(k)' = OneOf(k)
  BY DEF Quiet, EffectsOf, RequestsOf, OneOf, CallKey
<1>2. SerialsFresh'
  BY DEF Inv, Quiet, SerialsFresh, InTransit, CallKey
<1>3. \A id \in Ids : <<id, "refund">> \in Keys
  BY DEF Keys, Kinds
<1>4. KeysKept'
  BY <1>1, <1>3 DEF Inv, Quiet, KeysKept, Keyed
<1>5. \A s \in Serial : wire[s] # None => KeyOf(wire[s]) \in Keys
  BY DEF Inv, TypeOK, Request, Keys, KeyOf
<1>6. AnswersBacked'
  BY <1>1, <1>5 DEF Inv, Quiet, AnswersBacked, Answered
<1>7. RequestsCounted'
  BY <1>1 DEF Inv, Quiet, RequestsCounted
<1> QED
  BY <1>2, <1>4, <1>6, <1>7

LEMMA AccountStep ==
  ASSUME Inv, NEW c \in Customers, PaymentFails(c) \/ PaymentSucceeds(c)
  PROVE  Rest'
<1>1. UNCHANGED <<provider, remembered, effects, wire, call, results, sent, crashes, lapses>>
  BY DEF PaymentFails, PaymentSucceeds, calls
<1>2. SerialsFresh' /\ KeysKept' /\ AnswersBacked' /\ RequestsCounted'
  BY <1>1, QuietStep DEF Quiet
<1>3. /\ Len(account') \in DOMAIN account' /\ account'[Len(account')].id = Len(account')
      /\ \A i \in DOMAIN account : i \in DOMAIN account' /\ account'[i] = account[i]
      /\ \A i \in DOMAIN account' : account'[i].id = i
  BY AccountGrows DEF Inv, TypeOK
<1>4. \A n \in notices' : n.entity.amount = account'[n.entity.id].amount
  <2>1. \A n \in notices : n.entity.amount = account'[n.entity.id].amount
    BY <1>3 DEF Inv, TypeOK, AmountsAgree
  <2> QED
    BY <1>3, <2>1, AccountGrows DEF Inv
<1>5. AmountsAgree'
  BY <1>1, <1>3, <1>4 DEF Inv, TypeOK, AmountsAgree, AmountAt, Full, CostAt, CallKey
<1> QED
  BY <1>2, <1>5 DEF Rest

LEMMA PaidLaterStep ==
  ASSUME Inv, NEW id \in Ids, PaidLater(id)
  PROVE  Rest'
<1>1. UNCHANGED <<provider, notices, remembered, effects, wire, call, results, sent, crashes,
                  lapses>>
  BY DEF PaidLater, calls
<1>2. SerialsFresh' /\ KeysKept' /\ AnswersBacked' /\ RequestsCounted'
  BY <1>1, QuietStep DEF Quiet
<1>3. /\ DOMAIN account' = DOMAIN account
      /\ \A i \in DOMAIN account : account'[i].id = account[i].id
                                   /\ account'[i].amount = account[i].amount
  <2>1. /\ \A i \in DOMAIN account : account[i] \in Native_
        /\ id \in DOMAIN account /\ DOMAIN account' = DOMAIN account
        /\ \A i \in DOMAIN account : i # id => account'[i] = account[i]
        /\ account'[id] = [account[id] EXCEPT !.status = PaidStatus[provider], !.error = None]
    BY DEF PaidLater, Inv, TypeOK
  <2>2. account'[id].id = account[id].id /\ account'[id].amount = account[id].amount
    BY <2>1 DEF Native_
  <2> QED
    BY <2>1, <2>2
<1>4. AmountsAgree'
  <2>1. \A i \in DOMAIN account' : account'[i].id = i
    BY <1>3 DEF Inv, AmountsAgree
  <2>2. \A n \in notices' : n.entity.amount = account'[n.entity.id].amount
    BY <1>1, <1>3 DEF Inv, TypeOK, AmountsAgree
  <2>3. call' = [pc |-> call'.pc, event |-> call'.event, record |-> call'.record,
                 kind |-> call'.kind, cost |-> call'.cost]
    BY <1>1 DEF Inv, AmountsAgree
  <2>4. call'.pc # "none" => call'.event.amount_inr = AmountAt(call.event.payment_id)'
    <3>1. call.pc # "none" => /\ call.event.payment_id \in DOMAIN account
                              /\ call.event.amount_inr = AmountAt(call.event.payment_id)
      BY DEF Inv, TypeOK, AmountsAgree
    <3> QED
      BY <1>1, <1>3, <3>1 DEF AmountAt
  <2>5. call'.pc = "wait" => call'.cost = CostAt(CallKey)'
    <3>1. call.pc = "wait" => call.record.id \in DOMAIN account /\ call.cost = CostAt(CallKey)
      BY DEF Inv, TypeOK, AmountsAgree
    <3> QED
      BY <1>1, <1>3, <3>1 DEF AmountAt, CostAt, CallKey
  <2>6. \A s \in Serial : wire'[s] # None =>
             /\ Full(wire[s])'
             /\ wire'[s].kind = "refund" /\ wire'[s].answer # None =>
                  wire'[s].answer = account'[wire'[s].id].amount
    BY <1>1, <1>3 DEF Inv, AmountsAgree, Full
  <2>7. \A s \in Serial : effects'[s] # None => Full(effects[s])'
    BY <1>1, <1>3 DEF Inv, AmountsAgree, Full
  <2>8. \A i \in Ids : remembered'[i] # None =>
             i \in DOMAIN account' /\ remembered'[i] = account'[i].amount
    BY <1>1, <1>3 DEF Inv, AmountsAgree
  <2>9. \A k \in Keys : results'[k] # None =>
             /\ k[1] \in DOMAIN account' /\ results'[k].cost = CostAt(k)'
             /\ k[2] = "refund" => results'[k].amount = AmountAt(k[1])'
    BY <1>1, <1>3 DEF Inv, AmountsAgree, AmountAt, CostAt
  <2> QED
    BY <2>1, <2>2, <2>3, <2>4, <2>5, <2>6, <2>7, <2>8, <2>9
       DEF AmountsAgree, AmountAt, Full, CostAt, CallKey
<1> QED
  BY <1>2, <1>4 DEF Rest

LEMMA CallStep ==
  ASSUME Inv, Route \/ LookupRaises \/ Duplicate \/ (\E n \in notices : Receive(n))
  PROVE  Rest'
<1>1. /\ UNCHANGED <<provider, account, notices, remembered, effects, wire, results, sent,
                     lapses>>
      /\ call.pc # "wait" /\ call'.pc # "wait"
  <2>1. CASE Route
    BY <2>1 DEF Route, world, Inv, AmountsAgree
  <2>2. CASE LookupRaises \/ Duplicate
    <3>1. /\ call.pc \in {"route", "act"} /\ call' = NoCall
          /\ UNCHANGED <<provider, world, wire, results, sent, crashes, lapses>>
      BY <2>2 DEF LookupRaises, Duplicate
    <3> QED
      BY <3>1 DEF world, NoCall
  <2>3. CASE \E n \in notices : Receive(n)
    <3>1. PICK n \in notices : Receive(n)
      BY <2>3
    <3>2. call.pc = "none" /\ call'.pc = "route"
      BY <3>1 DEF Receive, NoCall
    <3> QED
      BY <3>1, <3>2 DEF Receive, world
  <2> QED
    BY <2>1, <2>2, <2>3
<1>2. SerialsFresh' /\ KeysKept' /\ AnswersBacked' /\ RequestsCounted'
  BY <1>1, QuietStep DEF Quiet
<1>3. call'.pc # "none" => call'.event.amount_inr = AmountAt(call'.event.payment_id)
  <2>1. ASSUME NEW n \in notices, Receive(n)
        PROVE  call'.event.amount_inr = AmountAt(call'.event.payment_id)
    <3>1. call'.event = parse_event(provider, n, None)
      BY <2>1 DEF Receive, NoCall
    <3>2. n.entity.amount = account[n.entity.id].amount /\ provider \in Providers
      BY DEF Inv, TypeOK, AmountsAgree
    <3> QED
      BY <3>1, <3>2, EventKept DEF AmountAt
  <2>2. CASE Route
    BY <2>2 DEF Route, Inv, AmountsAgree
  <2> QED
    BY <2>1, <2>2 DEF LookupRaises, Duplicate, NoCall
<1>4. call' = [pc |-> call'.pc, event |-> call'.event, record |-> call'.record,
               kind |-> call'.kind, cost |-> call'.cost]
  BY DEF Receive, Route, LookupRaises, Duplicate, NoCall, Inv, AmountsAgree
<1>5. AmountsAgree'
  BY <1>1, <1>3, <1>4 DEF Inv, AmountsAgree, AmountAt, Full, CostAt, CallKey
<1> QED
  BY <1>2, <1>5 DEF Rest

LEMMA RequestsFinite ==
  \A k : RequestsOf(k) \subseteq Serial /\ IsFiniteSet(RequestsOf(k))
         /\ Cardinality(RequestsOf(k)) \in Nat
<1>1. IsFiniteSet(Serial)
  BY FS_Interval, CallsAssumption DEF Serial
<1>2. \A k : RequestsOf(k) \subseteq Serial
  BY DEF RequestsOf, EffectsOf
<1> QED
  BY <1>1, <1>2, FS_Subset, FS_CardinalityType

LEMMA SendStep ==
  ASSUME Inv, Send
  PROVE  Rest'
<1>1. AmountsAgree'
  <2>1. CallKey' = CallKey /\ CostAt(CallKey)' = CostAt(CallKey)
    BY SendFacts DEF CallKey, CostAt, AmountAt
  <2>2. call'.pc = "wait" => call'.cost = CostAt(CallKey)'
    BY <2>1, SendFacts
  <2> QED
    BY <2>2, SendFacts DEF Inv, AmountsAgree, AmountAt, Full, CostAt
<1>2. CallKey' = CallKey /\ KeyOf(wire'[sent + 1]) = CallKey
  BY SendFacts DEF CallKey, KeyOf
<1>3. SerialsFresh'
  <2>1. sent \in Int
    BY CallsAssumption DEF Inv, TypeOK
  <2>2. \A s \in Serial : s > sent' => wire'[s] = None /\ effects'[s] = None
    BY <2>1, SendFacts DEF Inv, SerialsFresh, Serial
  <2>3. effects[sent + 1] = None
    BY <2>1, SendFacts DEF Inv, SerialsFresh, Serial
  <2>4. \A s \in Serial : InTransit(s)' => effects'[s] = None
    BY <2>3, SendFacts DEF Inv, SerialsFresh, InTransit
  <2> QED
    BY <1>2, <2>2, <2>4, SendFacts DEF SerialsFresh
<1>4. \A k : EffectsOf(k)' = EffectsOf(k)
  BY SendFacts DEF EffectsOf
<1>5. KeysKept'
  BY <1>4, SendFacts DEF Inv, KeysKept, Keyed
<1>6. AnswersBacked'
  BY <1>4, SendFacts DEF Inv, AnswersBacked, Answered
<1>7. ASSUME NEW k \in Keys
      PROVE  Cardinality(RequestsOf(k)') <= lapses'[k] + OneOf(k)'
  <2>1. /\ Cardinality(RequestsOf(k)) <= lapses[k] + OneOf(k)
        /\ lapses[k] \in Nat /\ lapses'[k] = lapses[k]
    BY SendFacts DEF Inv, RequestsCounted, TypeOK
  <2>2. CASE k = CallKey
    <3>1. RequestsOf(k)' \subseteq RequestsOf(k) \cup {sent + 1}
      BY <1>4, SendFacts DEF RequestsOf
    <3>2. OneOf(k) = 0 /\ OneOf(k)' = 1
      BY <1>2, <2>2, SendFacts DEF OneOf
    <3>3. /\ IsFiniteSet(RequestsOf(k) \cup {sent + 1})
          /\ Cardinality(RequestsOf(k) \cup {sent + 1}) <= Cardinality(RequestsOf(k)) + 1
      BY RequestsFinite, FS_AddElement
    <3>4. /\ Cardinality(RequestsOf(k)') <= Cardinality(RequestsOf(k) \cup {sent + 1})
          /\ Cardinality(RequestsOf(k)') \in Nat
          /\ Cardinality(RequestsOf(k) \cup {sent + 1}) \in Nat
      BY <3>1, <3>3, FS_Subset, FS_CardinalityType
    <3> QED
      BY <2>1, <3>2, <3>3, <3>4, RequestsFinite
  <2>3. CASE k # CallKey
    <3>1. RequestsOf(k)' = RequestsOf(k)
      <4>1. wire[sent + 1] = None
        BY SendFacts, CallsAssumption DEF Inv, TypeOK, SerialsFresh, Serial
      <4> QED
        BY <1>2, <1>4, <2>3, <4>1, SendFacts DEF RequestsOf
    <3>2. OneOf(k)' = OneOf(k)
      BY <1>2, <2>3, SendFacts DEF OneOf
    <3> QED
      BY <2>1, <3>1, <3>2
  <2> QED
    BY <2>2, <2>3
<1>8. RequestsCounted'
  BY <1>7 DEF RequestsCounted
<1> QED
  BY <1>1, <1>3, <1>5, <1>6, <1>8 DEF Rest

\* A request in transit is carried out: serial s has its effect and its answer.
LEMMA PerformStep ==
  ASSUME Inv, NEW s \in Serial, Perform(s)
  PROVE  Rest'
<1>1. /\ UNCHANGED <<provider, account, notices, call, results, sent, lapses>>
      /\ wire[s] \in Request /\ wire[s].answer = None /\ effects[s] = None
      /\ wire[s].keyed = Keyed(wire[s].kind)
      /\ ~(wire[s].keyed /\ remembered[wire[s].id] # None)
  BY AbsentAssumption
     DEF Perform, calls, InTransit, Inv, TypeOK, SerialsFresh, AmountsAgree, KeysKept
<1>2. /\ \A t \in Serial : t # s => wire'[t] = wire[t] /\ effects'[t] = effects[t]
      /\ wire'[s] = [wire[s] EXCEPT !.answer = wire[s].amount]
      /\ effects'[s] = [id |-> wire[s].id, kind |-> wire[s].kind, amount |-> wire[s].amount]
      /\ remembered' = IF wire[s].keyed
                       THEN [remembered EXCEPT ![wire[s].id] = wire[s].amount]
                       ELSE remembered
  BY DEF Perform, Inv, TypeOK
<1>3. /\ wire'[s] \in Request /\ wire'[s].id = wire[s].id /\ wire'[s].kind = wire[s].kind
      /\ wire'[s].amount = wire[s].amount /\ wire'[s].keyed = wire[s].keyed
      /\ wire'[s].answer = wire[s].amount /\ effects'[s] \in Effect
      /\ wire[s].amount \in Int /\ wire[s].id \in Ids
  BY <1>1, <1>2 DEF Request, Effect
<1>4. wire'[s] # None /\ effects'[s] # None /\ wire[s] # None /\ wire'[s].answer # None
  BY <1>1, <1>3, AbsentAssumption
<1>5. PICK K \in Keys :
        KeyOf(wire[s]) = K /\ KeyOf(wire'[s]) = K /\ KeyOf(effects'[s]) = K
  <2>1. KeyOf(wire[s]) = <<wire[s].id, wire[s].kind>> /\ KeyOf(wire[s]) \in Keys
    BY <1>1 DEF KeyOf, Keys, Request
  <2>2. KeyOf(wire'[s]) = <<wire[s].id, wire[s].kind>>
    BY <1>3 DEF KeyOf
  <2>3. KeyOf(effects'[s]) = <<wire[s].id, wire[s].kind>>
    BY <1>2 DEF KeyOf
  <2> QED
    BY <2>1, <2>2, <2>3
<1>6. /\ EffectsOf(K)' = EffectsOf(K) \cup {s}
      /\ \A k \in Keys : k # K => EffectsOf(k)' = EffectsOf(k)
  BY <1>1, <1>2, <1>4, <1>5 DEF EffectsOf
<1>7. AmountsAgree'
  <2>1. Full(wire[s]) /\ Full(wire[s])' /\ Full(effects[s])'
    <3>1. Full(wire[s])
      BY <1>4 DEF Inv, AmountsAgree
    <3>2. /\ effects'[s].id = wire[s].id /\ effects'[s].kind = wire[s].kind
          /\ effects'[s].amount = wire[s].amount
      BY <1>2
    <3> QED
      BY <1>1, <1>3, <3>1, <3>2 DEF Full
  <2>2. ASSUME NEW t \in Serial, wire'[t] # None
        PROVE  /\ Full(wire[t])'
               /\ wire'[t].kind = "refund" /\ wire'[t].answer # None =>
                    wire'[t].answer = account[wire'[t].id].amount
    <3>1. CASE t = s
      BY <1>3, <2>1, <3>1 DEF Full
    <3>2. CASE t # s
      BY <1>1, <1>2, <2>2, <3>2 DEF Inv, AmountsAgree, Full
    <3> QED
      BY <3>1, <3>2
  <2>3. ASSUME NEW t \in Serial, effects'[t] # None PROVE Full(effects[t])'
    <3>1. CASE t = s
      BY <2>1, <3>1
    <3>2. CASE t # s
      BY <1>1, <1>2, <2>3, <3>2 DEF Inv, AmountsAgree, Full
    <3> QED
      BY <3>1, <3>2
  <2>4. ASSUME NEW id \in Ids, remembered'[id] # None
        PROVE  id \in DOMAIN account /\ remembered'[id] = account[id].amount
    <3>1. CASE wire[s].keyed /\ id = wire[s].id
      <4>1. remembered'[id] = wire[s].amount /\ wire[s].kind = "refund"
        BY <1>1, <1>2, <1>3, <3>1 DEF Keyed, Inv, TypeOK
      <4> QED
        BY <2>1, <3>1, <4>1 DEF Full
    <3>2. CASE ~(wire[s].keyed /\ id = wire[s].id)
      <4>1. remembered'[id] = remembered[id]
        BY <1>2, <1>3, <3>2 DEF Inv, TypeOK
      <4> QED
        BY <2>4, <4>1 DEF Inv, AmountsAgree
    <3> QED
      BY <3>1, <3>2
  <2> QED
    BY <1>1, <2>2, <2>3, <2>4 DEF Inv, AmountsAgree, AmountAt, Full, CostAt, CallKey
<1>8. SerialsFresh'
  <2>1. s <= sent
    BY <1>4, CallsAssumption DEF Inv, TypeOK, SerialsFresh, Serial
  <2>2. \A t \in Serial : t > sent' => wire'[t] = None /\ effects'[t] = None
    BY <1>1, <1>2, <2>1, CallsAssumption DEF Inv, TypeOK, SerialsFresh, Serial
  <2>3. \A t \in Serial : InTransit(t)' => effects'[t] = None
    BY <1>2, <1>4 DEF Inv, SerialsFresh, InTransit
  <2>4. call.pc = "wait" => wire'[sent] # None /\ KeyOf(wire'[sent]) = CallKey
    BY <1>2, <1>4, <1>5 DEF Inv, SerialsFresh
  <2> QED
    BY <1>1, <2>2, <2>3, <2>4 DEF Inv, SerialsFresh, CallKey
<1>9. KeysKept'
  <2>1. \A t \in Serial : wire'[t] # None => wire'[t].keyed = Keyed(wire[t].kind)'
    <3>1. \A t \in Serial : Keyed(wire[t].kind)' = Keyed(wire'[t].kind)
      BY <1>1 DEF Keyed
    <3>2. \A t \in Serial : t # s /\ wire'[t] # None => wire'[t].keyed = Keyed(wire'[t].kind)
      BY <1>2 DEF Inv, KeysKept
    <3>3. wire'[s].keyed = Keyed(wire'[s].kind)
      BY <1>1, <1>3
    <3> QED
      BY <3>1, <3>2, <3>3
  <2>2. \A id \in Ids : <<id, "refund">> \in Keys
    BY DEF Keys, Kinds
  <2>3. ASSUME NEW id \in Ids, remembered'[id] # None
        PROVE  EffectsOf(<<id, "refund">>)' # {}
    <3>1. CASE remembered[id] # None
      BY <1>6, <2>2, <3>1 DEF Inv, KeysKept
    <3>2. CASE remembered[id] = None
      <4>1. wire[s].keyed /\ id = wire[s].id
        BY <1>2, <2>3, <3>2 DEF Inv, TypeOK
      <4>2. K = <<id, "refund">>
        BY <1>1, <1>5, <4>1 DEF KeyOf, Keyed
      <4> QED
        BY <1>6, <4>2
    <3> QED
      BY <3>1, <3>2
  <2>4. ASSUME provider = "stripe", NEW id \in Ids,
               NEW t \in EffectsOf(<<id, "refund">>)', NEW u \in EffectsOf(<<id, "refund">>)'
        PROVE  remembered'[id] # None /\ t = u
    <3>1. CASE K = <<id, "refund">>
      <4>1. wire[s].keyed /\ wire[s].id = id
        <5>1. wire[s].id = id /\ wire[s].kind = "refund"
          BY <1>5, <3>1 DEF KeyOf
        <5>2. Keyed(wire[s].kind)
          BY <2>4, <5>1 DEF Keyed
        <5> QED
          BY <1>1, <5>1, <5>2
      <4>2. EffectsOf(<<id, "refund">>) = {}
        BY <1>1, <2>4, <4>1 DEF Inv, KeysKept
      <4>3. remembered'[id] # None
        BY <1>2, <1>3, <4>1, AbsentAssumption DEF Inv, TypeOK
      <4> QED
        BY <1>6, <3>1, <4>2, <4>3
    <3>2. CASE K # <<id, "refund">>
      <4>1. remembered'[id] = remembered[id]
        BY <1>1, <1>2, <1>3, <1>5, <3>2 DEF KeyOf, Keyed, Inv, TypeOK
      <4> QED
        BY <1>6, <2>2, <2>4, <3>2, <4>1 DEF Inv, KeysKept
    <3> QED
      BY <3>1, <3>2
  <2> QED
    BY <1>1, <2>1, <2>3, <2>4 DEF KeysKept
<1>10. AnswersBacked'
  <2>1. ASSUME NEW t \in Serial, NEW k \in Keys, Answered(t)', KeyOf(wire'[t]) = k
        PROVE EffectsOf(k)' # {}
    <3>1. CASE t = s
      BY <1>5, <1>6, <2>1, <3>1
    <3>2. CASE t # s
      <4>1. Answered(t) /\ KeyOf(wire[t]) = k
        BY <1>2, <2>1, <3>2 DEF Answered
      <4>2. EffectsOf(k) # {}
        BY <4>1 DEF Inv, AnswersBacked
      <4> QED
        BY <1>6, <4>2
    <3> QED
      BY <3>1, <3>2
  <2>2. \A k \in Keys : results'[k] # None => EffectsOf(k)' # {}
    <3>1. \A k \in Keys : EffectsOf(k) # {} => EffectsOf(k)' # {}
      BY <1>6
    <3> QED
      BY <1>1, <3>1 DEF Inv, AnswersBacked
  <2>3. \A t \in Serial : Answered(t)' => KeyOf(wire'[t]) \in Keys
    BY TypeStep DEF Answered, Next, Network, TypeOK, Request, KeyOf, Keys
  <2> QED
    BY <2>1, <2>2, <2>3 DEF AnswersBacked
<1>11. \A k \in Keys : RequestsOf(k)' = RequestsOf(k)
  <2>1. s \in RequestsOf(K)
    BY <1>4, <1>5 DEF RequestsOf
  <2>2. ASSUME NEW k \in Keys
        PROVE {t \in Serial : wire'[t] # None /\ KeyOf(wire'[t]) = k}
              = {t \in Serial : wire[t] # None /\ KeyOf(wire[t]) = k}
    BY <1>2, <1>4, <1>5
  <2> QED
    BY <1>6, <2>1, <2>2 DEF RequestsOf
<1>12. RequestsCounted'
  BY <1>1, <1>11 DEF Inv, RequestsCounted, OneOf, CallKey
<1> QED
  BY <1>7, <1>8, <1>9, <1>10, <1>12 DEF Rest

\* A key the provider has seen is answered; nothing else happens.
LEMMA RecallStep ==
  ASSUME Inv, NEW s \in Serial, Recall(s)
  PROVE  Rest'
<1>1. /\ UNCHANGED <<provider, account, notices, remembered, effects, call, results, sent,
                     lapses>>
      /\ wire[s] \in Request /\ wire[s].answer = None /\ wire[s].keyed
      /\ remembered[wire[s].id] # None
      /\ \A t \in Serial : t # s => wire'[t] = wire[t]
      /\ wire'[s] = [wire[s] EXCEPT !.answer = remembered[wire[s].id]]
  BY AbsentAssumption DEF Recall, calls, world, InTransit, Inv, TypeOK
<1>2. /\ wire[s].id \in Ids /\ remembered[wire[s].id] \in Int \cup {None}
      /\ wire[s].kind \in Kinds
  BY <1>1 DEF Inv, TypeOK, Request
<1>3. /\ wire'[s] \in Request /\ wire'[s].id = wire[s].id /\ wire'[s].kind = wire[s].kind
      /\ wire'[s].amount = wire[s].amount /\ wire'[s].keyed = wire[s].keyed
      /\ wire'[s].answer # None
  BY <1>1, <1>2 DEF Request
<1>4. wire'[s] # None /\ wire[s] # None
  BY <1>1, <1>3, AbsentAssumption
<1>5. PICK K \in Keys : KeyOf(wire[s]) = K /\ KeyOf(wire'[s]) = K /\ K = <<wire[s].id, wire[s].kind>>
  BY <1>2, <1>3 DEF KeyOf, Keys
<1>6. \A k : EffectsOf(k)' = EffectsOf(k)
  BY <1>1 DEF EffectsOf
<1>7. AmountsAgree'
  <2>1. ASSUME NEW t \in Serial, wire'[t] # None
        PROVE  /\ Full(wire[t])'
               /\ wire'[t].kind = "refund" /\ wire'[t].answer # None =>
                    wire'[t].answer = account[wire'[t].id].amount
    <3>1. CASE t = s
      <4>1. Full(wire[s]) /\ remembered[wire[s].id] = account[wire[s].id].amount
        BY <1>1, <1>2, <1>4 DEF Inv, AmountsAgree
      <4>2. wire'[s].answer = remembered[wire[s].id]
        BY <1>1 DEF Request
      <4> QED
        BY <1>1, <1>3, <3>1, <4>1, <4>2 DEF Full
    <3>2. CASE t # s
      BY <1>1, <2>1, <3>2 DEF Inv, AmountsAgree, Full
    <3> QED
      BY <3>1, <3>2
  <2> QED
    BY <1>1, <2>1 DEF Inv, AmountsAgree, AmountAt, Full, CostAt, CallKey
<1>8. SerialsFresh'
  <2>1. \A t \in Serial : t > sent' => wire'[t] = None /\ effects'[t] = None
    BY <1>1, <1>4 DEF Inv, SerialsFresh
  <2>2. \A t \in Serial : InTransit(t)' => effects'[t] = None
    BY <1>1, <1>3 DEF Inv, SerialsFresh, InTransit
  <2>3. call.pc = "wait" => wire'[sent] # None /\ KeyOf(wire'[sent]) = CallKey
    BY <1>1, <1>4, <1>5 DEF Inv, SerialsFresh
  <2> QED
    BY <1>1, <2>1, <2>2, <2>3 DEF Inv, SerialsFresh, CallKey
<1>9. KeysKept'
  <2>1. \A t \in Serial : wire'[t] # None => wire'[t].keyed = Keyed(wire[t].kind)'
    <3>1. \A t \in Serial : Keyed(wire[t].kind)' = Keyed(wire'[t].kind)
      BY <1>1 DEF Keyed
    <3>2. \A t \in Serial : t # s /\ wire'[t] # None => wire'[t].keyed = Keyed(wire'[t].kind)
      BY <1>1 DEF Inv, KeysKept
    <3>3. wire'[s].keyed = Keyed(wire'[s].kind)
      BY <1>3, <1>4 DEF Inv, KeysKept
    <3> QED
      BY <3>1, <3>2, <3>3
  <2> QED
    BY <1>1, <1>6, <2>1 DEF Inv, KeysKept
<1>10. AnswersBacked'
  <2>1. EffectsOf(K) # {}
    <3>1. wire[s].kind = "refund"
      BY <1>1, <1>4 DEF Inv, KeysKept, Keyed
    <3> QED
      BY <1>1, <1>2, <1>5, <3>1 DEF Inv, KeysKept
  <2>2. ASSUME NEW t \in Serial, NEW k \in Keys, Answered(t)', KeyOf(wire'[t]) = k
        PROVE EffectsOf(k)' # {}
    <3>1. CASE t = s
      BY <1>5, <1>6, <2>1, <2>2, <3>1
    <3>2. CASE t # s
      <4>1. Answered(t) /\ KeyOf(wire[t]) = k
        BY <1>1, <2>2, <3>2 DEF Answered
      <4> QED
        BY <1>6, <4>1 DEF Inv, AnswersBacked
    <3> QED
      BY <3>1, <3>2
  <2>3. \A t \in Serial : Answered(t)' => KeyOf(wire'[t]) \in Keys
    BY TypeStep DEF Answered, Next, Network, TypeOK, Request, KeyOf, Keys
  <2> QED
    BY <1>1, <1>6, <2>2, <2>3 DEF Inv, AnswersBacked
<1>11. \A k \in Keys : RequestsOf(k)' = RequestsOf(k)
  <2>1. ASSUME NEW k \in Keys
        PROVE {t \in Serial : wire'[t] # None /\ KeyOf(wire'[t]) = k}
              = {t \in Serial : wire[t] # None /\ KeyOf(wire[t]) = k}
    BY <1>1, <1>4, <1>5
  <2> QED
    BY <1>6, <2>1 DEF RequestsOf
<1>12. RequestsCounted'
  BY <1>1, <1>11 DEF Inv, RequestsCounted, OneOf, CallKey
<1> QED
  BY <1>7, <1>8, <1>9, <1>10, <1>12 DEF Rest

\* A call that waited is over, and its request with it.
LEMMA ClosedFacts ==
  ASSUME Inv, NEW s \in Serial, Waiting(s),
         wire' = [wire EXCEPT ![s] = None], call' = NoCall,
         UNCHANGED <<provider, account, notices, remembered, effects, sent, lapses>>
  PROVE  /\ KeyOf(wire[s]) = CallKey /\ CallKey \in Keys /\ results[CallKey] = None
         /\ \A k : EffectsOf(k)' = EffectsOf(k)
         /\ \A k : Cardinality(RequestsOf(k)') <= Cardinality(RequestsOf(k))
                   /\ Cardinality(RequestsOf(k)') \in Nat
         /\ \A t \in Serial : wire'[t] # None => t # s /\ wire'[t] = wire[t]
         /\ wire'[s] = None
         /\ SerialsFresh' /\ KeysKept'
<1>1. /\ \A t \in Serial : t # s => wire'[t] = wire[t]
      /\ wire'[s] = None /\ call'.pc = "none" /\ call.pc = "wait" /\ s = sent
  BY DEF Inv, TypeOK, NoCall, Waiting
<1>2. KeyOf(wire[s]) = CallKey /\ CallKey \in Keys /\ results[CallKey] = None
  <2>1. KeyOf(wire[s]) = CallKey /\ results[CallKey] = None /\ wire[s] # None
    BY <1>1 DEF Inv, SerialsFresh
  <2>2. call.record.id \in Ids /\ call.kind \in Kinds
    BY <1>1, CallsAssumption DEF Inv, TypeOK, Ids
  <2> QED
    BY <2>1, <2>2 DEF CallKey, Keys
<1>3. \A k : EffectsOf(k)' = EffectsOf(k)
  BY DEF EffectsOf
<1>4. \A k : RequestsOf(k)' \subseteq RequestsOf(k)
  BY <1>1, <1>3 DEF RequestsOf
<1>5. \A k : Cardinality(RequestsOf(k)') <= Cardinality(RequestsOf(k))
             /\ Cardinality(RequestsOf(k)') \in Nat
  BY <1>4, RequestsFinite, FS_Subset, FS_CardinalityType
<1>6. SerialsFresh'
  BY <1>1 DEF Inv, SerialsFresh, InTransit
<1>7. KeysKept'
  <2>1. \A t \in Serial : wire'[t] # None => wire'[t].keyed = Keyed(wire[t].kind)'
    <3>1. \A t \in Serial : wire'[t] # None =>
            wire'[t] = wire[t] /\ wire[t].keyed = Keyed(wire[t].kind)
      BY <1>1 DEF Inv, KeysKept
    <3> QED
      BY <3>1 DEF Keyed
  <2> QED
    BY <1>3, <2>1 DEF Inv, KeysKept
<1> QED
  BY <1>1, <1>2, <1>3, <1>5, <1>6, <1>7

\* The answers still in transit are those of effects.
LEMMA StillBacked ==
  ASSUME Inv, TypeOK', NEW s \in Serial, wire' = [wire EXCEPT ![s] = None],
         UNCHANGED effects
  PROVE  \A t \in Serial : Answered(t)' => EffectsOf(KeyOf(wire[t]))' # {}
<1>1. ASSUME NEW t \in Serial, Answered(t)'
      PROVE  \A k \in Keys : KeyOf(wire'[t]) = k => EffectsOf(k)' # {}
  <2>1. wire'[t] = wire[t] /\ Answered(t)
    BY <1>1 DEF Answered, Inv, TypeOK
  <2>2. \A k : EffectsOf(k)' = EffectsOf(k)
    BY DEF EffectsOf
  <2> QED
    BY <2>1, <2>2 DEF Inv, AnswersBacked
<1>2. \A t \in Serial : Answered(t)' => KeyOf(wire'[t]) \in Keys
  BY DEF Answered, TypeOK, Request, KeyOf, Keys
<1> QED
  BY <1>1, <1>2

LEMMA RefusedStep ==
  ASSUME Inv, NEW s \in Serial, Refused(s)
  PROVE  Rest'
<1>0. TypeOK'
  BY TypeStep DEF Next, Network
<1>1. /\ UNCHANGED <<provider, account, notices, remembered, effects, results, sent, lapses>>
      /\ Waiting(s) /\ InTransit(s) /\ wire' = [wire EXCEPT ![s] = None] /\ call' = NoCall
  BY DEF Refused, world
<1>2. AmountsAgree'
  BY <1>1, ClosedFacts DEF Inv, AmountsAgree, AmountAt, Full, CostAt, CallKey, NoCall
<1>3. AnswersBacked'
  <2>1. \A k \in Keys : results'[k] # None => EffectsOf(k)' # {}
    BY <1>1, ClosedFacts DEF Inv, AnswersBacked
  <2> QED
    BY <1>0, <1>1, <2>1, StillBacked DEF AnswersBacked
<1>4. ASSUME NEW k \in Keys
      PROVE  Cardinality(RequestsOf(k)') <= lapses'[k] + OneOf(k)'
  <2>1. /\ Cardinality(RequestsOf(k)) <= lapses[k] + OneOf(k)
        /\ lapses[k] \in Nat /\ lapses'[k] = lapses[k]
    BY <1>1 DEF Inv, RequestsCounted, TypeOK
  <2>2. CASE k = CallKey
    <3>1. OneOf(k) = 1 /\ OneOf(k)' = 0
      <4>1. results'[CallKey] = None /\ call'.pc = "none" /\ call.pc = "wait"
        BY <1>1, ClosedFacts DEF Waiting, NoCall
      <4>2. results'[k] = None
        BY <2>2, <4>1
      <4> QED
        BY <2>2, <4>1, <4>2 DEF OneOf
    <3>2. s \in RequestsOf(k) /\ s \notin RequestsOf(k)'
      <4>1. wire[s] # None /\ KeyOf(wire[s]) = k /\ effects[s] = None
        BY <1>1, <2>2, ClosedFacts DEF InTransit, Inv, SerialsFresh
      <4>2. wire'[s] = None /\ effects'[s] = None
        BY <1>1, <4>1, ClosedFacts
      <4> QED
        BY <4>1, <4>2 DEF RequestsOf, EffectsOf
    <3>3. RequestsOf(k)' \subseteq RequestsOf(k) \ {s}
      <4>1. \A t \in Serial : wire'[t] # None => wire'[t] = wire[t]
        BY <1>1, ClosedFacts
      <4>2. EffectsOf(k)' = EffectsOf(k)
        BY <1>1, ClosedFacts
      <4>3. RequestsOf(k)' \subseteq RequestsOf(k)
        BY <4>1, <4>2 DEF RequestsOf
      <4> QED
        BY <3>2, <4>3
    <3>4. Cardinality(RequestsOf(k)') <= Cardinality(RequestsOf(k) \ {s})
      BY <3>3, RequestsFinite, FS_Subset, FS_RemoveElement
    <3>5. Cardinality(RequestsOf(k) \ {s}) = Cardinality(RequestsOf(k)) - 1
      BY <3>2, RequestsFinite, FS_RemoveElement
    <3>6. Cardinality(RequestsOf(k)') \in Nat /\ Cardinality(RequestsOf(k)) \in Nat
      BY <1>1, ClosedFacts, RequestsFinite
    <3> QED
      BY <2>1, <3>1, <3>4, <3>5, <3>6
  <2>3. CASE k # CallKey
    <3>1. OneOf(k)' = OneOf(k)
      BY <1>1, <2>3 DEF OneOf, NoCall
    <3>2. OneOf(k) \in {0, 1}
      BY DEF OneOf
    <3>3. /\ Cardinality(RequestsOf(k)') <= Cardinality(RequestsOf(k))
          /\ Cardinality(RequestsOf(k)') \in Nat /\ Cardinality(RequestsOf(k)) \in Nat
      BY <1>1, ClosedFacts, RequestsFinite
    <3> QED
      BY <2>1, <3>1, <3>2, <3>3
  <2> QED
    BY <2>2, <2>3
<1>5. RequestsCounted'
  BY <1>4 DEF RequestsCounted
<1> QED
  BY <1>1, <1>2, <1>3, <1>5, ClosedFacts DEF Rest

\* The answer is booked: its serial gives way to the settled key.
LEMMA SettlesStep ==
  ASSUME Inv, NEW s \in Serial, Settles(s)
  PROVE  Rest'
<1>0. TypeOK'
  BY TypeStep DEF Next, Network
<1>1. /\ UNCHANGED <<provider, account, notices, remembered, effects, sent, lapses>>
      /\ Waiting(s) /\ Answered(s) /\ wire' = [wire EXCEPT ![s] = None] /\ call' = NoCall
      /\ results' = [results EXCEPT ![KeyOf(wire[s])] =
           [cost |-> call.cost, amount |-> bounded(wire[s].kind, wire[s].answer)]]
  BY DEF Settles, world
<1>2. PICK K \in Keys : K = CallKey /\ KeyOf(wire[s]) = K
  BY <1>1, ClosedFacts
<1>3. /\ results'[K] \in Result /\ results'[K].cost = CostAt(K)
      /\ K[1] \in DOMAIN account /\ (K[2] = "refund" => results'[K].amount = AmountAt(K[1]))
      /\ \A k \in Keys : k # K => results'[k] = results[k]
  <2>1. /\ call.pc = "wait" /\ call.cost = CostAt(K) /\ K[1] = call.record.id /\ K[2] = call.kind
        /\ call.record.id \in DOMAIN account /\ call.cost \in Int
    BY <1>1, <1>2 DEF Waiting, Inv, TypeOK, AmountsAgree, CallKey
  <2>2. /\ wire[s] # None /\ wire[s].answer # None /\ wire[s].kind = K[2] /\ wire[s].id = K[1]
        /\ wire[s] \in Request
    BY <1>1, <1>2 DEF Answered, KeyOf, Inv, TypeOK
  <2> DEFINE amount == bounded(wire[s].kind, wire[s].answer)
  <2>3. amount \in Int \cup {None} /\ (K[2] = "refund" => amount = AmountAt(K[1]))
    BY <2>2 DEF bounded, _paise_to_inr, AmountAt, Request, Inv, AmountsAgree
  <2> HIDE DEF amount
  <2>4. results'[K] = [cost |-> call.cost, amount |-> amount]
        /\ \A k \in Keys : k # K => results'[k] = results[k]
    BY <1>1, <1>2 DEF Inv, TypeOK, amount
  <2> QED
    BY <2>1, <2>3, <2>4 DEF Result
<1>4. AmountsAgree'
  <2>1. ASSUME NEW k \in Keys, results'[k] # None
        PROVE  /\ k[1] \in DOMAIN account /\ results'[k].cost = CostAt(k)
               /\ k[2] = "refund" => results'[k].amount = AmountAt(k[1])
    BY <1>3, <2>1 DEF Inv, AmountsAgree
  <2>2. \A t \in Serial : wire'[t] # None => wire'[t] = wire[t]
    BY <1>1, ClosedFacts
  <2> QED
    BY <1>1, <2>1, <2>2 DEF Inv, AmountsAgree, AmountAt, Full, CostAt, CallKey, NoCall
<1>5. AnswersBacked'
  <2>1. EffectsOf(K) # {}
    BY <1>1, <1>2 DEF Inv, AnswersBacked
  <2>2. \A k \in Keys : results'[k] # None => EffectsOf(k) # {}
    BY <1>3, <2>1 DEF Inv, AnswersBacked
  <2>3. \A k \in Keys : results'[k] # None => EffectsOf(k)' # {}
    BY <1>1, <2>2, ClosedFacts
  <2> QED
    BY <1>0, <1>1, <2>3, StillBacked DEF AnswersBacked
<1>6. ASSUME NEW k \in Keys
      PROVE  Cardinality(RequestsOf(k)') <= lapses'[k] + OneOf(k)'
  <2>1. /\ Cardinality(RequestsOf(k)) <= lapses[k] + OneOf(k)
        /\ lapses[k] \in Nat /\ lapses'[k] = lapses[k]
    BY <1>1 DEF Inv, RequestsCounted, TypeOK
  <2>2. OneOf(k) <= OneOf(k)' /\ OneOf(k) \in Nat /\ OneOf(k)' \in Nat
    <3>1. results[k] # None => results'[k] # None
      BY <1>1, <1>2, <1>3, ClosedFacts
    <3>2. CallKey = k => results'[k] # None
      BY <1>2, <1>3, AbsentAssumption
    <3> QED
      BY <3>1, <3>2 DEF OneOf
  <2>3. /\ Cardinality(RequestsOf(k)') <= Cardinality(RequestsOf(k))
        /\ Cardinality(RequestsOf(k)') \in Nat /\ Cardinality(RequestsOf(k)) \in Nat
    BY <1>1, ClosedFacts, RequestsFinite
  <2> QED
    BY <2>1, <2>2, <2>3
<1>7. RequestsCounted'
  BY <1>6 DEF RequestsCounted
<1> QED
  BY <1>1, <1>4, <1>5, <1>7, ClosedFacts DEF Rest

\* A call ends, by a timeout or with its process; a request it waited for lapses.
LEMMA EndsStep ==
  ASSUME Inv, TimesOut \/ Crash
  PROVE  Rest'
<1>1. /\ UNCHANGED <<provider, account, notices, remembered, effects, wire, results, sent>>
      /\ call' = NoCall
      /\ \/ call.pc = "wait" /\ Lapse
         \/ call.pc # "wait" /\ UNCHANGED lapses
  BY DEF TimesOut, Crash, world
<1>2. AmountsAgree'
  BY <1>1 DEF Inv, AmountsAgree, AmountAt, Full, CostAt, CallKey, NoCall
<1>3. CASE call.pc # "wait" /\ UNCHANGED lapses
  BY <1>1, <1>2, <1>3, QuietStep DEF Quiet, NoCall, Rest
<1>4. CASE call.pc = "wait" /\ Lapse
  <2>1. \A k : EffectsOf(k)' = EffectsOf(k) /\ RequestsOf(k)' = RequestsOf(k)
    BY <1>1 DEF EffectsOf, RequestsOf
  <2>2. SerialsFresh'
    BY <1>1 DEF Inv, SerialsFresh, InTransit, NoCall
  <2>3. KeysKept'
    BY <1>1, <2>1 DEF Inv, KeysKept, Keyed
  <2>4. AnswersBacked'
    BY <1>1, <2>1 DEF Inv, AnswersBacked, Answered
  <2>5. CallKey \in Keys /\ results[CallKey] = None
    <3>1. call.record.id \in Ids /\ call.kind \in Kinds
      BY <1>4, CallsAssumption DEF Inv, TypeOK, Ids
    <3> QED
      BY <1>4, <3>1 DEF CallKey, Keys, Inv, SerialsFresh
  <2>6. ASSUME NEW k \in Keys
        PROVE  Cardinality(RequestsOf(k)) <= lapses'[k] + OneOf(k)'
    <3>1. /\ Cardinality(RequestsOf(k)) <= lapses[k] + OneOf(k) /\ lapses[k] \in Nat
          /\ Cardinality(RequestsOf(k)) \in Nat
      BY RequestsFinite DEF Inv, RequestsCounted, TypeOK
    <3>2. CASE k = CallKey
      <4>1. lapses'[k] = lapses[k] + 1
        BY <1>4, <3>2 DEF Lapse, CallKey, Inv, TypeOK
      <4>2. OneOf(k) = 1
        BY <1>4, <3>2 DEF OneOf
      <4>3. OneOf(k)' \in {0, 1}
        BY DEF OneOf
      <4> QED
        BY <3>1, <4>1, <4>2, <4>3
    <3>3. CASE k # CallKey
      <4>1. lapses'[k] = lapses[k]
        BY <1>4, <3>3 DEF Lapse, CallKey, Inv, TypeOK
      <4>2. OneOf(k)' = OneOf(k)
        BY <1>1, <3>3 DEF OneOf, NoCall
      <4> QED
        BY <3>1, <4>1, <4>2
    <3> QED
      BY <3>2, <3>3
  <2>7. RequestsCounted'
    BY <2>1, <2>6 DEF RequestsCounted
  <2> QED
    BY <1>2, <2>2, <2>3, <2>4, <2>7 DEF Rest
<1> QED
  BY <1>1, <1>3, <1>4

LEMMA UnchangedStep ==
  ASSUME Inv, UNCHANGED vars
  PROVE  Rest'
<1>1. Quiet /\ UNCHANGED <<account, notices, call>>
  BY DEF Quiet, vars, world, calls
<1>2. AmountsAgree'
  BY <1>1 DEF Quiet, Inv, AmountsAgree, AmountAt, Full, CostAt, CallKey
<1> QED
  BY <1>1, <1>2, QuietStep DEF Rest

LEMMA StepInv == Inv /\ [Next]_vars => Inv'
<1> SUFFICES ASSUME Inv, [Next]_vars PROVE Inv'
  OBVIOUS
<1>1. TypeOK'
  BY TypeStep
<1>2. Rest'
  <2>1. CASE Account
    BY <2>1, AccountStep, PaidLaterStep DEF Account
  <2>2. CASE Process
    BY <2>2, CallStep, SendStep, EndsStep DEF Process
  <2>3. CASE Network
    BY <2>3, PerformStep, RecallStep, RefusedStep, SettlesStep DEF Network
  <2>4. CASE UNCHANGED vars
    BY <2>4, UnchangedStep
  <2> QED
    BY <2>1, <2>2, <2>3, <2>4 DEF Next
<1> QED
  BY <1>1, <1>2 DEF Inv, Rest

-----------------------------------------------------------------------------
(* The theorems *)

\* The invariant is one: it holds initially and every step keeps it.
THEOREM Invariant == Spec => []Inv
BY InitInv, StepInv, PTL DEF Spec

\* Every variable stays in its type, and a call past its lookup holds the record
\* of the payment its event named (pipeline.py: process).
THEOREM Types == Spec => []TypeOK
<1>1. Inv => TypeOK
  BY DEF Inv
<1> QED
  BY <1>1, Invariant, PTL

\* A refund whose key the provider honours is made at most once (stripe.py:
\* refund_payment), however requests are delayed and repeated.
THEOREM KeyOnce == Spec => []KeyHonoured
<1>1. Inv => KeyHonoured
  <2> SUFFICES ASSUME Inv, provider = "stripe", NEW id \in Ids
               PROVE  Cardinality(EffectsOf(<<id, "refund">>)) <= 1
    BY DEF KeyHonoured
  <2>1. \A s, t \in EffectsOf(<<id, "refund">>) : s = t
    BY DEF Inv, KeysKept
  <2>2. CASE EffectsOf(<<id, "refund">>) = {}
    BY <2>2, FS_EmptySet
  <2>3. CASE EffectsOf(<<id, "refund">>) # {}
    <3>1. PICK s : EffectsOf(<<id, "refund">>) = {s}
      BY <2>1, <2>3
    <3> QED
      BY <3>1, FS_Singleton
  <2> QED
    BY <2>2, <2>3
<1> QED
  BY <1>1, Invariant, PTL

\* Without a key too, an effect is repeated only when a client gave up waiting:
\* at most one more per lapsed request of its payment and kind.
THEOREM EffectsCounted == Spec => []EffectsAccounted
<1>1. Inv => EffectsAccounted
  <2> SUFFICES ASSUME Inv, NEW k \in Keys
               PROVE  Cardinality(EffectsOf(k)) <= 1 + lapses[k]
    BY DEF EffectsAccounted
  <2>1. Cardinality(RequestsOf(k)) <= lapses[k] + OneOf(k) /\ lapses[k] \in Nat
    BY DEF Inv, RequestsCounted, TypeOK
  <2>2. OneOf(k) \in {0, 1}
    BY DEF OneOf
  <2>3. EffectsOf(k) \subseteq RequestsOf(k)
    BY DEF RequestsOf
  <2>4. /\ Cardinality(EffectsOf(k)) <= Cardinality(RequestsOf(k))
        /\ Cardinality(EffectsOf(k)) \in Nat /\ Cardinality(RequestsOf(k)) \in Nat
    BY <2>3, RequestsFinite, FS_Subset, FS_CardinalityType
  <2> QED
    BY <2>1, <2>2, <2>4
<1> QED
  BY <1>1, Invariant, PTL

\* What the executor has settled was made at the provider; of a refund the cost
\* booked, the amount paid back and the amount stored are one, whatever request
\* the answer was of (executor.py:146-160, tools.py:134-147, 181-185).
THEOREM BooksAreBacked == Spec => []BookedWasMade
<1>1. Inv => BookedWasMade
  <2> SUFFICES ASSUME Inv, NEW k \in Keys, results[k] # None
               PROVE  \E s \in EffectsOf(k) : k[2] = "refund" =>
                        /\ _paise_to_inr(effects[s].amount) = results[k].cost
                        /\ results[k].amount = results[k].cost
    BY DEF BookedWasMade
  <2>1. PICK s \in EffectsOf(k) : TRUE
    BY DEF Inv, AnswersBacked
  <2>2. s \in Serial /\ effects[s] # None /\ KeyOf(effects[s]) = k
    BY <2>1 DEF EffectsOf
  <2>3. effects[s].id = k[1] /\ effects[s].kind = k[2] /\ Full(effects[s])
    BY <2>2 DEF KeyOf, Inv, AmountsAgree
  <2>4. results[k].cost = CostAt(k) /\ (k[2] = "refund" => results[k].amount = AmountAt(k[1]))
    BY DEF Inv, AmountsAgree
  <2>5. k[2] = "refund" => /\ _paise_to_inr(effects[s].amount) = results[k].cost
                           /\ results[k].amount = results[k].cost
    BY <2>3, <2>4 DEF Full, CostAt, AmountAt, _paise_to_inr
  <2> QED
    BY <2>1, <2>5
<1> QED
  BY <1>1, Invariant, PTL

-----------------------------------------------------------------------------
(* Histories *)

\* One answer of a listing holds all there is when there is no more than it holds.
LEMMA NewestIsAll ==
  ASSUME NEW ids \in SUBSET Int, IsFiniteSet(ids), Cardinality(ids) <= ListLimit
  PROVE  Newest(ids) = ids
<1> SUFFICES ASSUME NEW i \in ids
             PROVE  Cardinality({j \in ids : j > i}) < ListLimit
  BY DEF Newest
<1> DEFINE newer == {j \in ids : j > i}
<1>1. newer \in SUBSET (ids \ {i})
  OBVIOUS
<1> HIDE DEF newer
<1>2. IsFiniteSet(ids \ {i}) /\ Cardinality(ids \ {i}) = Cardinality(ids) - 1
  BY FS_RemoveElement
<1>3. IsFiniteSet(newer) /\ Cardinality(newer) <= Cardinality(ids \ {i})
  BY <1>1, <1>2, FS_Subset
<1>4. Cardinality(newer) \in Nat /\ Cardinality(ids) \in Nat
  BY <1>3, FS_CardinalityType
<1>5. Cardinality(newer) < ListLimit
  BY <1>2, <1>3, <1>4, AdaptersAssumption
<1> QED
  BY <1>5 DEF newer

\* At both providers, the rules' context of a customer counts his own payments,
\* all of them, as long as one answer holds the listing (razorpay.py and
\* stripe.py: get_customer_history).
THEOREM HistoriesOwn == Spec => []HistoryIsOwn
<1>1. TypeOK => HistoryIsOwn
  <2> SUFFICES ASSUME TypeOK, NEW c \in Customers PROVE
        LET own    == OfCustomer(account, DOMAIN account, c)
            paid   == WithStatus(account, own, PaidStatus[provider])
            listed == IF provider = "stripe" THEN own ELSE DOMAIN account
        IN Cardinality(listed) <= ListLimit =>
             get_customer_history(provider, account, c) =
               [total_payments      |-> Cardinality(own),
                successful_payments |-> Cardinality(paid),
                failed_payments     |-> Cardinality(own \ paid)]
    BY DEF HistoryIsOwn
  <2> DEFINE own  == OfCustomer(account, DOMAIN account, c)
             paid == WithStatus(account, own, PaidStatus[provider])
  <2>1. DOMAIN account \in SUBSET Int /\ IsFiniteSet(DOMAIN account)
    <3>1. Len(account) \in Int /\ DOMAIN account = 1..Len(account)
      BY DEF TypeOK
    <3> QED
      BY <3>1, FS_Interval
  <2>2. own \in SUBSET DOMAIN account
    BY DEF OfCustomer
  <2>3. own \in SUBSET Int /\ IsFiniteSet(own)
    BY <2>1, <2>2, FS_Subset
  <2>4. \A i \in own : account[i].status \in {FailedStatus[provider], PaidStatus[provider]}
    <3>1. \A i \in DOMAIN account : account[i] \in Native_
      BY DEF TypeOK
    <3> QED
      BY <2>2, <3>1 DEF Native_
  <2>5. CASE provider = "stripe"
    <3> SUFFICES ASSUME Cardinality(own) <= ListLimit
                 PROVE  StripeHistory(account, c) =
                          [total_payments      |-> Cardinality(own),
                           successful_payments |-> Cardinality(paid),
                           failed_payments     |-> Cardinality(own \ paid)]
      BY <2>5 DEF get_customer_history
    <3>1. Newest(own) = own
      BY <2>3, NewestIsAll
    <3>2. PaidStatus[provider] = "succeeded"
      BY <2>5 DEF PaidStatus
    <3> QED
      BY <3>1, <3>2 DEF StripeHistory
  <2>6. CASE provider = "razorpay"
    <3> SUFFICES ASSUME Cardinality(DOMAIN account) <= ListLimit
                 PROVE  RazorpayHistory(account, c) =
                          [total_payments      |-> Cardinality(own),
                           successful_payments |-> Cardinality(paid),
                           failed_payments     |-> Cardinality(own \ paid)]
      BY <2>6 DEF get_customer_history
    <3>1. Newest(DOMAIN account) = DOMAIN account
      BY <2>1, NewestIsAll
    <3>2. PaidStatus[provider] = "captured" /\ FailedStatus[provider] = "failed"
      BY <2>6 DEF PaidStatus, FailedStatus
    <3>3. WithStatus(account, own, "failed") = own \ paid
      BY <2>4, <3>2 DEF WithStatus
    <3> QED
      BY <3>1, <3>2, <3>3 DEF RazorpayHistory
  <2> QED
    BY <2>5, <2>6 DEF TypeOK, Providers
<1> QED
  BY <1>1, Types, PTL

=============================================================================
