--------------------------- MODULE ProviderAdapters ---------------------------
(***************************************************************************)
(* What the three adapters (providers/razorpay.py, stripe.py, fake.py)     *)
(* make of native objects: the tables, and the normalised payments,        *)
(* events, histories, orders, links and refunds of providers/types.py.     *)
(* Pure functions.  A native payment is a record [id, customer, amount,    *)
(* status, method, error]: the amount in minor units, the error a code at  *)
(* Razorpay and a pair of codes at Stripe.                                 *)
(*                                                                         *)
(* Rupees are floats in the code.  Here an amount_inr is an integer, in    *)
(* tenths of a paisa: a float's rounding error is less than one of these.  *)
(***************************************************************************)
EXTENDS Integers, Sequences, FiniteSets

CONSTANTS
  None,       \* an absent field
  ListLimit   \* payments in one answer of a listing (100)

ASSUME AdaptersAssumption == ListLimit \in Nat

-----------------------------------------------------------------------------
(* The normalised vocabulary *)

FailureReason == {"insufficient_funds", "card_declined", "expired_card",
  "authentication_required", "processing_error", "invalid_details",
  "risk_blocked", "unknown"}
PaymentStatus == {"created", "authorized", "captured", "failed", "refunded",
  "partially_refunded"}
PaymentMethod == {"card", "upi", "netbanking", "wallet", "emi", "unknown"}
OrderStatus == {"created", "attempted", "paid"}
RefundStatus == {"pending", "processed", "failed"}
PaymentLinkStatus == {"created", "paid", "expired", "cancelled"}
EventType == {"payment_failed", "payment_authorized", "payment_captured",
  "refund_processed", "other"}

\* A table lists, per normalised value, the native ones that map to it.
Get(table, native, default) ==
  IF \E v \in DOMAIN table : native \in table[v]
  THEN CHOOSE v \in DOMAIN table : native \in table[v]
  ELSE default

Same(values) == [v \in values |-> {v}]

\* FailureReason.from_code.
from_code(code) == IF code \in FailureReason THEN code ELSE "unknown"

-----------------------------------------------------------------------------
(* Amounts *)

_paise_to_inr(paise) == 10 * paise

\* Faulty: cut off instead of rounded.
TruncatedPaise(inr, err) == (inr + err) \div 10
\* The product of the float and 100, off by `err` tenths, rounded half to even.
_inr_to_paise(inr, err) ==
  LET x == inr + err
      floor == x \div 10
      rest  == x % 10
  IN IF rest > 5 \/ (rest = 5 /\ floor % 2 = 1) THEN floor + 1 ELSE floor

-----------------------------------------------------------------------------
(* Razorpay *)

RazorpayEvents == [payment_failed |-> {"payment.failed"},
  payment_authorized |-> {"payment.authorized"},
  payment_captured |-> {"payment.captured"}, refund_processed |-> {"refund.processed"}]
RazorpayStatuses == Same(PaymentStatus \ {"partially_refunded"})
RazorpayMethods  == Same(PaymentMethod \ {"unknown"})
RazorpayOrders   == Same(OrderStatus)
RazorpayRefunds  == Same(RefundStatus)
RazorpayLinks    == Same(PaymentLinkStatus)
RazorpayReasons == [
  insufficient_funds |-> {"insufficient_funds", "insufficient_balance"},
  card_declined |-> {"payment_declined", "card_declined"},
  expired_card |-> {"expired_card"},
  authentication_required |-> {"authentication_failed", "authentication_required"},
  processing_error |-> {"gateway_error", "server_error"},
  invalid_details |-> {"invalid_card", "invalid_details"},
  risk_blocked |-> {"payment_frozen", "risk_blocked"}]

RazorpayReason(d) ==
  IF d.status = "failed" THEN Get(RazorpayReasons, d.error, "unknown") ELSE None

\* _to_payment.
RazorpayPayment(d) ==
  [id |-> d.id, customer_id |-> d.customer, amount_inr |-> _paise_to_inr(d.amount),
   status |-> Get(RazorpayStatuses, d.status, "created"),
   method |-> Get(RazorpayMethods, d.method, "unknown"),
   failure_reason |-> RazorpayReason(d)]

\* An event's id: from the header, else from the body, else made from its kind
\* and its payment, which a second failure of the payment shares.
EventIdOf(n, header) ==
  IF header # None THEN header
  ELSE IF n.id # None THEN n.id ELSE <<n.type, n.entity.id>>

RazorpayEvent(n, header) ==
  [event_id |-> EventIdOf(n, header), event_type |-> Get(RazorpayEvents, n.type, "other"),
   payment_id |-> n.entity.id, amount_inr |-> _paise_to_inr(n.entity.amount),
   failure_reason |-> RazorpayReason(n.entity)]

-----------------------------------------------------------------------------
(* Stripe *)

StripeEvents == [payment_failed |-> {"payment_intent.payment_failed"},
  payment_captured |-> {"payment_intent.succeeded"},
  payment_authorized |-> {"payment_intent.amount_capturable_updated"},
  refund_processed |-> {"charge.refunded"}]
StripeStatuses == [captured |-> {"succeeded"},
  failed |-> {"requires_payment_method", "canceled"}, created |-> {"processing"},
  authorized |-> {"requires_action", "requires_confirmation", "requires_capture"}]
StripeMethods == [card |-> {"card"}, upi |-> {"upi"}, netbanking |-> {"netbanking"},
  wallet |-> {"wallet", "link"}]
StripeOrders  == [attempted |-> {"open"}, paid |-> {"complete"}, created |-> {"expired"}]
StripeLinks   == [created |-> {"open"}, paid |-> {"complete"}, expired |-> {"expired"}]
StripeRefunds == [processed |-> {"succeeded"}, pending |-> {"pending"},
  failed |-> {"failed", "canceled"}]
StripeReasons == [
  insufficient_funds |-> {"insufficient_funds"},
  card_declined |-> {"card_declined", "generic_decline", "do_not_honor",
                     "transaction_not_allowed"},
  expired_card |-> {"expired_card"},
  authentication_required |-> {"authentication_required",
                               "payment_intent_authentication_failure"},
  processing_error |-> {"processing_error", "try_again_later"},
  invalid_details |-> {"incorrect_number", "incorrect_cvc", "invalid_expiry_month",
                       "invalid_expiry_year", "invalid_account"},
  risk_blocked |-> {"fraudulent", "lost_card", "stolen_card", "merchant_blacklist"}]

\* The decline code, if there is one, before the code.
_reason_from_error(error) ==
  IF error = None THEN "unknown"
  ELSE Get(StripeReasons,
           IF error.decline_code # None THEN error.decline_code ELSE error.code,
           "unknown")

\* _to_payment.
StripePayment(d) ==
  LET status == Get(StripeStatuses, d.status, "created") IN
  [id |-> d.id, customer_id |-> d.customer, amount_inr |-> _paise_to_inr(d.amount),
   status |-> status, method |-> Get(StripeMethods, d.method, "unknown"),
   failure_reason |-> IF status = "failed" \/ d.error # None
                      THEN _reason_from_error(d.error) ELSE None]

StripeEvent(n, header) ==
  [event_id |-> EventIdOf(n, header), event_type |-> Get(StripeEvents, n.type, "other"),
   payment_id |-> n.entity.id, amount_inr |-> _paise_to_inr(n.entity.amount),
   failure_reason |-> IF \/ n.type = "payment_intent.payment_failed"
                         \/ n.entity.error # None
                      THEN _reason_from_error(n.entity.error) ELSE None]

-----------------------------------------------------------------------------
(* The fake provider: its entities are normalised, amounts included *)

FakeEvents == RazorpayEvents

FakePayment(d) ==
  [id |-> d.id, customer_id |-> d.customer, amount_inr |-> d.amount,
   status |-> d.status, method |-> d.method, failure_reason |-> d.error]

FakeEvent(n, header) ==
  [event_id |-> IF header # None THEN header ELSE n.id,
   event_type |-> Get(FakeEvents, n.type, "other"),
   payment_id |-> n.entity.id, amount_inr |-> n.entity.amount,
   failure_reason |-> from_code(n.entity.error)]

-----------------------------------------------------------------------------
(* One interface *)

to_payment(provider, d) ==
  IF provider = "razorpay" THEN RazorpayPayment(d)
  ELSE IF provider = "stripe" THEN StripePayment(d)
  ELSE FakePayment(d)

parse_event(provider, n, header) ==
  IF provider = "razorpay" THEN RazorpayEvent(n, header)
  ELSE IF provider = "stripe" THEN StripeEvent(n, header)
  ELSE FakeEvent(n, header)

\* An account lists its payments, oldest first; one answer of a listing holds the
\* newest of those asked for.
Newest(ids) == {i \in ids : Cardinality({j \in ids : j > i}) < ListLimit}

OfCustomer(account, ids, customer) == {i \in ids : account[i].customer = customer}
WithStatus(account, ids, status)   == {i \in ids : account[i].status = status}

\* Faulty: the listing of the whole account is taken for the customer's.
ForgetsCustomer(account, customer) ==
  LET items == Newest(DOMAIN account) IN
  [total_payments |-> Cardinality(items),
   successful_payments |-> Cardinality(WithStatus(account, items, "captured")),
   failed_payments |-> Cardinality(WithStatus(account, items, "failed"))]

\* Razorpay lists the account's newest payments and keeps the customer's.
RazorpayHistory(account, customer) ==
  LET items == OfCustomer(account, Newest(DOMAIN account), customer) IN
  [total_payments |-> Cardinality(items),
   successful_payments |-> Cardinality(WithStatus(account, items, "captured")),
   failed_payments |-> Cardinality(WithStatus(account, items, "failed"))]

\* Stripe lists the customer's, and whatever did not succeed has failed.
StripeHistory(account, customer) ==
  LET items == Newest(OfCustomer(account, DOMAIN account, customer))
      succeeded == WithStatus(account, items, "succeeded")
  IN [total_payments |-> Cardinality(items),
      successful_payments |-> Cardinality(succeeded),
      failed_payments |-> Cardinality(items \ succeeded)]

get_customer_history(provider, account, customer) ==
  CASE provider = "razorpay" -> RazorpayHistory(account, customer)
    [] provider = "stripe"   -> StripeHistory(account, customer)

\* What an order, a link or a refund answers: the amount the provider holds, and
\* a status out of a table.
Amounted(table, d, default) ==
  [amount_inr |-> _paise_to_inr(d.amount), status |-> Get(table, d.status, default)]

\* Stripe's order and its link are checkout sessions.
RazorpayOrder(d) == Amounted(RazorpayOrders, d, "created")
StripeOrder(d)   == Amounted(StripeOrders, d, "created")
get_order(provider, d) == IF provider = "razorpay" THEN RazorpayOrder(d) ELSE StripeOrder(d)

RazorpayLink(d) == Amounted(RazorpayLinks, d, "created")
StripeLink(d)   == Amounted(StripeLinks, d, "created")
created_link(provider, d) == IF provider = "razorpay" THEN RazorpayLink(d) ELSE StripeLink(d)

RazorpayRefund(d) == Amounted(RazorpayRefunds, d, "pending")
StripeRefund(d)   == Amounted(StripeRefunds, d, "pending")
created_refund(provider, d) ==
  IF provider = "razorpay" THEN RazorpayRefund(d) ELSE StripeRefund(d)

-----------------------------------------------------------------------------
(* The conformance contract (providers/conformance.py), per provider and for *)
(* a failed payment d, notified by n, of a customer with this account.       *)

PaymentConforms(provider, d, reason, amount_inr) ==
  LET p == to_payment(provider, d) IN
  /\ p.amount_inr = amount_inr /\ p.status = "failed"
  /\ p.failure_reason = reason
  /\ p.method \in PaymentMethod /\ p.customer_id = d.customer

EventConforms(provider, n, reason, amount_inr) ==
  LET e == parse_event(provider, n, None) IN
  /\ e.event_type = "payment_failed" /\ e.failure_reason = reason
  /\ e.amount_inr = amount_inr /\ e.payment_id = n.entity.id

=============================================================================
