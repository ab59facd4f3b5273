---------------------------- MODULE MCProviderCalls ----------------------------
(* Two customers, an account that outgrows a listing, and the adapters'      *)
(* conformance on failed payments of every mapped reason.                    *)
EXTENDS ProviderCalls, TLC

CONSTANTS c1, c2

MCCustomers  == {c1, c2}
Symmetry     == Permutations(MCCustomers)
StripeError(code, decline) == [code |-> code, decline_code |-> decline]
MCFailedWith == [razorpay |-> {"insufficient_balance"},
                 stripe |-> {StripeError("card_declined", "insufficient_funds")}]
MCRounding   == -1..1
\* Two paise and a fifth.
MCModelAmounts == {22}

\* An entity of provider p that failed with this native error.
Failed(p, error) ==
  [id |-> 1, customer |-> c1, amount |-> 250000,
   status |-> IF p = "fake" THEN "failed" ELSE FailedStatus[p],
   method |-> "card", error |-> error]
FailureOf(p, d) ==
  [type |-> IF p = "stripe" THEN FailureType["stripe"] ELSE FailureType["razorpay"],
   id |-> "evt", entity |-> d]

\* Native errors by the reason they stand for, the decline code before the code.
ErrorsOf(p, reason) ==
  CASE p = "razorpay" -> RazorpayReasons[reason]
    [] p = "stripe"   -> {StripeError(c, None) : c \in StripeReasons[reason]}
                         \cup {StripeError("card_declined", c) : c \in StripeReasons[reason]}
    [] p = "fake"     -> {reason}

\* providers/conformance.py: a failed payment and its notification come out the
\* same whatever provider they are of, for every reason a provider can give.
ASSUME ConformanceAssumption ==
  \A p \in {"razorpay", "stripe", "fake"} :
    \A reason \in FailureReason \ {"unknown"} : \A error \in ErrorsOf(p, reason) :
      LET d == Failed(p, error)
          amount_inr == IF p = "fake" THEN d.amount ELSE _paise_to_inr(d.amount)
      IN /\ PaymentConforms(p, d, reason, amount_inr)
         /\ EventConforms(p, FailureOf(p, d), reason, amount_inr)

\* ... and so do orders, links and refunds, at the two providers on the network.
ASSUME AnswersAssumption ==
  \A p \in Providers :
    LET d(status) == [amount |-> 250000, status |-> status]
        amount_inr == _paise_to_inr(250000)
        open == IF p = "stripe" THEN "open" ELSE "created"
        done == IF p = "stripe" THEN "succeeded" ELSE "processed"
        of(status) == [customer |-> c1, status |-> status]
    IN /\ get_order(p, d(open)).amount_inr = amount_inr
       /\ get_order(p, d(open)).status \in OrderStatus
       /\ created_link(p, d(open)) = [amount_inr |-> amount_inr, status |-> "created"]
       /\ created_refund(p, d(done)) = [amount_inr |-> amount_inr, status |-> "processed"]
       /\ get_customer_history(p, <<of(PaidStatus[p]), of(FailedStatus[p])>>, c1) =
            [total_payments |-> 2, successful_payments |-> 1, failed_payments |-> 1]
=============================================================================
