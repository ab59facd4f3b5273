-------------------------- MODULE MCGuardedExecutor --------------------------
(* Small instances of GuardedExecutor and AuditReplay. *)
EXTENDS AuditReplay, GuardedExecutorRefinement, TLC

CONSTANTS r1, c1, c2, s1, k1, k2, k3

\* Threshold 2, budget 2, cap 4.  The refund of k1 needs an approval and, with
\* that of k2, passes the cap; three effects for s1 pass the budget.
refund(k, n)  == [name |-> "refund", subject |-> s1, key |-> k, cost |-> n]
MCActions ==
  {refund(k1, 3), refund(k2, 2),
   [name |-> "send_payment_link", subject |-> s1, key |-> k3, cost |-> 0]}

\* With an action without a handler.
MCUnknown == MCActions \cup
  {[name |-> "charge_card", subject |-> s1, key |-> k2, cost |-> 1]}

Symmetry == Permutations({c1, c2})
=============================================================================
