----------------------------- MODULE MCAgentRun -----------------------------
(* Small instances of AgentRun. *)
EXTENDS AgentRun

CONSTANTS r1, r2, c1, s1, kLink, kRefund, kEscalate

tool(name, key, n) == [name |-> name, subject |-> s1, key |-> key, cost |-> n]
link == tool("send_payment_link", kLink, 0)
help == tool("escalate_to_human", kEscalate, 0)

\* Threshold 2, cap 1: the refund of the first payment is held for approval,
\* that of the second passes the cap.
held == tool("refund", kRefund, 3)
over == tool("refund", kRefund, 2)
MCActions == {link, help, held, over}
MCOffers  == [r \in {r1, r2} |-> {link, help, IF r = r1 THEN held ELSE over}]
=============================================================================
