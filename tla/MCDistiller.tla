----------------------------- MODULE MCDistiller -----------------------------
(* Small instances of Distiller. *)
EXTENDS Distiller

\* Threshold 5: one amount the gate lets pass, one it holds.
MCBand == [x \in Amounts |-> IF x <= 5 THEN "low" ELSE "high"]

upTo(op, n) == [when |-> {[op |-> op, value |-> n]}, action |-> "refund"]
always(a)   == [when |-> {}, action |-> a]
MCRefunds   == {upTo("le", 5), upTo("lt", 10)}
MCLinks     == {always("link")}

\* Rates of the code where two cases can meet them, and a small z.
ratio(n, d) == [num |-> n, den |-> d]
Rate80 == ratio(8, 10)
Rate60 == ratio(6, 10)
Rate90 == ratio(9, 10)
Rate50 == ratio(5, 10)
Quarter == ratio(1, 4)
=============================================================================
