---------------------------- MODULE MCPlayground ----------------------------
(* Two visitors of one payment, one amount below the approval threshold and  *)
(* one above, and a crash anywhere.                                          *)
EXTENDS Playground, TLC

CONSTANTS r1, r2, p1

MCRequests == {r1, r2}
Symmetry   == Permutations(MCRequests)
MCPayments == {p1}
MCAmounts  == {1, 3}
MCAnswers  == {"refund", "final"}
MCPrompts  == MCPayments \X MCAmounts
              \X ({<<>>} \cup {<<s>> : s \in Statuses})
=============================================================================
