----------------------------- MODULE AuditReplay -----------------------------
(***************************************************************************)
(* agentcore/guardrails/replay.py: the fold of a run's audit log into the  *)
(* state it implies, set beside the counters the store really keeps.       *)
(***************************************************************************)
EXTENDS GuardedExecutor

\* ReplayState: executed_count, total_cost, per_subject_executed and
\* breaker_tripped; the histogram "decisions" repeats the log and is left out.
EmptyReplay ==
  [executed |-> 0, cost |-> 0, subjects |-> [s \in Subjects |-> 0],
   tripped |-> FALSE]

\* Faulty: a held action counts as spend.
CountEveryRefusal(state, entry) ==
  IF entry.decision \in {"executed", "pending_approval"}
  THEN [state EXCEPT !.executed = @ + 1, !.cost = @ + entry.action.cost,
                     !.subjects[entry.action.subject] = @ + 1]
  ELSE [state EXCEPT !.tripped = @ \/ entry.decision = "rejected_spend_cap"]

\* Only executed entries move spend and budget.
Replayed(state, entry) ==
  IF entry.decision = "executed"
  THEN [state EXCEPT !.executed = @ + 1, !.cost = @ + entry.action.cost,
                     !.subjects[entry.action.subject] = @ + 1]
  ELSE [state EXCEPT !.tripped = @ \/ entry.decision = "rejected_spend_cap"]

\* The state after each prefix of the log, as the loop reads it.
reconstruct(entries) ==
  LET after[n \in 0..Len(entries)] ==
        IF n = 0 THEN EmptyReplay ELSE Replayed(after[n - 1], entries[n])
  IN after[Len(entries)]

AtRest == \A c \in Callers : At(c, "idle")

-----------------------------------------------------------------------------
(* Properties *)

\* In a process that has not crashed, whenever no call is under way the log
\* replays to exactly what the store holds (replay.py:3-6).
ReplayMatchesStore ==
  AtRest /\ crashes = 0 =>
    \A r \in Runs : LET state == reconstruct(audit[r]) IN
      /\ state.cost = spend[r]
      /\ \A s \in Subjects : state.subjects[s] = count[<<r, s>>]
      /\ state.tripped = breaker[r]

\* Whatever the crash, and however calls interleave, the log claims nothing
\* the store does not hold: the audit entry is the last write of a call.
ReplayNeverOverstates ==
  \A r \in Runs : LET state == reconstruct(audit[r]) IN
    /\ state.cost <= spend[r]
    /\ \A s \in Subjects : state.subjects[s] <= count[<<r, s>>]
    /\ state.tripped => breaker[r]

=============================================================================
