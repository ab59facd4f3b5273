---------------------- MODULE GuardedExecutorRefinement ----------------------
(***************************************************************************)
(* The executor's many transactions implement GuardContract: the effect    *)
(* outstanding in a run is that of the call between handler and put_result.*)
(***************************************************************************)
EXTENDS GuardedExecutor

ASSUME NoneAssumption == None \notin [key: Keys, cost: Nat, booked: BOOLEAN]

Outstanding(c) ==
  [key |-> ActOf(c).key, cost |-> ActOf(c).cost, booked |-> At(c, "put")]

Due(r) ==
  IF \E c \in Callers : Unsettled(c) /\ RunOf(c) = r
  THEN Outstanding(CHOOSE c \in Callers : Unsettled(c) /\ RunOf(c) = r)
  ELSE None

Contract == INSTANCE GuardContract WITH
  Costs   <- {a.cost : a \in Actions},
  acted   <- effects,
  paid    <- outlay,
  due     <- [r \in Runs |-> Due(r)],
  booked  <- spend,
  settled <- results,
  allowed <- {id \in Ids : Approved(id)},
  halted  <- breaker

\* Each effect happens, is booked and is settled as the contract says, though
\* the executor reads and writes its store in a dozen separate transactions.
ImplementsContract == Contract!Spec

=============================================================================
