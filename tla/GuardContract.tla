---------------------------- MODULE GuardContract ----------------------------
(***************************************************************************)
(* What the guarded executor promises about the outside world, without the *)
(* checks and transactions by which it keeps the promise: each effect is   *)
(* decided, booked and settled as if those were single moments.            *)
(***************************************************************************)
EXTENDS Naturals

CONSTANTS
  Runs, Keys,         \* payments under recovery, idempotency keys
  Costs,              \* what an effect may cost
  ApprovalThreshold,  \* above it a human must have said yes
  SpendCap,           \* what one run may book
  None                \* no effect outstanding

VARIABLES
  acted,    \* times the provider acted, per run and key
  paid,     \* what those effects cost, per run
  due,      \* per run, the effect performed and not yet settled
  booked,   \* cost on the books, per run
  settled,  \* run and key pairs that will never be acted on again
  allowed,  \* pairs a human currently allows above the threshold
  halted    \* runs that are over

vars == <<acted, paid, due, booked, settled, allowed, halted>>

Ids == Runs \X Keys

Init ==
  /\ acted = [id \in Ids |-> 0]
  /\ paid = [r \in Runs |-> 0]
  /\ due = [r \in Runs |-> None]
  /\ booked = [r \in Runs |-> 0]
  /\ settled = {}
  /\ allowed = {}
  /\ halted = [r \in Runs |-> FALSE]

\* An effect is permitted: the run goes on and owes nothing, the key is open,
\* the cap has room, and a human allows what is above the threshold.
MayAct(r, k, cost) ==
  /\ ~halted[r]
  /\ due[r] = None
  /\ <<r, k>> \notin settled
  /\ booked[r] + cost <= SpendCap
  /\ cost > ApprovalThreshold => <<r, k>> \in allowed

Pay(r, k, cost) ==
  /\ acted' = [acted EXCEPT ![<<r, k>>] = @ + 1]
  /\ paid' = [paid EXCEPT ![r] = @ + cost]

Act(r, k, cost) ==
  /\ MayAct(r, k, cost)
  /\ Pay(r, k, cost)
  /\ due' = [due EXCEPT ![r] = [key |-> k, cost |-> cost, booked |-> FALSE]]
  /\ UNCHANGED <<booked, settled, allowed, halted>>

\* The provider acted but the answer was lost: nothing will be booked.
ActUnseen(r, k, cost) ==
  /\ MayAct(r, k, cost)
  /\ Pay(r, k, cost)
  /\ UNCHANGED <<due, booked, settled, allowed, halted>>

Book(r) ==
  /\ due[r] # None
  /\ ~due[r].booked
  /\ booked' = [booked EXCEPT ![r] = @ + due[r].cost]
  /\ due' = [due EXCEPT ![r].booked = TRUE]
  /\ UNCHANGED <<acted, paid, settled, allowed, halted>>

Settle(r) ==
  /\ due[r] # None
  /\ due[r].booked
  /\ settled' = settled \cup {<<r, due[r].key>>}
  /\ due' = [due EXCEPT ![r] = None]
  /\ UNCHANGED <<acted, paid, booked, allowed, halted>>

\* A crash: every outstanding effect is forgotten.
Forget ==
  /\ due' = [r \in Runs |-> None]
  /\ UNCHANGED <<acted, paid, booked, settled, allowed, halted>>

Decide(id) ==
  /\ allowed' = allowed \cup {id} \/ allowed' = allowed \ {id}
  /\ UNCHANGED <<acted, paid, due, booked, settled, halted>>

Halt(r) ==
  /\ halted' = [halted EXCEPT ![r] = TRUE]
  /\ UNCHANGED <<acted, paid, due, booked, settled, allowed>>

Next ==
  \/ \E r \in Runs :
       \/ Book(r) \/ Settle(r) \/ Halt(r)
       \/ \E k \in Keys, cost \in Costs : Act(r, k, cost) \/ ActUnseen(r, k, cost)
  \/ \E id \in Ids : Decide(id)
  \/ Forget

Spec == Init /\ [][Next]_vars

=============================================================================
