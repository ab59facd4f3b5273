----------------------------- MODULE RateLimiter -----------------------------
(***************************************************************************)
(* The sliding-window limit of the playground (recovery/playground.py,     *)
(* RateLimiter).  A request reads the clock before it takes the limiter's  *)
(* lock, so the stamps in the queue need not be in the order of the clock. *)
(* Time is counted in units; Window is the length of the window in them.   *)
(***************************************************************************)
EXTENDS Integers, Sequences, FiniteSets

CONSTANTS
  Requests,  \* threads that ask for a run
  MaxRuns,   \* _max
  Window,    \* _window
  MaxTime,   \* bound: the clock stops here
  None       \* no stamp

ASSUME LimiterAssumption ==
  /\ MaxRuns \in Nat /\ Window \in Nat /\ MaxTime \in Nat
  /\ None \notin Nat

VARIABLES
  clock,     \* time.monotonic
  hits,      \* _hits: stamps of admitted runs, oldest admission first
  stamp,     \* per request, the `now` it read before the lock
  \* history, read by no guard
  admitted,  \* stamps of all runs admitted since the process started
  expired    \* how many of them were popped from the queue

limiter == <<clock, hits, stamp, admitted, expired>>

-----------------------------------------------------------------------------
\* now - hit > window.
Expired(now, hit) == now - hit > Window

\* The while loop pops n stamps: all of them expired, and the next is not.
\* A stale `now` may find the head of the queue ahead of it and pops nothing.
Pops(now, n) ==
  /\ \A i \in 1..n : Expired(now, hits[i])
  /\ n < Len(hits) => ~Expired(now, hits[n + 1])

\* Faulty: one more than the limit fits.
FullPastLimit(queue) == Len(queue) > MaxRuns
Full(queue) == Len(queue) >= MaxRuns

\* Time passes.
Tick ==
  /\ clock < MaxTime
  /\ clock' = clock + 1
  /\ UNCHANGED <<hits, stamp, admitted, expired>>

\* allow reads the clock, and may then wait for the lock.
ReadClock(r) ==
  /\ stamp[r] = None
  /\ stamp' = [stamp EXCEPT ![r] = clock]
  /\ UNCHANGED <<clock, hits, admitted, expired>>

\* The locked part of allow, which answers `answer`.
Allow(r, answer) ==
  /\ stamp[r] # None
  /\ stamp' = [stamp EXCEPT ![r] = None]
  /\ \E n \in 0..Len(hits) :
       /\ Pops(stamp[r], n)
       /\ expired' = expired + n
       /\ LET kept == SubSeq(hits, n + 1, Len(hits)) IN
            \/ /\ answer = FALSE /\ Full(kept)
               /\ hits' = kept
               /\ UNCHANGED admitted
            \/ /\ answer = TRUE /\ ~Full(kept)
               /\ hits' = Append(kept, stamp[r])
               /\ admitted' = Append(admitted, stamp[r])
  /\ UNCHANGED clock

\* The queue is the process's: a restart forgets it.
LimiterRestart ==
  /\ hits' = <<>> /\ admitted' = <<>> /\ expired' = 0
  /\ stamp' = [r \in Requests |-> None]
  /\ UNCHANGED clock

LimiterInit ==
  /\ clock = 0 /\ hits = <<>> /\ stamp = [r \in Requests |-> None]
  /\ admitted = <<>> /\ expired = 0

LimiterNext ==
  \/ Tick \/ LimiterRestart
  \/ \E r \in Requests : ReadClock(r) \/ \E answer \in BOOLEAN : Allow(r, answer)

LimiterSpec == LimiterInit /\ [][LimiterNext]_limiter

-----------------------------------------------------------------------------
(* Properties *)

LimiterTypeOK ==
  /\ clock \in Nat
  /\ hits \in Seq(Nat) /\ admitted \in Seq(Nat) /\ expired \in Nat
  /\ stamp \in [Requests -> Nat \cup {None}]

\* README.md:90, "20 runs/min per process": of the runs a process admitted, no
\* more than MaxRuns carry a stamp of the window that ends now, whichever
\* threads were held up between the clock and the lock (playground.py:80-85).
WithinLimit ==
  Cardinality({i \in DOMAIN admitted : ~Expired(clock, admitted[i])}) <= MaxRuns

\* Why it holds: the queue is what was admitted and not popped, it is never
\* longer than the limit, and what was popped stays out of the window.
QueueIsWhatCounts ==
  /\ Len(admitted) = expired + Len(hits)
  /\ \A i \in DOMAIN hits : hits[i] = admitted[expired + i]
  /\ Len(hits) <= MaxRuns
  /\ \A i \in 1..expired : Expired(clock, admitted[i])
  /\ \A r \in Requests : stamp[r] # None => stamp[r] <= clock

LimiterInv == LimiterTypeOK /\ QueueIsWhatCounts

=============================================================================
