-------------------------- MODULE RateLimiterProofs --------------------------
(***************************************************************************)
(* The limit of the playground holds for every number of threads, every    *)
(* limit and window, and however long a thread is held up between reading  *)
(* the clock and taking the lock.                                          *)
(***************************************************************************)
EXTENDS RateLimiter, FiniteSetTheorems, SequenceTheorems, TLAPS

\* What is out of the window stays out of it.
LEMMA ExpiredForGood ==
  ASSUME NEW s \in Int, NEW t \in Int, NEW x \in Int, s <= t, Expired(s, x)
  PROVE  Expired(t, x)
BY LimiterAssumption DEF Expired

LEMMA InitInv == LimiterInit => LimiterInv
BY LimiterAssumption
   DEF LimiterInit, LimiterInv, LimiterTypeOK, QueueIsWhatCounts

\* The locked part of allow: n stamps are popped, and one may be appended.
LEMMA AllowInv ==
  ASSUME LimiterInv, NEW r \in Requests, NEW answer \in BOOLEAN, Allow(r, answer)
  PROVE  LimiterInv'
<1>1. /\ clock \in Nat /\ clock' = clock /\ expired \in Nat
      /\ stamp[r] \in Nat /\ stamp[r] <= clock
      /\ hits \in Seq(Nat) /\ admitted \in Seq(Nat)
  BY DEF Allow, LimiterInv, LimiterTypeOK, QueueIsWhatCounts
<1>2. /\ stamp' \in [Requests -> Nat \cup {None}]
      /\ \A q \in Requests : stamp'[q] # None => stamp'[q] <= clock
  BY DEF Allow, LimiterInv, LimiterTypeOK, QueueIsWhatCounts
<1>3. /\ Len(hits) \in Nat /\ Len(admitted) \in Nat /\ Len(hits) <= MaxRuns
      /\ Len(admitted) = expired + Len(hits)
      /\ \A i \in 1..Len(hits) : hits[i] = admitted[expired + i]
      /\ \A i \in 1..expired : Expired(clock, admitted[i])
  <2>1. Len(hits) \in Nat /\ Len(admitted) \in Nat /\ DOMAIN hits = 1..Len(hits)
    BY <1>1
  <2> QED
    BY <2>1 DEF LimiterInv, QueueIsWhatCounts
<1> DEFINE kept(n) == SubSeq(hits, n + 1, Len(hits))
<1>4. PICK n \in 0..Len(hits) :
        /\ Pops(stamp[r], n)
        /\ expired' = expired + n
        /\ \/ hits' = kept(n) /\ admitted' = admitted
           \/ /\ ~Full(kept(n))
              /\ hits' = Append(kept(n), stamp[r])
              /\ admitted' = Append(admitted, stamp[r])
  BY DEF Allow
<1>5. /\ n \in Nat /\ n <= Len(hits)
      /\ \A i \in 1..n : Expired(stamp[r], hits[i])
  BY <1>3, <1>4 DEF Pops
<1>6. /\ kept(n) \in Seq(Nat)
      /\ Len(kept(n)) = Len(hits) - n
      /\ \A i \in 1..Len(hits) - n : kept(n)[i] = hits[n + i]
  <2>1. ASSUME NEW i \in (n + 1)..Len(hits) PROVE hits[i] \in Nat
    <3>1. i \in 1..Len(hits) /\ hits \in Seq(Nat)
      BY <1>1, <1>3, <1>5
    <3> QED
      BY ONLY <3>1, ElementOfSeq
  <2>2. /\ kept(n) \in Seq(Nat)
        /\ Len(kept(n)) = IF n + 1 <= Len(hits) THEN Len(hits) - (n + 1) + 1 ELSE 0
        /\ \A i \in 1..Len(hits) - (n + 1) + 1 : kept(n)[i] = hits[(n + 1) + i - 1]
    <3> HIDE DEF kept
    <3>1. n + 1 \in Int /\ Len(hits) \in Int
      BY <1>3, <1>5
    <3> QED
      BY <2>1, <3>1, SubSeqProperties DEF kept
  <2> HIDE DEF kept
  <2>3. Len(kept(n)) = Len(hits) - n
    BY <2>2, <1>3, <1>5
  <2>4. ASSUME NEW i \in 1..Len(hits) - n PROVE kept(n)[i] = hits[n + i]
    <3>1. (n + 1) + i - 1 = n + i /\ i \in 1..Len(hits) - (n + 1) + 1
      BY <1>3, <1>5
    <3> QED
      BY <2>2, <3>1
  <2> QED
    BY <2>2, <2>3, <2>4
<1> HIDE DEF kept
<1>7. ASSUME NEW i \in 1..Len(kept(n)) PROVE kept(n)[i] = admitted[expired + n + i]
  <2>1. /\ n + i \in 1..Len(hits) /\ expired + (n + i) = expired + n + i
        /\ i \in 1..Len(hits) - n
    BY <1>1, <1>3, <1>5, <1>6
  <2> QED
    BY <1>3, <1>6, <2>1
<1>8. ASSUME NEW i \in 1..(expired + n) PROVE Expired(clock, admitted[i])
  <2>1. CASE i <= expired
    BY <1>1, <1>3, <2>1
  <2>2. CASE i > expired
    <3>1. /\ i - expired \in 1..n /\ i - expired \in 1..Len(hits)
          /\ expired + (i - expired) = i /\ i \in 1..Len(admitted)
      BY <1>1, <1>3, <1>5, <2>2
    <3>2. Expired(stamp[r], hits[i - expired]) /\ hits[i - expired] = admitted[i]
      BY <1>3, <1>5, <3>1
    <3>3. admitted[i] \in Int /\ stamp[r] \in Int /\ clock \in Int
      BY <1>1, <3>1
    <3> QED
      BY <1>1, <3>2, <3>3, ExpiredForGood
  <2> QED
    BY <1>1, <1>5, <2>1, <2>2
<1>9. CASE hits' = kept(n) /\ admitted' = admitted
  <2>1. /\ Len(admitted') = expired' + Len(hits') /\ Len(hits') <= MaxRuns
        /\ \A i \in 1..Len(hits') : hits'[i] = admitted'[expired' + i]
    BY <1>1, <1>3, <1>4, <1>5, <1>6, <1>7, <1>9, LimiterAssumption
  <2>2. \A i \in 1..expired' : Expired(clock', admitted'[i])
    BY <1>1, <1>4, <1>8, <1>9
  <2>3. expired' \in Nat /\ hits' \in Seq(Nat) /\ admitted' \in Seq(Nat)
    BY <1>1, <1>4, <1>5, <1>6, <1>9
  <2>4. DOMAIN hits' = 1..Len(hits')
    BY <2>3
  <2>5. LimiterTypeOK'
    BY <1>1, <1>2, <2>3 DEF LimiterTypeOK
  <2>6. QueueIsWhatCounts'
    BY <1>1, <1>2, <2>1, <2>2, <2>4 DEF QueueIsWhatCounts
  <2> QED
    BY <2>5, <2>6 DEF LimiterInv
<1>10. CASE /\ ~Full(kept(n))
            /\ hits' = Append(kept(n), stamp[r])
            /\ admitted' = Append(admitted, stamp[r])
  <2>1. Len(kept(n)) + 1 <= MaxRuns
    BY <1>3, <1>5, <1>6, <1>10, LimiterAssumption DEF Full
  <2>2. /\ admitted' \in Seq(Nat) /\ Len(admitted') = Len(admitted) + 1
        /\ \A i \in 1..Len(admitted) : admitted'[i] = admitted[i]
        /\ admitted'[Len(admitted) + 1] = stamp[r]
    BY <1>1, <1>10, AppendProperties
  <2>3. /\ hits' \in Seq(Nat) /\ Len(hits') = Len(kept(n)) + 1
        /\ \A i \in 1..Len(kept(n)) : hits'[i] = kept(n)[i]
        /\ hits'[Len(kept(n)) + 1] = stamp[r]
    BY <1>1, <1>6, <1>10, AppendProperties
  <2>4. Len(admitted') = expired' + Len(hits')
    BY <1>1, <1>3, <1>4, <1>5, <1>6, <2>2, <2>3
  <2>5. ASSUME NEW i \in 1..Len(hits') PROVE hits'[i] = admitted'[expired' + i]
    <3>1. CASE i \in 1..Len(kept(n))
      <4>1. expired' + i = expired + n + i /\ expired + n + i \in 1..Len(admitted)
        <5>1. /\ i \in Nat /\ 1 <= i /\ i <= Len(hits) - n
              /\ expired' = expired + n /\ expired \in Nat /\ n \in Nat
          BY <1>1, <1>3, <1>4, <1>5, <1>6, <3>1
        <5> QED
          BY <5>1, <1>3
      <4> QED
        BY <1>7, <2>2, <2>3, <3>1, <4>1
    <3>2. CASE i = Len(kept(n)) + 1
      <4>1. expired' + i = Len(admitted) + 1
        BY <1>1, <1>3, <1>4, <1>5, <1>6, <3>2
      <4> QED
        BY <2>2, <2>3, <3>2, <4>1
    <3> QED
      BY <3>1, <3>2, <1>3, <1>5, <1>6, <2>3
  <2>6. \A i \in 1..expired' : Expired(clock', admitted'[i])
    <3> SUFFICES ASSUME NEW i \in 1..expired' PROVE Expired(clock', admitted'[i])
      OBVIOUS
    <3>1. i \in 1..(expired + n) /\ i \in 1..Len(admitted)
      BY <1>1, <1>3, <1>4, <1>5
    <3> QED
      BY <1>1, <1>8, <2>2, <3>1
  <2>7. expired' \in Nat
    BY <1>1, <1>4, <1>5
  <2>8. DOMAIN hits' = 1..Len(hits') /\ Len(hits') <= MaxRuns
    BY <2>1, <2>3
  <2>9. LimiterTypeOK'
    BY <1>1, <1>2, <2>2, <2>3, <2>7 DEF LimiterTypeOK
  <2>10. QueueIsWhatCounts'
    BY <1>1, <1>2, <2>4, <2>5, <2>6, <2>8 DEF QueueIsWhatCounts
  <2> QED
    BY <2>9, <2>10 DEF LimiterInv
<1> QED
  BY <1>4, <1>9, <1>10

LEMMA StepInv == LimiterInv /\ [LimiterNext]_limiter => LimiterInv'
<1> SUFFICES ASSUME LimiterInv, [LimiterNext]_limiter PROVE LimiterInv'
  OBVIOUS
<1>1. CASE Tick
  <2>1. /\ clock \in Nat /\ clock' = clock + 1 /\ admitted \in Seq(Nat)
        /\ expired \in Nat /\ Len(admitted) = expired + Len(hits) /\ hits \in Seq(Nat)
        /\ UNCHANGED <<hits, stamp, admitted, expired>>
    BY <1>1 DEF Tick, LimiterInv, LimiterTypeOK, QueueIsWhatCounts
  <2>2. ASSUME NEW i \in 1..expired PROVE Expired(clock', admitted[i])
    <3>1. admitted[i] \in Int /\ clock \in Int /\ clock' \in Int /\ clock <= clock'
      BY <2>1
    <3>2. Expired(clock, admitted[i])
      BY DEF LimiterInv, QueueIsWhatCounts
    <3> QED
      BY <3>1, <3>2, ExpiredForGood
  <2>3. \A r \in Requests : stamp[r] # None => stamp[r] <= clock'
    BY <2>1 DEF LimiterInv, LimiterTypeOK, QueueIsWhatCounts
  <2> QED
    BY <2>1, <2>2, <2>3 DEF LimiterInv, LimiterTypeOK, QueueIsWhatCounts
<1>2. CASE LimiterRestart
  <2>1. /\ clock' = clock /\ hits' = <<>> /\ admitted' = <<>> /\ expired' = 0
        /\ stamp' \in [Requests -> Nat \cup {None}]
        /\ \A r \in Requests : stamp'[r] = None
    BY <1>2 DEF LimiterRestart
  <2>2. Len(<<>>) = 0
    OBVIOUS
  <2> QED
    BY <2>1, <2>2, LimiterAssumption DEF LimiterInv, LimiterTypeOK, QueueIsWhatCounts
<1>3. ASSUME NEW r \in Requests, ReadClock(r) PROVE LimiterInv'
  BY <1>3 DEF ReadClock, LimiterInv, LimiterTypeOK, QueueIsWhatCounts
<1>4. CASE UNCHANGED limiter
  BY <1>4 DEF limiter, LimiterInv, LimiterTypeOK, QueueIsWhatCounts
<1> QED
  BY <1>1, <1>2, <1>3, <1>4, AllowInv DEF LimiterNext

\* The queue is what counts, whatever order threads take the lock in.
THEOREM QueueCounts == LimiterSpec => []LimiterInv
BY InitInv, StepInv, PTL DEF LimiterSpec

\* Of the runs a process admitted, no more than the limit have a stamp in the
\* window that ends now (README.md:90, playground.py:80-88).
LEMMA InvImpliesLimit == LimiterInv => WithinLimit
<1> SUFFICES ASSUME LimiterInv PROVE WithinLimit
  OBVIOUS
<1> DEFINE Recent == {i \in DOMAIN admitted : ~Expired(clock, admitted[i])}
           Queue  == (expired + 1)..Len(admitted)
<1>1. /\ expired \in Nat /\ Len(hits) \in Nat /\ Len(hits) <= MaxRuns
      /\ Len(admitted) = expired + Len(hits) /\ DOMAIN admitted = 1..Len(admitted)
      /\ \A i \in 1..expired : Expired(clock, admitted[i])
  BY DEF LimiterInv, LimiterTypeOK, QueueIsWhatCounts
<1>2. Recent \subseteq Queue
  BY <1>1
<1>3. IsFiniteSet(Queue) /\ Cardinality(Queue) = Len(hits)
  <2>1. /\ expired + 1 \in Int /\ Len(admitted) \in Int
        /\ (IF expired + 1 > Len(admitted) THEN 0 ELSE Len(admitted) - (expired + 1) + 1)
             = Len(hits)
    BY <1>1
  <2> QED
    BY <2>1, FS_Interval
<1>4. Cardinality(Recent) <= Cardinality(Queue) /\ IsFiniteSet(Recent)
  BY <1>2, <1>3, FS_Subset
<1>5. Cardinality(Recent) \in Nat
  BY <1>4, FS_CardinalityType
<1>6. Cardinality(Recent) <= MaxRuns
  <2> HIDE DEF Recent, Queue
  <2> QED
    BY <1>1, <1>3, <1>4, <1>5, LimiterAssumption
<1> QED
  BY <1>6 DEF WithinLimit

THEOREM LimitHolds == LimiterSpec => []WithinLimit
BY QueueCounts, InvImpliesLimit, PTL

=============================================================================
