----------------------- MODULE ProvisioningWaitProofs -----------------------
(***************************************************************************)
(* The polling loops notice what they wait for in time, for every initial  *)
(* delay and every number of steps.  The argument: the delays grow by a    *)
(* fifth each, so that a delay exceeds the first one by at most a fifth of *)
(* the time slept before it; and a change of status is seen after at most  *)
(* one delay.                                                              *)
(***************************************************************************)
EXTENDS ProvisioningWait, TLAPS

\* The arithmetic of one sleep: the next delay keeps behind the clock.
LEMMA NextDelayFollows ==
  ASSUME NEW d \in Nat, NEW c \in Nat, NEW i \in Nat, 5 * d <= c + 5 * i
  PROVE  /\ NextDelay(d) \in Nat
         /\ 5 * NextDelay(d) <= (c + d) + 5 * i
<1> DEFINE q == (6 * d) \div 5
<1>1. q \in Nat /\ 5 * q <= 6 * d
  <2>1. 6 * d \in Nat
    OBVIOUS
  <2> HIDE DEF q
  <2>2. \A x \in Nat : (x \div 5) \in Nat /\ 5 * (x \div 5) <= x
    OBVIOUS
  <2> QED
    BY <2>1, <2>2 DEF q
<1> HIDE DEF q
<1>2. 5 * q <= (c + d) + 5 * i
  BY <1>1
<1> QED
  BY <1>1, <1>2 DEF q, NextDelay

\* The loop's invariant: types, delays that follow the clock, and a settled status
\* that has been waiting for one delay at most.
THEOREM BackoffHolds == Spec => []Backoff
<1> USE LoopsAssumption DEF LoopRecords
<1>1. Init => Backoff
  BY DEF Init, Backoff, TypeOK, Outcomes, DelayFollowsClock, LagIsOneDelay
<1>2. Backoff /\ [Next]_vars => Backoff'
  <2> SUFFICES ASSUME Backoff, [Next]_vars
               PROVE  Backoff'
    OBVIOUS
  <2> USE DEF Backoff, TypeOK, Outcomes, DelayFollowsClock, LagIsOneDelay
  <2>1. CASE ReadEnds
    BY <2>1 DEF ReadEnds, Done, Broken
  <2>2. CASE ReadAgain
    <3>1. steps' \in 1..loop.steps /\ pc' \in {"timeout", "asleep"}
      BY <2>2 DEF ReadAgain
    <3>2. status = "PENDING"
      BY <2>2 DEF ReadAgain, Done, Broken
    <3>3. UNCHANGED <<loop, delay, clock, status, settled>>
      BY <2>2 DEF ReadAgain
    <3>4. TypeOK' /\ DelayFollowsClock'
      BY <3>1, <3>3
    <3>5. LagIsOneDelay'
      BY <3>1, <3>2, <3>3
    <3> QED
      BY <3>4, <3>5
  <2>3. CASE Wake
    <3>1. NextDelay(delay) \in Nat /\ 5 * NextDelay(delay) <= (clock + delay) + 5 * loop.delay
      BY NextDelayFollows
    <3>2. clock' \in Nat /\ delay' \in Nat
      BY <2>3, <3>1 DEF Wake
    <3>3. DelayFollowsClock'
      BY <2>3, <3>1 DEF Wake
    <3>4. LagIsOneDelay'
      BY <2>3 DEF Wake
    <3> QED
      BY <2>3, <3>2, <3>3, <3>4 DEF Wake
  <2>4. CASE Settle
    BY <2>4 DEF Settle
  <2>5. CASE UNCHANGED vars
    BY <2>5 DEF vars
  <2> QED
    BY <2>1, <2>2, <2>3, <2>4, <2>5 DEF Next
<1> QED
  BY <1>1, <1>2, PTL DEF Spec

\* Whatever the initial delay and the number of steps, a load balancer that is
\* ready is noticed within a fifth of the time it took and the first delay.
THEOREM NoticedPromptlyEver == Spec => []NoticedPromptly
<1>1. Backoff => NoticedPromptly
  BY DEF Backoff, LagIsOneDelay, NoticedPromptly
<1> QED
  BY BackoffHolds, <1>1, PTL
=============================================================================
