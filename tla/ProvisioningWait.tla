-------------------------- MODULE ProvisioningWait --------------------------
(***************************************************************************)
(* The two polling loops of kinx_loadbalancer.go,                          *)
(* waitLoadbalancerActiveProvisioningStatus and waitLoadbalancerDeleted,   *)
(* as they run on wait.ExponentialBackoff: the status is read, and while   *)
(* steps are left the loop sleeps, each time 1.2 times as long.  Times are *)
(* whole milliseconds.                                                     *)
(***************************************************************************)
EXTENDS Integers

CONSTANT Loops   \* the loops: their constants, and what they wait for

LoopRecords ==
  [delay : Nat \ {0},      \* loadbalancer*InitDelay, in milliseconds
   steps : Nat \ {0},      \* loadbalancer*Steps
   deleting : BOOLEAN]     \* is it waitLoadbalancerDeleted

ASSUME LoopsAssumption == Loops \subseteq LoopRecords

VARIABLES
  loop,      \* the loop that runs
  pc,        \* "read", "asleep", or what the loop returned
  delay,     \* backoff.Duration
  steps,     \* backoff.Steps
  clock,     \* time since the loop started, up to the last read while asleep
  status,    \* "PENDING", or what the API has made of the load balancer
  settled    \* the time at which it did

vars == <<loop, pc, delay, steps, clock, status, settled>>

\* What becomes of the load balancer the loop waits for.
Outcomes == IF loop.deleting THEN {"GONE"} ELSE {"ACTIVE", "ERROR"}

TypeOK ==
  /\ loop \in Loops
  /\ pc \in {"read", "asleep", "ready", "failed", "timeout"}
  /\ delay \in Nat
  /\ steps \in 1..loop.steps
  /\ clock \in Nat
  /\ status \in {"PENDING"} \cup Outcomes
  /\ settled \in Nat

Init ==
  /\ loop \in Loops
  /\ pc = "read"
  /\ delay = loop.delay
  /\ steps = loop.steps
  /\ clock = 0
  /\ status = "PENDING"
  /\ settled = 0

\* The condition: done, an error, or neither.
Done == status = IF loop.deleting THEN "GONE" ELSE "ACTIVE"

Broken == ~loop.deleting /\ status = "ERROR"

\* The condition holds, fails, or cannot tell because the GET fails.
ReadEnds ==
  /\ pc = "read"
  /\ \/ Done /\ pc' = "ready"
     \/ Broken /\ pc' = "failed"
     \/ pc' = "failed"
  /\ UNCHANGED <<loop, delay, steps, clock, status, settled>>

\* Neither: sleep, unless this was the last step.
ReadAgain ==
  /\ pc = "read"
  /\ ~Done /\ ~Broken
  /\ IF steps = 1
     THEN pc' = "timeout" /\ UNCHANGED steps
     ELSE pc' = "asleep" /\ steps' = steps - 1
  /\ UNCHANGED <<loop, delay, clock, status, settled>>

\* Mutant: the factor is 2.
MutNextDelay(d) == 2 * d

\* time.Duration(float64(b.Duration) * b.Factor)
NextDelay(d) == (6 * d) \div 5

Wake ==
  /\ pc = "asleep"
  /\ pc' = "read"
  /\ clock' = clock + delay
  /\ delay' = NextDelay(delay)
  /\ UNCHANGED <<loop, steps, status, settled>>

\* The provisioning ends, at the start of a sleep (where it goes unnoticed for
\* the longest time) or right before a read.
Settle ==
  /\ pc \in {"read", "asleep"}
  /\ status = "PENDING"
  /\ status' \in Outcomes
  /\ settled' = clock
  /\ UNCHANGED <<loop, pc, delay, steps, clock>>

Next == ReadEnds \/ ReadAgain \/ Wake \/ Settle

Spec == Init /\ [][Next]_vars

-----------------------------------------------------------------------------
\* The backoff does not outrun what it waits for: a load balancer that is ready
\* is noticed within a fifth of the time it took, and the first delay.
NoticedPromptly ==
  pc = "ready" => 5 * (clock - settled) <= settled + 5 * loop.delay

-----------------------------------------------------------------------------
(* The inductive invariant behind it: a delay is at most the first one and  *)
(* a fifth of the time slept so far.                                       *)

DelayFollowsClock == 5 * delay <= clock + 5 * loop.delay

LagIsOneDelay ==
  /\ settled <= clock
  /\ status # "PENDING" /\ pc = "asleep" => settled = clock
  /\ status # "PENDING" /\ pc \in {"read", "ready"} =>
       5 * (clock - settled) <= settled + 5 * loop.delay
  /\ pc = "ready" => status # "PENDING"

Backoff == TypeOK /\ DelayFollowsClock /\ LagIsOneDelay
=============================================================================
