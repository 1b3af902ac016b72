------------------------------ MODULE Limiter ------------------------------
(***************************************************************************)
(* The guard around every request to an external provider: a semaphore,    *)
(* then a bucket of requests per minute, then a bucket of tokens per       *)
(* minute.  One process holds the guard; its buckets start full, so a      *)
(* restart refills them.  Source: backend/app/ratelimit/buckets.py.        *)
(*                                                                         *)
(* Time advances in ticks.  What a task does between entering and leaving  *)
(* the guard is left to JudgePass.                                         *)
(***************************************************************************)
EXTENDS Integers, Sequences

CONSTANTS
  Task,     \* coroutines that pass the guard
  Slots,    \* max_concurrency
  RpmCap,   \* capacity of the bucket of requests
  RpmRate,  \* requests it regains in a tick
  TpmCap,   \* capacity of the bucket of tokens
  TpmRate,  \* tokens it regains in a tick
  Est       \* est_tokens of a pass, 0: the second bucket is not asked

ASSUME LimiterAssumption ==
  /\ Slots \in Nat \ {0}
  /\ RpmCap \in Nat \ {0} /\ RpmRate \in Nat \ {0}
  /\ TpmCap \in Nat \ {0} /\ TpmRate \in Nat \ {0}
  /\ Est \in Nat

VARIABLES
  pc,      \* where each task is
  line,    \* tasks queued at the semaphore, first come first served
  free,    \* slots of the semaphore
  tokens,  \* tokens of each bucket when it was last refilled
  idle,    \* ticks since then
  doze     \* ticks each task still sleeps

guardVars  == <<pc, line, free>>
bucketVars == <<tokens, idle, doze>>
limiterVars == <<guardVars, bucketVars>>

Bucket == {"rpm", "tpm"}
Cap  == [b \in Bucket |-> IF b = "rpm" THEN RpmCap ELSE TpmCap]
Rate == [b \in Bucket |-> IF b = "rpm" THEN RpmRate ELSE TpmRate]

Least(m, n) == IF m <= n THEN m ELSE n

Stage == {"away", "line", "rpm", "tpm", "inside"}
Holding == {"rpm", "tpm", "inside"}

LimiterTypeOK ==
  /\ pc \in [Task -> Stage]
  /\ line \in Seq(Task)
  /\ free \in Nat
  /\ tokens \in [Bucket -> Int] /\ \A b \in Bucket : tokens[b] \in 0 .. Cap[b]
  /\ idle \in [Bucket -> Nat]
  /\ doze \in [Task -> Nat]

LimiterInit ==
  /\ pc = [t \in Task |-> "away"]
  /\ line = <<>>
  /\ free = Slots
  /\ tokens = Cap
  /\ idle = [b \in Bucket |-> 0]
  /\ doze = [t \in Task |-> 0]

-----------------------------------------------------------------------------
(***************************************************************************)
(* One bucket.                                                             *)
(***************************************************************************)

\* What the bucket holds now.
Refilled(b) == Least(Cap[b], tokens[b] + idle[b] * Rate[b])

\* What a pass uses of each bucket, and what it takes: clamped to what the bucket can ever hold.
Asked(b) == IF b = "rpm" THEN 1 ELSE Est
\* Fault: an oversized request is not clamped.
AsksAll(b) == Asked(b)
Amount(b) == Least(Asked(b), Cap[b])

\* Refills the bucket to this moment and takes n tokens out of it.
\* Fault: the moment of the refill is not remembered, so the same ticks are credited again.
RefillsAgain(b, n) ==
  /\ tokens' = [tokens EXCEPT ![b] = Refilled(b) - n]
  /\ UNCHANGED idle
Refill(b, n) ==
  /\ tokens' = [tokens EXCEPT ![b] = Refilled(b) - n]
  /\ idle' = [idle EXCEPT ![b] = 0]

\* Ticks until the missing tokens are there: deficit / rate, in whole ticks.
Wait(b) == (Amount(b) - Refilled(b) + Rate[b] - 1) \div Rate[b]

\* The bucket a task asks after b, or the body of the guard.
After(b) == IF b = "rpm" /\ Est > 0 THEN "tpm" ELSE "inside"

GoesTo(t, to) == pc' = [pc EXCEPT ![t] = to]

\* One pass of the loop that finds enough tokens.
Take(t, b) ==
  /\ pc[t] = b /\ doze[t] = 0
  /\ Refilled(b) >= Amount(b)
  /\ Refill(b, Amount(b))
  /\ GoesTo(t, After(b))
  /\ UNCHANGED <<line, free, doze>>

\* One pass that does not: the task sleeps, without the bucket's lock, and asks again.
Doze(t, b) ==
  /\ pc[t] = b /\ doze[t] = 0
  /\ Refilled(b) < Amount(b)
  /\ Refill(b, 0)
  /\ doze' = [doze EXCEPT ![t] = Wait(b)]
  /\ UNCHANGED guardVars

-----------------------------------------------------------------------------
(***************************************************************************)
(* The semaphore around the buckets.                                       *)
(***************************************************************************)

Arrive(t) ==
  /\ pc[t] = "away"
  /\ GoesTo(t, "line")
  /\ line' = Append(line, t)
  /\ UNCHANGED <<free, bucketVars>>

Admit(t) ==
  /\ line # <<>> /\ t = Head(line)
  /\ free > 0
  /\ GoesTo(t, "rpm")
  /\ line' = Tail(line)
  /\ free' = free - 1
  /\ UNCHANGED bucketVars

\* The body has ended, by returning or by raising: the slot comes back, the tokens do not.
\* Fault: the slot is not given back.
KeepsSlot(t) ==
  /\ pc[t] = "inside"
  /\ GoesTo(t, "away")
  /\ UNCHANGED <<line, free, bucketVars>>
Leave(t) ==
  /\ pc[t] = "inside"
  /\ GoesTo(t, "away")
  /\ free' = free + 1
  /\ UNCHANGED <<line, bucketVars>>

\* Once a bucket is full, further ticks add nothing and are not counted.
Passes(b) == IF Refilled(b) = Cap[b] THEN idle[b] ELSE idle[b] + 1

Tick ==
  /\ idle' = [b \in Bucket |-> Passes(b)]
  /\ doze' = [t \in Task |-> IF doze[t] > 0 THEN doze[t] - 1 ELSE 0]
  /\ UNCHANGED <<guardVars, tokens>>

\* The process dies and a new one builds its limiters.
Restart ==
  /\ pc' = [t \in Task |-> "away"]
  /\ line' = <<>>
  /\ free' = Slots
  /\ tokens' = Cap
  /\ idle' = [b \in Bucket |-> 0]
  /\ doze' = [t \in Task |-> 0]

LimiterNext ==
  \/ \E t \in Task : Arrive(t) \/ Admit(t) \/ Leave(t)
  \/ \E t \in Task, b \in Bucket : Take(t, b) \/ Doze(t, b)
  \/ Tick \/ Restart

LimiterSpec == LimiterInit /\ [][LimiterNext]_limiterVars

=============================================================================
