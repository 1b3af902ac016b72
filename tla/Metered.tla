------------------------------ MODULE Metered ------------------------------
(***************************************************************************)
(* The guard before a provider that meters what reaches it.  The provider  *)
(* has buckets of the sizes the guard was given, refilled tick by tick,    *)
(* and counts of each pass what the pass uses: one request and Est tokens. *)
(* A restart of the worker refills the guard's buckets, not the provider's.*)
(* Source: backend/app/ratelimit/buckets.py.                               *)
(***************************************************************************)
EXTENDS Limiter

CONSTANT MaxStarts  \* bound: restarts of the process

ASSUME MeterAssumption == MaxStarts \in Nat

VARIABLES
  quota,   \* what the provider would still allow; below zero: what it would have refused
  starts   \* restarts of the process

meterVars == <<limiterVars, quota, starts>>

MeterTypeOK ==
  /\ LimiterTypeOK
  /\ quota \in [Bucket -> Int]
  /\ starts \in 0 .. MaxStarts

MeterInit ==
  /\ LimiterInit
  /\ quota = Cap
  /\ starts = 0

\* A task is let through, and the provider sees what it uses.
Use(t, b) ==
  /\ Take(t, b)
  /\ quota' = [quota EXCEPT ![b] = @ - Asked(b)]
  /\ UNCHANGED starts

Replenish ==
  /\ Tick
  /\ quota' = [b \in Bucket |-> Least(Cap[b], quota[b] + Rate[b])]
  /\ UNCHANGED starts

StartAnew ==
  /\ starts < MaxStarts
  /\ Restart
  /\ starts' = starts + 1
  /\ UNCHANGED quota

\* Steps the provider does not see.
Unseen ==
  /\ \E t \in Task : Arrive(t) \/ Admit(t) \/ Leave(t) \/ \E b \in Bucket : Doze(t, b)
  /\ UNCHANGED <<quota, starts>>

MeterNext ==
  \/ \E t \in Task, b \in Bucket : Use(t, b)
  \/ Replenish \/ StartAnew \/ Unseen

MeterSpec == MeterInit /\ [][MeterNext]_meterVars

-----------------------------------------------------------------------------
(***************************************************************************)
(* Properties.                                                             *)
(***************************************************************************)

\* The provider never refuses what the guard lets through, whatever the interleaving of refills,
\* takers and late sleepers: a process mints no tokens.  Only a restart, which begins with full
\* buckets, costs one more of each.  A pass that uses more than the bucket of tokens ever holds
\* breaks this: it pays for a bucket only.
WithinQuota == \A b \in Bucket : quota[b] >= -(starts * Cap[b])

\* The same, counting what the bucket still holds: the form that is inductive.
Budget == \A b \in Bucket : quota[b] >= Refilled(b) - starts * Cap[b]

=============================================================================
