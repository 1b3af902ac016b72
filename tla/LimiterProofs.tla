--------------------------- MODULE LimiterProofs ---------------------------
(***************************************************************************)
(* Theorems about the guard and the passes under it, for every value of    *)
(* the constants.                                                          *)
(***************************************************************************)
EXTENDS JudgePass, Metered, FiniteSetTheorems, SequenceTheorems, TLAPS

LEMMA LeastType ==
  ASSUME NEW m \in Int, NEW n \in Int
  PROVE  Least(m, n) \in {m, n} /\ Least(m, n) <= m /\ Least(m, n) <= n
  BY DEF Least

LEMMA OneMore ==
  ASSUME NEW m \in Nat, NEW n \in Nat
  PROVE  (m + 1) * n = m * n + n
  OBVIOUS

LEMMA CapType ==
  ASSUME NEW b \in Bucket
  PROVE  Cap[b] \in Nat \ {0} /\ Rate[b] \in Nat \ {0}
  BY LimiterAssumption DEF Bucket, Cap, Rate

LEMMA RefilledType ==
  ASSUME LimiterTypeOK, NEW b \in Bucket
  PROVE  Refilled(b) \in 0 .. Cap[b]
<1>1. /\ Cap[b] \in Nat \ {0} /\ Rate[b] \in Nat \ {0}
      /\ tokens[b] \in 0 .. Cap[b] /\ idle[b] \in Nat
  BY CapType DEF LimiterTypeOK
<1>2. idle[b] * Rate[b] \in Nat
  BY <1>1
<1> QED BY <1>1, <1>2 DEF Refilled, Least

LEMMA AmountType ==
  ASSUME NEW b \in Bucket
  PROVE  Amount(b) \in 0 .. Cap[b]
  BY CapType, LimiterAssumption DEF Amount, Asked, Least, Bucket

LEMMA WaitType ==
  ASSUME LimiterTypeOK, NEW b \in Bucket, Refilled(b) < Amount(b)
  PROVE  Wait(b) \in Nat
<1>1. /\ Refilled(b) \in Int /\ Amount(b) \in Int /\ Rate[b] \in Nat \ {0}
  BY RefilledType, AmountType, CapType
<1> DEFINE d == Amount(b) - Refilled(b) + Rate[b] - 1
<1>2. d \in Nat
  BY <1>1
<1>3. d \div Rate[b] \in Nat
  <2> HIDE DEF d
  <2> QED BY <1>1, <1>2
<1> QED BY <1>3 DEF Wait

(***************************************************************************)
(* Types.                                                                  *)
(***************************************************************************)
LEMMA RefillType ==
  ASSUME LimiterTypeOK, NEW b \in Bucket, NEW n \in Int, 0 <= n, n <= Refilled(b), Refill(b, n)
  PROVE  /\ tokens' \in [Bucket -> Int] /\ \A c \in Bucket : tokens'[c] \in 0 .. Cap[c]
         /\ idle' \in [Bucket -> Nat]
  BY RefilledType, CapType DEF LimiterTypeOK, Refill

LEMMA LimiterInitType == LimiterInit => LimiterTypeOK
  BY LimiterAssumption, CapType
     DEF LimiterInit, LimiterTypeOK, Stage, Cap, Rate, Bucket

LEMMA LimiterStepType ==
  ASSUME LimiterTypeOK, [LimiterNext]_limiterVars
  PROVE  LimiterTypeOK'
<1>1. ASSUME NEW t \in Task, Arrive(t) PROVE LimiterTypeOK'
  BY <1>1 DEF LimiterTypeOK, Arrive, GoesTo, Stage, bucketVars
<1>2. ASSUME NEW t \in Task, Admit(t) PROVE LimiterTypeOK'
  BY <1>2 DEF LimiterTypeOK, Admit, GoesTo, Stage, bucketVars
<1>3. ASSUME NEW t \in Task, Leave(t) PROVE LimiterTypeOK'
  BY <1>3 DEF LimiterTypeOK, Leave, GoesTo, Stage, bucketVars
<1>4. ASSUME NEW t \in Task, NEW b \in Bucket, Take(t, b) PROVE LimiterTypeOK'
  <2>1. /\ Amount(b) \in Int /\ 0 <= Amount(b) /\ Amount(b) <= Refilled(b)
        /\ Refill(b, Amount(b))
    BY <1>4, AmountType, RefilledType, CapType DEF Take
  <2>2. /\ tokens' \in [Bucket -> Int] /\ \A c \in Bucket : tokens'[c] \in 0 .. Cap[c]
        /\ idle' \in [Bucket -> Nat]
    BY <2>1, RefillType
  <2>3. pc' \in [Task -> Stage]
    BY <1>4 DEF LimiterTypeOK, Take, GoesTo, After, Stage
  <2> QED BY <1>4, <2>2, <2>3 DEF LimiterTypeOK, Take
<1>5. ASSUME NEW t \in Task, NEW b \in Bucket, Doze(t, b) PROVE LimiterTypeOK'
  <2>1. 0 <= Refilled(b) /\ Refill(b, 0) /\ Wait(b) \in Nat
    BY <1>5, RefilledType, CapType, WaitType DEF Doze
  <2>2. /\ tokens' \in [Bucket -> Int] /\ \A c \in Bucket : tokens'[c] \in 0 .. Cap[c]
        /\ idle' \in [Bucket -> Nat]
    BY <2>1, RefillType
  <2> QED BY <1>5, <2>1, <2>2 DEF LimiterTypeOK, Doze, guardVars
<1>6. ASSUME Tick PROVE LimiterTypeOK'
  <2>1. idle' \in [Bucket -> Nat]
    BY <1>6 DEF LimiterTypeOK, Tick, Passes
  <2>2. doze' \in [Task -> Nat]
    BY <1>6 DEF LimiterTypeOK, Tick
  <2> QED BY <1>6, <2>1, <2>2 DEF LimiterTypeOK, Tick, guardVars
<1>7. ASSUME Restart PROVE LimiterTypeOK'
  <2>1. tokens' \in [Bucket -> Int] /\ \A c \in Bucket : tokens'[c] \in 0 .. Cap[c]
    BY <1>7, CapType DEF Restart, Cap
  <2> QED BY <1>7, <2>1, LimiterAssumption DEF LimiterTypeOK, Restart, Stage
<1>8. ASSUME UNCHANGED limiterVars PROVE LimiterTypeOK'
  BY <1>8 DEF LimiterTypeOK, limiterVars, guardVars, bucketVars
<1> QED BY <1>1, <1>2, <1>3, <1>4, <1>5, <1>6, <1>7, <1>8 DEF LimiterNext

(***************************************************************************)
(* The quota.                                                              *)
(***************************************************************************)

\* One more tick never refills a bucket by more than one tick's rate.
LEMMA TickRefills ==
  ASSUME LimiterTypeOK, NEW b \in Bucket, Tick
  PROVE  Refilled(b)' <= Refilled(b) + Rate[b] /\ Refilled(b)' <= Cap[b]
<1>1. /\ Cap[b] \in Nat \ {0} /\ Rate[b] \in Nat \ {0} /\ tokens[b] \in Nat /\ idle[b] \in Nat
      /\ tokens' = tokens /\ idle'[b] = Passes(b)
  BY CapType DEF LimiterTypeOK, Tick
<1>2. CASE Refilled(b) = Cap[b]
  BY <1>1, <1>2 DEF Refilled, Passes
<1>3. CASE Refilled(b) # Cap[b]
  <2>1. idle'[b] = idle[b] + 1
    BY <1>1, <1>3 DEF Passes
  <2>2. idle'[b] * Rate[b] = idle[b] * Rate[b] + Rate[b]
    BY <1>1, <2>1
  <2>3. idle[b] * Rate[b] \in Nat
    BY <1>1
  <2> QED BY <1>1, <2>2, <2>3 DEF Refilled, Least
<1> QED BY <1>2, <1>3

LEMMA RefillKeeps ==
  ASSUME LimiterTypeOK, NEW b \in Bucket, NEW n \in Int, 0 <= n, n <= Refilled(b), Refill(b, n)
  PROVE  /\ Refilled(b)' = Refilled(b) - n
         /\ \A c \in Bucket \ {b} : Refilled(c)' = Refilled(c)
<1>1. /\ tokens'[b] = Refilled(b) - n /\ idle'[b] = 0
      /\ \A c \in Bucket \ {b} : tokens'[c] = tokens[c] /\ idle'[c] = idle[c]
  BY DEF LimiterTypeOK, Refill
<1>2. Refilled(b) \in 0 .. Cap[b] /\ Rate[b] \in Nat /\ Cap[b] \in Nat
  BY RefilledType, CapType
<1>3. Refilled(b)' = Least(Cap[b], tokens'[b] + idle'[b] * Rate[b])
  BY DEF Refilled
<1>4. tokens'[b] + idle'[b] * Rate[b] = Refilled(b) - n
  BY <1>1, <1>2
<1>5. Refilled(b)' = Refilled(b) - n
  BY <1>2, <1>3, <1>4 DEF Least
<1> QED BY <1>1, <1>5 DEF Refilled

LEMMA AskedType ==
  ASSUME NEW b \in Bucket
  PROVE  Asked(b) \in Nat
  BY LimiterAssumption DEF Asked, Bucket

\* What the meter does besides: each of its steps is a step of the guard.
LEMMA MeterSteps ==
  ASSUME [MeterNext]_meterVars
  PROVE  [LimiterNext]_limiterVars
  BY DEF MeterNext, Use, Replenish, StartAnew, Unseen, LimiterNext, meterVars

LEMMA MeterInitType == MeterInit => MeterTypeOK
<1>1. ASSUME MeterInit PROVE LimiterTypeOK
  BY <1>1, LimiterInitType DEF MeterInit
<1>2. Cap \in [Bucket -> Int]
  BY LimiterAssumption DEF Cap, Bucket
<1> QED BY <1>1, <1>2, MeterAssumption DEF MeterInit, MeterTypeOK

LEMMA MeterStepType ==
  ASSUME MeterTypeOK, [MeterNext]_meterVars
  PROVE  MeterTypeOK'
<1>0. LimiterTypeOK'
  BY MeterSteps, LimiterStepType DEF MeterTypeOK
<1>1. ASSUME NEW t \in Task, NEW b \in Bucket, Use(t, b) PROVE MeterTypeOK'
  BY <1>0, <1>1, AskedType DEF MeterTypeOK, Use
<1>2. CASE Replenish
  BY <1>0, <1>2, CapType DEF MeterTypeOK, Replenish, Least
<1>3. CASE StartAnew
  BY <1>0, <1>3, MeterAssumption DEF MeterTypeOK, StartAnew
<1>4. CASE UNCHANGED <<quota, starts>>
  BY <1>0, <1>4 DEF MeterTypeOK
<1> QED BY <1>1, <1>2, <1>3, <1>4 DEF MeterNext, Unseen, meterVars

LEMMA BudgetStep ==
  ASSUME Est <= TpmCap, MeterTypeOK, Budget, [MeterNext]_meterVars
  PROVE  Budget'
<1> DEFINE Floor(b) == starts * Cap[b]
<1>0. LimiterTypeOK /\ \A b \in Bucket :
        /\ Refilled(b) \in 0 .. Cap[b] /\ Cap[b] \in Nat /\ Rate[b] \in Nat
        /\ quota[b] \in Int /\ Floor(b) \in Nat
        /\ quota[b] >= Refilled(b) - Floor(b)
  BY RefilledType, CapType DEF MeterTypeOK, Budget
<1>1. CASE UNCHANGED <<tokens, idle, quota, starts>>
  BY <1>1 DEF Budget, Refilled
<1>2. ASSUME NEW t \in Task, NEW b \in Bucket, Use(t, b) PROVE Budget'
  <2>1. /\ Amount(b) \in Int /\ 0 <= Amount(b) /\ Amount(b) <= Refilled(b)
        /\ Refill(b, Amount(b))
    BY <1>2, AmountType, <1>0 DEF Use, Take
  <2>2. /\ Refilled(b)' = Refilled(b) - Amount(b)
        /\ \A c \in Bucket \ {b} : Refilled(c)' = Refilled(c)
    BY <1>0, <2>1, RefillKeeps
  <2>3. /\ starts' = starts /\ quota'[b] = quota[b] - Asked(b)
        /\ \A c \in Bucket \ {b} : quota'[c] = quota[c]
    BY <1>2 DEF Use, MeterTypeOK
  <2>4. Asked(b) = Amount(b)
    BY LimiterAssumption DEF Asked, Amount, Least, Cap, Bucket
  <2>5. ASSUME NEW c \in Bucket PROVE quota'[c] >= Refilled(c)' - starts' * Cap[c]
    <3>1. CASE c = b
      BY <1>0, <2>1, <2>2, <2>3, <2>4, <3>1
    <3>2. CASE c # b
      BY <1>0, <2>2, <2>3, <3>2
    <3> QED BY <3>1, <3>2
  <2> QED BY <2>5 DEF Budget
<1>3. ASSUME NEW t \in Task, NEW b \in Bucket, Doze(t, b), UNCHANGED <<quota, starts>>
      PROVE  Budget'
  <2>1. Refill(b, 0) /\ starts' = starts /\ quota' = quota
    BY <1>3 DEF Doze
  <2>2. \A c \in Bucket : Refilled(c)' = Refilled(c)
    BY <1>0, <2>1, RefillKeeps
  <2> QED BY <2>1, <2>2, <1>0 DEF Budget
<1>4. ASSUME Replenish PROVE Budget'
  <2>1. ASSUME NEW b \in Bucket PROVE quota'[b] >= Refilled(b)' - starts' * Cap[b]
    <3>1. /\ starts' = starts /\ quota'[b] = Least(Cap[b], quota[b] + Rate[b])
      BY <1>4 DEF Replenish
    <3>2. Refilled(b)' <= Refilled(b) + Rate[b] /\ Refilled(b)' <= Cap[b]
      BY <1>0, <1>4, TickRefills DEF Replenish
    <3>3. Refilled(b)' \in Int
      <4>1. LimiterTypeOK'
        BY <1>0, <1>4, LimiterStepType DEF LimiterNext, Replenish
      <4> QED BY <4>1, <1>0 DEF LimiterTypeOK, Refilled, Least
    <3>4. Floor(b)' = Floor(b)
      BY <3>1
    <3> QED BY <1>0, <3>1, <3>2, <3>3 DEF Least
  <2> QED BY <2>1 DEF Budget
<1>5. ASSUME StartAnew PROVE Budget'
  <2>1. ASSUME NEW b \in Bucket PROVE quota'[b] >= Refilled(b)' - starts' * Cap[b]
    <3>1. starts' = starts + 1 /\ quota' = quota /\ tokens'[b] = Cap[b] /\ idle'[b] = 0
      BY <1>5 DEF StartAnew, Restart
    <3>2. Refilled(b)' = Cap[b]
      BY <1>0, <3>1 DEF Refilled, Least
    <3>3. starts' * Cap[b] = Floor(b) + Cap[b]
      <4>1. starts \in Nat /\ Cap[b] \in Nat
        BY <1>0, MeterAssumption DEF MeterTypeOK
      <4> QED BY <4>1, <3>1, OneMore
    <3> QED BY <1>0, <3>1, <3>2, <3>3
  <2> QED BY <2>1 DEF Budget
<1> QED
  BY <1>1, <1>2, <1>3, <1>4, <1>5
     DEF MeterNext, Unseen, Arrive, Admit, Leave, meterVars, limiterVars, guardVars, bucketVars

\* When no pass uses more tokens than the bucket holds, the provider refuses nothing that the
\* guard lets through, for any number of tasks, any capacities, rates and estimates within the
\* capacity: only a restart of the process overdraws it, by one bucket each.
THEOREM GuardWithinQuota ==
  ASSUME Est <= TpmCap
  PROVE  MeterSpec => []WithinQuota
<1> DEFINE Inv == MeterTypeOK /\ Budget
<1>1. MeterInit => Inv
  <2>1. ASSUME MeterInit PROVE Budget
    <3>1. ASSUME NEW b \in Bucket PROVE quota[b] >= Refilled(b) - starts * Cap[b]
      BY <2>1, CapType DEF MeterInit, LimiterInit, Refilled, Least
    <3> QED BY <3>1 DEF Budget
  <2> QED BY <2>1, MeterInitType
<1>2. Inv /\ [MeterNext]_meterVars => Inv'
  BY MeterStepType, BudgetStep
<1>3. Inv => WithinQuota
  <2>1. ASSUME Inv, NEW b \in Bucket PROVE quota[b] >= -(starts * Cap[b])
    <3>1. Refilled(b) \in 0 .. Cap[b] /\ Cap[b] \in Nat /\ quota[b] \in Int /\ starts \in Nat
      BY <2>1, RefilledType, CapType, MeterAssumption DEF MeterTypeOK
    <3>2. starts * Cap[b] \in Nat
      BY <3>1
    <3> QED BY <2>1, <3>1, <3>2 DEF Budget
  <2> QED BY <2>1 DEF WithinQuota
<1> QED BY <1>1, <1>2, <1>3, PTL DEF MeterSpec

(***************************************************************************)
(* The slots, and the passes as users of the guard.                        *)
(***************************************************************************)
Holders == {t \in Task : pc[t] \in Holding}

LEMMA HoldersFinite == IsFiniteSet(Holders) /\ IsFiniteSet(Holders')
  BY PassAssumption, FS_Subset DEF Holders

\* Whoever queues at the semaphore is in its line, once.
LineInv ==
  \A i, j \in 1 .. Len(line) : pc[line[i]] = "line" /\ (i # j => line[i] # line[j])

LEMMA LineStep ==
  ASSUME LimiterTypeOK, LineInv, [LimiterNext]_limiterVars
  PROVE  LineInv'
<1>0. line \in Seq(Task) /\ pc \in [Task -> Stage] /\ Len(line) \in Nat
      /\ \A i \in 1 .. Len(line) : line[i] \in Task
  BY DEF LimiterTypeOK
<1>1. ASSUME NEW t \in Task, Arrive(t) PROVE LineInv'
  <2>1. /\ Len(line') = Len(line) + 1 /\ line'[Len(line) + 1] = t
        /\ \A i \in 1 .. Len(line) : line'[i] = line[i]
    BY <1>0, <1>1 DEF Arrive
  <2>2. pc' = [pc EXCEPT ![t] = "line"] /\ pc[t] = "away"
    BY <1>1 DEF Arrive, GoesTo
  <2>3. \A i \in 1 .. Len(line) : line[i] # t
    BY <2>2 DEF LineInv
  <2> QED BY <1>0, <2>1, <2>2, <2>3 DEF LineInv
<1>2. ASSUME NEW t \in Task, Admit(t) PROVE LineInv'
  <2>1. /\ line # <<>> /\ t = line[1] /\ Len(line') = Len(line) - 1 /\ Len(line) >= 1
        /\ \A i \in 1 .. Len(line') : line'[i] = line[i + 1]
    BY <1>0, <1>2 DEF Admit
  <2>2. pc' = [pc EXCEPT ![t] = "rpm"]
    BY <1>2 DEF Admit, GoesTo
  <2>3. \A i \in 2 .. Len(line) : line[i] # t
    BY <2>1, <1>0 DEF LineInv
  <2>4. ASSUME NEW i \in 1 .. Len(line'), NEW j \in 1 .. Len(line')
        PROVE  pc'[line'[i]] = "line" /\ (i # j => line'[i] # line'[j])
    <3>1. i + 1 \in 2 .. Len(line) /\ j + 1 \in 2 .. Len(line)
      BY <1>0, <2>1
    <3>2. pc[line[i + 1]] = "line" /\ line[i + 1] # t /\ line[i + 1] \in Task
      BY <1>0, <2>3, <3>1 DEF LineInv
    <3>3. i # j => line[i + 1] # line[j + 1]
      BY <1>0, <3>1 DEF LineInv
    <3> QED BY <1>0, <2>1, <2>2, <3>2, <3>3
  <2> QED BY <2>4 DEF LineInv
<1>3. ASSUME NEW t \in Task, NEW to, pc[t] # "line", line' = line, GoesTo(t, to) PROVE LineInv'
  <2>1. \A i \in 1 .. Len(line) : line[i] # t
    BY <1>3 DEF LineInv
  <2> QED BY <1>0, <1>3, <2>1 DEF LineInv, GoesTo
<1>4. CASE UNCHANGED <<pc, line>>
  BY <1>4 DEF LineInv
<1>5. CASE Restart
  BY <1>5 DEF LineInv, Restart
<1> QED
  BY <1>1, <1>2, <1>3, <1>4, <1>5
     DEF LimiterNext, Leave, Take, Doze, Tick, Bucket, limiterVars, guardVars, bucketVars

LEMMA SlotsStep ==
  ASSUME LimiterTypeOK, LineInv, SlotsConserved, [LimiterNext]_limiterVars
  PROVE  SlotsConserved'
<1>0. /\ IsFiniteSet(Holders) /\ Cardinality(Holders) \in Nat
      /\ free + Cardinality(Holders) = Slots /\ free \in Nat /\ Slots \in Nat
      /\ pc \in [Task -> Stage]
  BY HoldersFinite, FS_CardinalityType, LimiterAssumption DEF SlotsConserved, LimiterTypeOK, Holders
<1>1. ASSUME free' = free, Holders' = Holders PROVE SlotsConserved'
  BY <1>0, <1>1 DEF SlotsConserved, Holders
<1>2. ASSUME NEW t \in Task, Arrive(t) PROVE SlotsConserved'
  <2>1. Holders' = Holders
    BY <1>0, <1>2 DEF Arrive, GoesTo, Holders, Holding
  <2> QED BY <1>1, <1>2, <2>1 DEF Arrive
<1>3. ASSUME NEW t \in Task, Admit(t) PROVE SlotsConserved'
  <2>0. pc[t] = "line"
    BY <1>3 DEF Admit, LineInv, LimiterTypeOK
  <2>1. t \notin Holders /\ Holders' = Holders \cup {t} /\ free' = free - 1
    BY <1>0, <1>3, <2>0 DEF Admit, GoesTo, Holders, Holding
  <2>2. Cardinality(Holders') = Cardinality(Holders) + 1
    BY <1>0, <2>1, FS_AddElement
  <2> QED BY <1>0, <2>1, <2>2 DEF SlotsConserved, Holders
<1>4. ASSUME NEW t \in Task, Leave(t) PROVE SlotsConserved'
  <2>1. t \in Holders /\ Holders' = Holders \ {t} /\ free' = free + 1
    BY <1>0, <1>4 DEF Leave, GoesTo, Holders, Holding
  <2>2. Cardinality(Holders') = Cardinality(Holders) - 1
    BY <1>0, <2>1, FS_RemoveElement
  <2> QED BY <1>0, <2>1, <2>2 DEF SlotsConserved, Holders
<1>5. ASSUME NEW t \in Task, NEW b \in Bucket, Take(t, b) PROVE SlotsConserved'
  <2>1. Holders' = Holders
    BY <1>0, <1>5 DEF Take, GoesTo, After, Bucket, Holders, Holding
  <2> QED BY <1>1, <1>5, <2>1 DEF Take
<1>6. CASE UNCHANGED <<pc, free>>
  BY <1>1, <1>6 DEF Holders
<1>7. CASE Restart
  <2>1. Holders' = {} /\ free' = Slots
    BY <1>7 DEF Restart, Holders, Holding
  <2> QED BY <2>1, FS_EmptySet, <1>0 DEF SlotsConserved, Holders
<1> QED
  BY <1>2, <1>3, <1>4, <1>5, <1>6, <1>7
     DEF LimiterNext, Doze, Tick, limiterVars, guardVars, bucketVars

\* Every slot is free or held by one task, for any number of tasks and slots: neither a pass
\* that fails nor a restart leaks one or returns one twice.
THEOREM GuardKeepsSlots == LimiterSpec => []SlotsConserved
<1> DEFINE Inv == LimiterTypeOK /\ LineInv /\ SlotsConserved
<1>1. LimiterInit => Inv
  <2>1. LimiterInit => LineInv
    BY DEF LimiterInit, LineInv
  <2>2. ASSUME LimiterInit PROVE SlotsConserved
    <3>1. Holders = {} /\ free = Slots
      BY <2>2 DEF LimiterInit, Holders, Holding
    <3> QED BY <3>1, FS_EmptySet, LimiterAssumption DEF SlotsConserved, Holders
  <2> QED BY <2>1, <2>2, LimiterInitType
<1>2. Inv /\ [LimiterNext]_limiterVars => Inv'
  BY LimiterStepType, LineStep, SlotsStep
<1> QED BY <1>1, <1>2, PTL DEF LimiterSpec

\* The passes enter and leave the guard as Limiter has it, and so inherit its theorems.
THEOREM PassesUseLimiter == Spec => UsesLimiter
<1>1. Init => LimiterInit
  BY DEF Init
<1>2. [Next]_vars => [LimiterNext]_limiterVars
  BY DEF Next, TaskStep, Begin, Enter, Finish, Pay, Sleep, Merged, Feedback, Checklist, Ideal, Embed,
         Ask, Elapse, Die, LimiterNext, vars
<1> QED BY <1>1, <1>2, PTL DEF Spec, UsesLimiter, LimiterSpec

(***************************************************************************)
(* The requests of one pass.                                               *)
(***************************************************************************)
LEMMA OneAgent ==
  ASSUME NEW x \in Agent
  PROVE  <<x>> \in Seq(Agent) /\ Len(<<x>>) = 1
  OBVIOUS

LEMMA WhenType ==
  ASSUME NEW cond \in BOOLEAN, NEW seq \in Seq(Agent), NEW n \in Nat, Len(seq) <= n
  PROVE  When(cond, seq) \in Seq(Agent) /\ Len(When(cond, seq)) <= n
<1>1. CASE cond
  BY <1>1 DEF When
<1>2. CASE ~cond
  <2>1. When(cond, seq) = <<>>
    BY <1>2 DEF When
  <2> QED BY <2>1, EmptySeq
<1> QED BY <1>1, <1>2

LEMMA PipelineType ==
  ASSUME NEW o \in Option, NEW esc \in BOOLEAN, NEW n \in 0 .. MaxObjections
  PROVE  Pipeline(o, esc, n) \in Seq(Agent) /\ Len(Pipeline(o, esc, n)) <= 3 + MaxObjections
<1> DEFINE first == IF o = "FULL" THEN <<"merged">>
                    ELSE IF NeedsFeedback(o) THEN <<"feedback">> ELSE <<"checklist">>
           second == When(NeedsChecklist(o) /\ esc, <<"checklist">>)
           third == When(NeedsIdeal(o), <<"ideal">>)
           last == When(NeedsFeedback(o), [i \in 1 .. n |-> "embed"])
<1>0. MaxObjections \in Nat /\ n \in Nat /\ n <= MaxObjections
  BY PassAssumption
<1>1. first \in Seq(Agent) /\ Len(first) = 1
  <2>1. \A x \in {"merged", "feedback", "checklist"} : <<x>> \in Seq(Agent) /\ Len(<<x>>) = 1
    BY OneAgent DEF Agent
  <2> QED BY <2>1
<1>2. second \in Seq(Agent) /\ Len(second) <= 1
  <2>1. <<"checklist">> \in Seq(Agent) /\ Len(<<"checklist">>) <= 1
    BY OneAgent DEF Agent
  <2>2. (NeedsChecklist(o) /\ esc) \in BOOLEAN
    OBVIOUS
  <2> QED BY <2>1, <2>2, WhenType
<1>3. third \in Seq(Agent) /\ Len(third) <= 1
  <2>1. <<"ideal">> \in Seq(Agent) /\ Len(<<"ideal">>) <= 1
    BY OneAgent DEF Agent
  <2>2. NeedsIdeal(o) \in BOOLEAN
    BY DEF NeedsIdeal
  <2> QED BY <2>1, <2>2, WhenType
<1>4. last \in Seq(Agent) /\ Len(last) <= MaxObjections
  <2>1. [i \in 1 .. n |-> "embed"] \in Seq(Agent) /\ Len([i \in 1 .. n |-> "embed"]) <= MaxObjections
    BY <1>0 DEF Agent
  <2>2. NeedsFeedback(o) \in BOOLEAN
    BY DEF NeedsFeedback
  <2> QED BY <1>0, <2>1, <2>2, WhenType
<1>5. Pipeline(o, esc, n) = first \o second \o third \o last
  BY DEF Pipeline
<1> HIDE DEF first, second, third, last
<1>6. first \o second \in Seq(Agent) /\ Len(first \o second) <= 2
  BY <1>1, <1>2, ConcatProperties, LenProperties
<1>7. first \o second \o third \in Seq(Agent) /\ Len(first \o second \o third) <= 3
  BY <1>3, <1>6, ConcatProperties, LenProperties
<1>8. /\ first \o second \o third \o last \in Seq(Agent)
      /\ Len(first \o second \o third \o last) <= 3 + MaxObjections
  BY <1>0, <1>4, <1>7, ConcatProperties, LenProperties
<1> QED BY <1>5, <1>8

\* What a pass has sent and may still send stays within what its pipeline was worth; outside
\* the guard it has sent nothing.
Budgeted(t) ==
  /\ pc[t] # "inside" => agents[t] = <<>> /\ sent[t] = 0
  /\ agents[t] = <<>> => tries[t] = 0
  /\ sent[t] + Len(agents[t]) * Tries <= MostRequests + tries[t]

PassInv == TypeOK /\ LineInv /\ \A t \in Task : Budgeted(t)

LEMMA AskKeeps ==
  ASSUME PassInv, NEW t \in Task, NEW x \in Agent, NEW answers, Ask(t, x, answers)
  PROVE  PassInv'
<1>0. /\ agents \in [Task -> Seq(Agent)] /\ tries \in [Task -> 0 .. Tries - 1]
      /\ sent \in [Task -> Nat] /\ Tries \in Nat \ {0} /\ MostRequests \in Nat
  BY PassAssumption DEF PassInv, TypeOK, MostRequests
<1>1. /\ pc[t] = "inside" /\ agents[t] # <<>>
      /\ sent' = [sent EXCEPT ![t] = @ + 1] /\ UNCHANGED limiterVars
  BY DEF Ask
<1>2. PICK answer \in answers :
        /\ agents' = [agents EXCEPT ![t] = IF answer = "ok" THEN Tail(@)
                                           ELSE IF Retries(t, answer) THEN @ ELSE <<>>]
        /\ tries' = [tries EXCEPT ![t] = IF Retries(t, answer) THEN @ + 1 ELSE 0]
  BY DEF Ask
<1>3. /\ agents[t] \in Seq(Agent) /\ Len(agents[t]) \in Nat /\ Len(agents[t]) >= 1
      /\ Tail(agents[t]) \in Seq(Agent) /\ Len(Tail(agents[t])) = Len(agents[t]) - 1
  BY <1>0, <1>1, HeadTailProperties, LenProperties, EmptySeq
<1>4. sent[t] + Len(agents[t]) * Tries <= MostRequests + tries[t] /\ tries[t] \in 0 .. Tries - 1
  BY <1>0 DEF PassInv, Budgeted
<1>5. Retries(t, answer) => answer # "ok" /\ tries[t] + 1 < Tries
  BY DEF Retries
<1>6. agents'[t] \in {Tail(agents[t]), agents[t], <<>>} /\ agents'[t] \in Seq(Agent)
  BY <1>0, <1>2, <1>3
<1>7. tries'[t] \in 0 .. Tries - 1 /\ (agents'[t] = <<>> => tries'[t] = 0)
  BY <1>0, <1>1, <1>2, <1>4, <1>5
<1>8. sent'[t] + Len(agents'[t]) * Tries <= MostRequests + tries'[t]
  <2> DEFINE n == Len(agents[t])
  <2>1. sent'[t] = sent[t] + 1 /\ sent[t] \in Nat
    BY <1>0, <1>1
  <2>2. CASE Retries(t, answer)
    <3>1. agents'[t] = agents[t] /\ tries'[t] = tries[t] + 1
      BY <1>0, <1>2, <1>5, <2>2
    <3>2. n * Tries \in Nat
      BY <1>0, <1>3
    <3> QED BY <1>0, <1>4, <2>1, <3>1, <3>2
  <2>3. CASE ~Retries(t, answer)
    <3>1. tries'[t] = 0 /\ agents'[t] \in {Tail(agents[t]), <<>>}
      BY <1>0, <1>2, <2>3
    <3>2. n * Tries = (n - 1) * Tries + Tries /\ (n - 1) * Tries \in Nat
      BY <1>0, <1>3
    <3>3. sent[t] + (n - 1) * Tries + Tries <= MostRequests + tries[t]
      BY <1>0, <1>4, <3>2
    <3>4. CASE agents'[t] = Tail(agents[t])
      <4>1. Len(agents'[t]) = n - 1
        BY <1>3, <3>4
      <4> HIDE DEF n
      <4> QED BY <1>0, <1>4, <2>1, <3>1, <3>2, <3>3, <4>1
    <3>5. CASE agents'[t] = <<>>
      <4>1. Len(agents'[t]) * Tries = 0
        BY <1>0, <3>5
      <4> HIDE DEF n
      <4> QED BY <1>0, <1>4, <2>1, <3>1, <3>2, <3>3, <4>1
    <3> QED BY <3>1, <3>4, <3>5
  <2> QED BY <2>2, <2>3
<1>9. Budgeted(t)'
  BY <1>1, <1>7, <1>8 DEF Budgeted, limiterVars, guardVars
<1>10. \A u \in Task \ {t} : Budgeted(u)'
  BY <1>0, <1>1, <1>2 DEF PassInv, Budgeted, limiterVars, guardVars
<1>11. TypeOK'
  <2>1. agents' \in [Task -> Seq(Agent)]
    BY <1>0, <1>2, <1>3, EmptySeq
  <2>2. tries' \in [Task -> 0 .. Tries - 1]
    BY <1>0, <1>2, <1>4, <1>5
  <2>3. sent' \in [Task -> Nat]
    BY <1>0, <1>1
  <2>4. LimiterTypeOK'
    BY <1>1 DEF PassInv, TypeOK, LimiterTypeOK, limiterVars, guardVars, bucketVars
  <2> QED BY <2>1, <2>2, <2>3, <2>4 DEF PassInv, TypeOK
<1>12. LineInv'
  BY <1>1 DEF PassInv, LineInv, limiterVars, guardVars
<1> QED BY <1>9, <1>10, <1>11, <1>12 DEF PassInv

LEMMA PassStep ==
  ASSUME PassInv, [Next]_vars
  PROVE  PassInv'
<1>0. /\ agents \in [Task -> Seq(Agent)] /\ tries \in [Task -> 0 .. Tries - 1]
      /\ sent \in [Task -> Nat] /\ pc \in [Task -> Stage]
      /\ Tries \in Nat \ {0} /\ MostRequests \in Nat
  BY PassAssumption DEF PassInv, TypeOK, LimiterTypeOK, MostRequests
<1>1. LimiterTypeOK' /\ LineInv'
  <2>1. [LimiterNext]_limiterVars
    BY DEF Next, TaskStep, Begin, Enter, Finish, Pay, Sleep, Merged, Feedback, Checklist, Ideal,
           Embed, Ask, Elapse, Die, LimiterNext, vars
  <2> QED BY <2>1, LimiterStepType, LineStep DEF PassInv, TypeOK
<1>2. ASSUME agents' = agents, tries' = tries, sent' = sent,
             \A t \in Task : pc'[t] # "inside" => pc[t] # "inside"
      PROVE  PassInv'
  <2>1. TypeOK'
    BY <1>1, <1>2 DEF PassInv, TypeOK
  <2>2. \A t \in Task : Budgeted(t)'
    BY <1>2 DEF PassInv, Budgeted
  <2> QED BY <1>1, <2>1, <2>2 DEF PassInv
<1>3. ASSUME NEW t \in Task, Begin(t) PROVE PassInv'
  <2>1. \A u \in Task : pc'[u] # "inside" => pc[u] # "inside"
    BY <1>0, <1>3 DEF Begin, Arrive, GoesTo
  <2>2. agents' = agents /\ tries' = tries /\ sent' = sent
    BY <1>3 DEF Begin, passVars
  <2> QED BY <1>2, <2>1, <2>2
<1>4. ASSUME NEW t \in Task, Enter(t) PROVE PassInv'
  <2>1. line \in Seq(Task) /\ line # <<>> /\ t = line[1] /\ 1 \in 1 .. Len(line)
    BY <1>4 DEF Enter, Admit, PassInv, TypeOK, LimiterTypeOK
  <2>2. pc[t] = "line" /\ pc' = [pc EXCEPT ![t] = "rpm"]
    BY <1>4, <2>1 DEF PassInv, LineInv, Enter, Admit, GoesTo
  <2>3. \A u \in Task : pc'[u] # "inside" => pc[u] # "inside"
    BY <1>0, <2>2
  <2>4. agents' = agents /\ tries' = tries /\ sent' = sent
    BY <1>4 DEF Enter, passVars
  <2> QED BY <1>0, <1>2, <2>3, <2>4
<1>5. CASE UNCHANGED <<passVars, pc>>
  <2>1. UNCHANGED <<agents, tries, sent, pc>>
    BY <1>5 DEF passVars
  <2>2. TypeOK'
    BY <1>1, <2>1 DEF PassInv, TypeOK
  <2>3. \A t \in Task : Budgeted(t)'
    BY <2>1 DEF PassInv, Budgeted
  <2> QED BY <1>1, <2>2, <2>3 DEF PassInv
<1>6. CASE Elapse \/ \E t \in Task, b \in Bucket : Sleep(t, b)
  BY <1>5, <1>6 DEF Elapse, Tick, Sleep, Doze, guardVars
<1>7. ASSUME NEW t \in Task, NEW b \in Bucket, Pay(t, b) PROVE PassInv'
  <2>1. /\ pc[t] # "inside" /\ pc' = [pc EXCEPT ![t] = After(b)]
        /\ UNCHANGED <<tries, sent>>
    BY <1>7 DEF Pay, Take, GoesTo, Bucket
  <2>2. agents[t] = <<>> /\ sent[t] = 0 /\ tries[t] = 0
    BY <2>1 DEF PassInv, Budgeted
  <2>3. CASE After(b) # "inside"
    <3>1. agents' = agents
      BY <1>7, <2>3 DEF Pay
    <3>2. \A u \in Task : pc'[u] # "inside" => pc[u] # "inside"
      BY <1>0, <2>1
    <3> QED BY <1>2, <2>1, <2>2, <3>1, <3>2
  <2>4. CASE After(b) = "inside"
    <3>1. PICK o \in Option, esc \in BOOLEAN, n \in 0 .. MaxObjections :
            agents' = [agents EXCEPT ![t] = Pipeline(o, esc, n)]
      BY <1>7, <2>4, PassAssumption DEF Pay
    <3>2. /\ agents'[t] = Pipeline(o, esc, n) /\ agents' \in [Task -> Seq(Agent)]
          /\ \A u \in Task \ {t} : agents'[u] = agents[u] /\ pc'[u] = pc[u]
          /\ pc'[t] = "inside"
      BY <1>0, <2>1, <2>4, <3>1, PipelineType
    <3>3. Len(agents'[t]) \in Nat /\ Len(agents'[t]) <= 3 + MaxObjections
      BY <3>2, PipelineType, LenProperties
    <3>4. Len(agents'[t]) * Tries <= MostRequests
      <4>1. \A m, k \in Nat : m <= k => m * Tries <= k * Tries
        BY <1>0
      <4> QED BY <3>3, <4>1, PassAssumption DEF MostRequests
    <3>5. Len(agents'[t]) * Tries \in Nat
      BY <1>0, <3>3
    <3>6. Budgeted(t)'
      BY <1>0, <2>1, <2>2, <3>2, <3>4, <3>5 DEF Budgeted
    <3>7. \A u \in Task \ {t} : Budgeted(u)'
      BY <2>1, <3>2 DEF PassInv, Budgeted
    <3>8. TypeOK'
      BY <1>1, <2>1, <3>2 DEF PassInv, TypeOK
    <3> QED BY <1>1, <3>6, <3>7, <3>8 DEF PassInv
  <2> QED BY <2>3, <2>4
<1>8. ASSUME NEW t \in Task, Finish(t) PROVE PassInv'
  <2>1. /\ pc' = [pc EXCEPT ![t] = "away"] /\ sent' = [sent EXCEPT ![t] = 0]
        /\ agents[t] = <<>> /\ UNCHANGED <<agents, tries>>
    BY <1>8 DEF Finish, Leave, GoesTo
  <2>2. sent'[t] = 0 /\ tries[t] = 0 /\ sent' \in [Task -> Nat]
    BY <1>0, <2>1 DEF PassInv, Budgeted
  <2>3. Len(agents'[t]) * Tries = 0
    BY <1>0, <2>1
  <2>4. Budgeted(t)'
    BY <1>0, <2>1, <2>2, <2>3 DEF Budgeted
  <2>5. \A u \in Task \ {t} : Budgeted(u)'
    BY <1>0, <2>1 DEF PassInv, Budgeted
  <2>6. TypeOK'
    BY <1>1, <2>1, <2>2 DEF PassInv, TypeOK
  <2> QED BY <1>1, <2>4, <2>5, <2>6 DEF PassInv
<1>9. CASE Die
  <2>1. /\ agents' = [t \in Task |-> <<>>] /\ tries' = [t \in Task |-> 0]
        /\ sent' = [t \in Task |-> 0]
    BY <1>9 DEF Die
  <2>2. \A t \in Task : Budgeted(t)'
    <3>1. Len(<<>>) * Tries = 0
      BY <1>0
    <3> QED BY <1>0, <2>1, <3>1 DEF Budgeted
  <2>3. TypeOK'
    <3>1. agents' \in [Task -> Seq(Agent)] /\ tries' \in [Task -> 0 .. Tries - 1]
      BY <1>0, <2>1, EmptySeq
    <3> QED BY <1>0, <1>1, <2>1, <3>1 DEF TypeOK
  <2> QED BY <1>1, <2>2, <2>3 DEF PassInv
<1>10. ASSUME NEW t \in Task, Merged(t) \/ Feedback(t) \/ Checklist(t) \/ Ideal(t) \/ Embed(t)
       PROVE  PassInv'
  BY <1>10, AskKeeps DEF Merged, Feedback, Checklist, Ideal, Embed, Agent
<1>11. CASE UNCHANGED vars
  BY <1>5, <1>11 DEF vars, limiterVars, guardVars
<1> QED
  BY <1>3, <1>4, <1>5, <1>6, <1>7, <1>8, <1>9, <1>10, <1>11 DEF Next, TaskStep

LEMMA PassesHold == Spec => []PassInv
<1>1. ASSUME Init PROVE PassInv
  <2>1. LimiterTypeOK
    BY <1>1, LimiterInitType DEF Init, LimiterInit
  <2>2. \A t \in Task : agents[t] = <<>> /\ tries[t] = 0 /\ sent[t] = 0
    BY <1>1 DEF Init
  <2>3. MostRequests \in Nat /\ Len(<<>>) * Tries = 0
    BY PassAssumption DEF MostRequests
  <2>4. TypeOK
    BY <1>1, <2>1, EmptySeq, PassAssumption DEF Init, TypeOK
  <2>5. LineInv
    BY <1>1 DEF Init, LimiterInit, LineInv
  <2> QED BY <2>2, <2>3, <2>4, <2>5 DEF PassInv, Budgeted
<1>2. PassInv /\ [Next]_vars => PassInv'
  BY PassStep
<1> QED BY <1>1, <1>2, PTL DEF Spec

\* The guard, the agents a pass has still to ask, its attempts and the bounds keep their types,
\* restarts of the process in the middle of passes included.
THEOREM PassTypeCorrect == Spec => []TypeOK
<1>1. PassInv => TypeOK
  BY DEF PassInv
<1> QED BY <1>1, PassesHold, PTL

\* No pass sends more requests than every attempt of every agent of its pipeline, whatever
\* answers, retries and restarts it meets, although one token paid for all of it.
THEOREM PassesBounded == Spec => []PassBounded
<1>1. ASSUME PassInv, NEW t \in Task PROVE sent[t] <= MostRequests
  <2>1. /\ agents[t] \in Seq(Agent) /\ tries[t] \in 0 .. Tries - 1 /\ sent[t] \in Nat
        /\ Tries \in Nat \ {0} /\ MostRequests \in Nat
        /\ (agents[t] = <<>> => tries[t] = 0)
        /\ sent[t] + Len(agents[t]) * Tries <= MostRequests + tries[t]
    BY <1>1, PassAssumption DEF PassInv, TypeOK, Budgeted, MostRequests
  <2>2. CASE agents[t] = <<>>
    <3>1. Len(agents[t]) * Tries = 0
      BY <2>1, <2>2
    <3> QED BY <2>1, <2>2, <3>1
  <2>3. CASE agents[t] # <<>>
    <3>1. Len(agents[t]) - 1 \in Nat
      BY <2>1, <2>3, EmptySeq, LenProperties
    <3>2. (Len(agents[t]) - 1) * Tries \in Nat
      BY <2>1, <3>1
    <3>3. Len(agents[t]) * Tries = (Len(agents[t]) - 1) * Tries + Tries
      BY <2>1, <3>1
    <3> QED BY <2>1, <3>2, <3>3
  <2> QED BY <2>2, <2>3
<1>2. PassInv => PassBounded
  BY <1>1 DEF PassBounded
<1> QED BY <1>2, PassesHold, PTL

=============================================================================
