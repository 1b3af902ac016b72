--------------------------- MODULE JobQueueProofs ---------------------------
(***************************************************************************)
(* Theorems about JobQueue, for every value of its constants.              *)
(***************************************************************************)
EXTENDS JobQueue, FiniteSetTheorems, TLAPS

\* The cap row: at most one open transaction holds today's row, and it found room.
CapRow ==
  \A w \in Worker : holds[w] = "today" =>
    /\ used < Cap
    /\ \A v \in Worker : holds[v] = "today" => v = w

TypeInv == TypeOK /\ CapRow

LEMMA InitTypeInv == Init => TypeInv
  BY QueueAssumption
     DEF Init, TypeInv, TypeOK, CapRow, JobState, Claimed, NoClaim, Sweep, NoSweep, NoItem, Item,
         Answer, SweepWrite, PendingTranscription

\* What SetRow leaves of the row columns is well typed.
LEMMA SetRowType ==
  ASSUME TypeOK, NEW j, NEW s, NEW t, NEW a, NEW n, SetRow(j, s, t, a, n),
         j \in Job => /\ s \in JobState /\ t \in 0 .. MaxSubmissions /\ a \in Nat
                      /\ n \in {"none", "backoff", "midnight"}
  PROVE  /\ state' \in [Job -> JobState]
         /\ tid' \in [Job -> 0 .. MaxSubmissions]
         /\ attempts' \in [Job -> Nat]
         /\ wait' \in [Job -> {"none", "backoff", "midnight"}]
         /\ lease' \in [Job -> {"none", "live", "expired"}]
         /\ overdue' \in [Job -> BOOLEAN]
  BY DEF TypeOK, SetRow

LEMMA EndTaskType ==
  ASSUME TypeOK, NEW w \in Worker, EndTask(w)
  PROVE  /\ pc' \in [Worker -> {"idle", "claimed", "reserved", "submitted"}]
         /\ snap' \in [Worker -> Claimed]
         /\ got' \in [Worker -> 0 .. MaxSubmissions]
         /\ holds' \in [Worker -> {"none", "today", "past", "early", "full"}]
  BY QueueAssumption
     DEF TypeOK, EndTask, Claimed, NoClaim, JobState, PendingTranscription

(***************************************************************************)
(* Tasks: each keeps TypeInv.                                              *)
(***************************************************************************)
LEMMA ClaimTypeInv ==
  ASSUME TypeInv, NEW w \in Worker, NEW j \in Job, Claim(w, j)
  PROVE  TypeInv'
<1>1. TypeOK'
  BY DEF TypeInv, TypeOK, Claim, Claimed
<1>2. CapRow'
  BY DEF TypeInv, CapRow, Claim
<1> QED BY <1>1, <1>2 DEF TypeInv

LEMMA ReserveTypeInv ==
  ASSUME TypeInv, NEW w \in Worker, Reserve(w)
  PROVE  TypeInv'
<1>1. TypeOK'
  BY DEF TypeInv, TypeOK, Reserve, rowVars
<1>2. CapRow'
  BY DEF TypeInv, TypeOK, CapRow, Reserve, AtCap, UsageLocked
<1> QED BY <1>1, <1>2 DEF TypeInv

LEMMA DeferTypeInv ==
  ASSUME TypeInv, NEW w \in Worker, Defer(w)
  PROVE  TypeInv'
<1> DEFINE j == snap[w].job
<1>1. TypeOK /\ SetRow(j, state[j], tid[j], attempts[j], "midnight") /\ EndTask(w)
  BY DEF TypeInv, Defer
<1>2. j \in Job => state[j] \in JobState /\ tid[j] \in 0 .. MaxSubmissions /\ attempts[j] \in Nat
  BY <1>1 DEF TypeOK
<1> HIDE DEF j
<1>3. TypeOK'
  BY <1>1, <1>2, SetRowType, EndTaskType DEF TypeOK, Defer
<1>4. CapRow'
  BY DEF TypeInv, TypeOK, CapRow, Defer, EndTask
<1> QED BY <1>3, <1>4 DEF TypeInv

LEMMA SubmitTypeInv ==
  ASSUME TypeInv, NEW w \in Worker, Submit(w)
  PROVE  TypeInv'
<1> DEFINE j == snap[w].job
<1>1. PICK n \in Number : /\ transcript' = [transcript EXCEPT ![j][n] = "processing"]
                         /\ got' = [got EXCEPT ![w] = n]
  BY DEF Submit
<1>2. transcript' \in [Job -> [Number -> Answer]]
  <2>1. "processing" \in Answer
    BY DEF Answer
  <2>2. transcript \in [Job -> [Number -> Answer]]
    BY DEF TypeInv, TypeOK
  <2> HIDE DEF j
  <2> QED BY <1>1, <2>1, <2>2
<1>3. TypeOK'
  BY <1>1, <1>2 DEF TypeInv, TypeOK, Submit, rowVars, Number
<1>4. CapRow'
  BY DEF TypeInv, CapRow, Submit
<1> QED BY <1>3, <1>4 DEF TypeInv

LEMMA ParkTypeInv ==
  ASSUME TypeInv, NEW w \in Worker, Park(w)
  PROVE  TypeInv'
<1> DEFINE j == snap[w].job
<1>1. TypeOK /\ SetRow(j, AwaitingTranscript, ParkTid(w), attempts[j], wait[j]) /\ EndTask(w)
  BY DEF TypeInv, Park
<1>2. ParkTid(w) \in 0 .. MaxSubmissions /\ AwaitingTranscript \in JobState
  BY <1>1 DEF TypeOK, ParkTid, Claimed, JobState
<1>3. j \in Job => attempts[j] \in Nat /\ wait[j] \in {"none", "backoff", "midnight"}
  BY <1>1 DEF TypeOK
<1> HIDE DEF j
<1>4. used' \in 0 .. Cap
  BY QueueAssumption DEF TypeInv, TypeOK, CapRow, Park, CommitUsage
<1>5. TypeOK'
  BY <1>1, <1>2, <1>3, <1>4, SetRowType, EndTaskType DEF TypeOK, Park
<1>6. CapRow'
  <2>1. holds' = [holds EXCEPT ![w] = "none"]
    BY DEF Park, EndTask
  <2>2. CASE holds[w] = "today"
    BY <2>1, <2>2 DEF TypeInv, TypeOK, CapRow
  <2>3. CASE holds[w] # "today"
    BY <2>1, <2>3 DEF TypeInv, TypeOK, CapRow, Park, CommitUsage
  <2> QED BY <2>2, <2>3
<1> QED BY <1>5, <1>6 DEF TypeInv

LEMMA CompleteTypeInv ==
  ASSUME TypeInv, NEW w \in Worker, Complete(w)
  PROVE  TypeInv'
<1> DEFINE j == snap[w].job
<1>1. TypeOK /\ SetRow(j, Done, tid[j], attempts[j], wait[j]) /\ EndTask(w)
  BY DEF TypeInv, Complete
<1>2. j \in Job => /\ tid[j] \in 0 .. MaxSubmissions /\ attempts[j] \in Nat
                   /\ wait[j] \in {"none", "backoff", "midnight"}
  BY <1>1 DEF TypeOK
<1>3. Done \in JobState
  BY DEF JobState
<1> HIDE DEF j
<1>4. TypeOK'
  BY <1>1, <1>2, <1>3, SetRowType, EndTaskType DEF TypeOK, Complete
<1>5. CapRow'
  BY DEF TypeInv, TypeOK, CapRow, Complete, EndTask
<1> QED BY <1>4, <1>5 DEF TypeInv

LEMMA FailTypeInv ==
  ASSUME TypeInv, NEW w \in Worker, NEW fatal \in BOOLEAN, Fail(w, fatal)
  PROVE  TypeInv'
<1> DEFINE j == snap[w].job
           a == snap[w].attempts + 1
<1>1. TypeOK /\ EndTask(w)
  BY DEF TypeInv, Fail
<1>2. \/ SetRow(j, Failed, tid[j], a, wait[j])
      \/ SetRow(j, state[j], tid[j], a, "backoff")
  BY DEF Fail
<1>3. a \in Nat /\ Failed \in JobState
  BY <1>1 DEF TypeOK, Claimed, JobState
<1>4. j \in Job => /\ state[j] \in JobState /\ tid[j] \in 0 .. MaxSubmissions
                   /\ wait[j] \in {"none", "backoff", "midnight"}
  BY <1>1 DEF TypeOK
<1> HIDE DEF j, a
<1>5. TypeOK'
  <2>1. CASE SetRow(j, Failed, tid[j], a, wait[j])
    BY <1>1, <1>3, <1>4, <2>1, SetRowType, EndTaskType DEF TypeOK, Fail
  <2>2. CASE SetRow(j, state[j], tid[j], a, "backoff")
    BY <1>1, <1>3, <1>4, <2>2, SetRowType, EndTaskType DEF TypeOK, Fail
  <2> QED BY <1>2, <2>1, <2>2
<1>6. CapRow'
  BY DEF TypeInv, TypeOK, CapRow, Fail, EndTask
<1> QED BY <1>5, <1>6 DEF TypeInv

LEMMA TaskLostTypeInv ==
  ASSUME TypeInv, NEW w \in Worker, TaskLost(w)
  PROVE  TypeInv'
<1>1. TypeOK'
  BY EndTaskType, QueueAssumption DEF TypeInv, TypeOK, TaskLost, rowVars
<1>2. CapRow'
  BY DEF TypeInv, TypeOK, CapRow, TaskLost, EndTask
<1> QED BY <1>1, <1>2 DEF TypeInv

(***************************************************************************)
(* Provider, webhook, reconciler and time.                                 *)
(***************************************************************************)
LEMMA TranscribeTypeInv ==
  ASSUME TypeInv, NEW j \in Job, NEW n \in Number, Transcribe(j, n)
  PROVE  TypeInv'
<1>1. transcript' \in [Job -> [Number -> Answer]]
  BY DEF TypeInv, TypeOK, Transcribe, Answer
<1>2. TypeOK'
  BY <1>1 DEF TypeInv, TypeOK, Transcribe, rowVars, taskVars
<1>3. CapRow'
  BY DEF TypeInv, CapRow, Transcribe, taskVars
<1> QED BY <1>2, <1>3 DEF TypeInv

LEMMA WebhookTypeInv ==
  ASSUME TypeInv, NEW j \in Job, NEW n \in Number, Webhook(j, n)
  PROVE  TypeInv'
<1>1. TypeOK
  BY DEF TypeInv
<1>2. \/ SetRow(j, PendingJudge, tid[j], attempts[j], "none")
      \/ SetRow(j, Failed, tid[j], attempts[j], wait[j])
  BY DEF Webhook, AdvanceRow
<1>3. /\ tid[j] \in 0 .. MaxSubmissions /\ attempts[j] \in Nat
      /\ wait[j] \in {"none", "backoff", "midnight"}
      /\ PendingJudge \in JobState /\ Failed \in JobState
  BY <1>1 DEF TypeOK, JobState
<1>4. /\ state' \in [Job -> JobState] /\ tid' \in [Job -> 0 .. MaxSubmissions]
      /\ attempts' \in [Job -> Nat] /\ wait' \in [Job -> {"none", "backoff", "midnight"}]
      /\ lease' \in [Job -> {"none", "live", "expired"}] /\ overdue' \in [Job -> BOOLEAN]
  <2>1. CASE SetRow(j, PendingJudge, tid[j], attempts[j], "none")
    BY <1>1, <1>3, <2>1, SetRowType
  <2>2. CASE SetRow(j, Failed, tid[j], attempts[j], wait[j])
    BY <1>1, <1>3, <2>2, SetRowType
  <2> QED BY <1>2, <2>1, <2>2
<1>5. TypeOK'
  BY <1>1, <1>4 DEF TypeOK, Webhook, taskVars
<1>6. CapRow'
  BY DEF TypeInv, CapRow, Webhook, taskVars
<1> QED BY <1>5, <1>6 DEF TypeInv

\* Nothing but the sweeps changes.
LEMMA SweepOnlyTypeInv ==
  ASSUME TypeInv, sweep' \in [Sweeper -> Sweep], UNCHANGED <<rowVars, taskVars, used, transcript>>,
         crashes' \in 0 .. MaxCrashes
  PROVE  TypeInv'
  BY DEF TypeInv, TypeOK, CapRow, rowVars, taskVars

LEMMA NoSweepType == NoSweep \in Sweep
  BY DEF NoSweep, Sweep, Item, NoItem, Answer, SweepWrite

LEMMA SweepStartsTypeInv ==
  ASSUME TypeInv, NEW r \in Sweeper, SweepStarts(r)
  PROVE  TypeInv'
<1> DEFINE late == {j \in Job : state[j] = AwaitingTranscript /\ overdue[j]}
           todo == {[job |-> j, tid |-> tid[j]] : j \in late}
<1>1. todo \subseteq Item
  BY DEF TypeInv, TypeOK, Item
<1>2. sweep' = [sweep EXCEPT ![r] = [NoSweep EXCEPT !.on = TRUE, !.todo = todo]]
  BY DEF SweepStarts
<1> HIDE DEF todo
<1>3. [NoSweep EXCEPT !.on = TRUE, !.todo = todo] \in Sweep
  BY <1>1, NoSweepType DEF Sweep
<1>4. sweep' \in [Sweeper -> Sweep]
  BY <1>2, <1>3 DEF TypeInv, TypeOK
<1>5. UNCHANGED <<rowVars, taskVars, used, transcript>> /\ crashes' \in 0 .. MaxCrashes
  BY DEF SweepStarts, TypeInv, TypeOK
<1> QED BY <1>4, <1>5, SweepOnlyTypeInv

LEMMA PollTypeInv ==
  ASSUME TypeInv, NEW r \in Sweeper, Poll(r)
  PROVE  TypeInv'
<1>1. PICK i \in sweep[r].todo : sweep' = [sweep EXCEPT
            ![r].todo = @ \ {i},
            ![r].asked = i,
            ![r].answer = IF i.tid = 0 THEN "error" ELSE transcript[i.job][i.tid]]
  BY DEF Poll
<1>2. sweep \in [Sweeper -> Sweep] /\ sweep[r] \in Sweep
  BY DEF TypeInv, TypeOK
<1>3. i \in Item
  BY <1>2 DEF Sweep
<1>4. (IF i.tid = 0 THEN "error" ELSE transcript[i.job][i.tid]) \in Answer
  BY <1>3, QueueAssumption DEF TypeInv, TypeOK, Item, Number, Answer
<1> DEFINE answer == IF i.tid = 0 THEN "error" ELSE transcript[i.job][i.tid]
<1> HIDE DEF answer
<1>5. sweep' \in [Sweeper -> Sweep]
  BY <1>1, <1>2, <1>3, <1>4 DEF Sweep, answer
<1>6. UNCHANGED <<rowVars, taskVars, used, transcript>> /\ crashes' \in 0 .. MaxCrashes
  BY DEF Poll, TypeInv, TypeOK
<1> QED BY <1>5, <1>6, SweepOnlyTypeInv

LEMMA RecordTypeInv ==
  ASSUME TypeInv, NEW r \in Sweeper, Record(r)
  PROVE  TypeInv'
<1> DEFINE i == sweep[r].asked
           v == Verdict(i, sweep[r].answer)
<1>1. sweep' = [sweep EXCEPT ![r].asked = NoItem, ![r].answer = "none", ![r].writes[i.job] = v]
  BY DEF Record
<1>2. sweep \in [Sweeper -> Sweep] /\ sweep[r] \in Sweep
  BY DEF TypeInv, TypeOK
<1>3. v \in SweepWrite /\ "none" \in Answer
  BY DEF Verdict, SweepWrite, Answer
<1> HIDE DEF i, v
<1>4. sweep' \in [Sweeper -> Sweep]
  BY <1>1, <1>2, <1>3 DEF Sweep
<1>5. UNCHANGED <<rowVars, taskVars, used, transcript>> /\ crashes' \in 0 .. MaxCrashes
  BY DEF Record, TypeInv, TypeOK
<1> QED BY <1>4, <1>5, SweepOnlyTypeInv

LEMMA SweepEndsTypeInv ==
  ASSUME TypeInv, NEW r \in Sweeper, PollRaises(r) \/ SweepLost(r)
  PROVE  TypeInv'
<1>1. sweep' \in [Sweeper -> Sweep]
  BY NoSweepType DEF TypeInv, TypeOK, PollRaises, SweepLost
<1>2. UNCHANGED <<rowVars, taskVars, used, transcript>>
  BY DEF PollRaises, SweepLost
<1>3. crashes' = crashes \/ (crashes < MaxCrashes /\ crashes' = crashes + 1)
  BY DEF PollRaises, SweepLost
<1>4. crashes' \in 0 .. MaxCrashes
  BY <1>3, QueueAssumption DEF TypeInv, TypeOK
<1> QED BY <1>1, <1>2, <1>4, SweepOnlyTypeInv

LEMMA SweepCommitsTypeInv ==
  ASSUME TypeInv, NEW r \in Sweeper, SweepCommits(r)
  PROVE  TypeInv'
<1>1. sweep' \in [Sweeper -> Sweep]
  BY NoSweepType DEF TypeInv, TypeOK, SweepCommits
<1>2. TypeOK'
  BY <1>1 DEF TypeInv, TypeOK, SweepCommits, JobState, taskVars
<1>3. CapRow'
  BY DEF TypeInv, CapRow, SweepCommits, taskVars
<1> QED BY <1>2, <1>3 DEF TypeInv

LEMMA TimeTypeInv ==
  ASSUME TypeInv,
         NewDay \/ \E j \in Job : LeaseExpires(j) \/ BackoffElapses(j) \/ OverdueElapses(j)
  PROVE  TypeInv'
<1>1. CASE NewDay
  BY <1>1, QueueAssumption DEF TypeInv, TypeOK, CapRow, NewDay
<1>2. ASSUME NEW j \in Job, LeaseExpires(j) \/ BackoffElapses(j) \/ OverdueElapses(j)
      PROVE  TypeInv'
  BY <1>2 DEF TypeInv, TypeOK, CapRow, LeaseExpires, BackoffElapses, OverdueElapses, taskVars
<1> QED BY <1>1, <1>2

(***************************************************************************)
(* Type correctness and the daily cap.                                     *)
(***************************************************************************)
LEMMA NextTypeInv == TypeInv /\ [Next]_vars => TypeInv'
<1> SUFFICES ASSUME TypeInv, [Next]_vars PROVE TypeInv'
  OBVIOUS
<1>1. CASE UNCHANGED vars
  BY <1>1 DEF TypeInv, TypeOK, CapRow, vars, rowVars, taskVars
<1>2. ASSUME NEW w \in Worker, NEW j \in Job, Claim(w, j) PROVE TypeInv'
  BY <1>2, ClaimTypeInv
<1>3. ASSUME NEW w \in Worker, TaskStep(w) \/ TaskLost(w) PROVE TypeInv'
  BY <1>3, ReserveTypeInv, DeferTypeInv, SubmitTypeInv, ParkTypeInv, CompleteTypeInv, FailTypeInv,
     TaskLostTypeInv DEF TaskStep
<1>4. ASSUME NEW j \in Job, NEW n \in Number, Transcribe(j, n) \/ Webhook(j, n) PROVE TypeInv'
  BY <1>4, TranscribeTypeInv, WebhookTypeInv
<1>5. ASSUME NEW r \in Sweeper, SweepStarts(r) \/ SweepStep(r) \/ SweepLost(r) PROVE TypeInv'
  BY <1>5, SweepStartsTypeInv, PollTypeInv, RecordTypeInv, SweepEndsTypeInv, SweepCommitsTypeInv
     DEF SweepStep
<1>6. ASSUME NewDay \/ \E j \in Job : LeaseExpires(j) \/ BackoffElapses(j) \/ OverdueElapses(j)
      PROVE TypeInv'
  BY <1>6, TimeTypeInv
<1> QED BY <1>1, <1>2, <1>3, <1>4, <1>5, <1>6 DEF Next

\* In every reachable state the variables have their types: in particular the
\* committed use of the day never passes the cap.
THEOREM TypeCorrect == Spec => []TypeOK
<1>1. Spec => []TypeInv
  BY InitTypeInv, NextTypeInv, PTL DEF Spec
<1> QED BY <1>1, PTL DEF TypeInv

\* Committed and uncommitted reservations of a day stay within the cap, whatever
\* the number of tasks, leases that run out and crashes included.
THEOREM CapSafe == Spec => []CapNotOversold
<1>1. Spec => []TypeInv
  BY InitTypeInv, NextTypeInv, PTL DEF Spec
<1>2. TypeInv => CapNotOversold
  <2> SUFFICES ASSUME TypeInv PROVE CapNotOversold
    OBVIOUS
  <2> DEFINE H == {w \in Worker : holds[w] = "today"}
  <2>1. CASE H = {}
    <3>1. Cardinality(H) = 0
      BY <2>1, FS_EmptySet
    <3>2. used + 0 <= Cap
      BY QueueAssumption DEF TypeInv, TypeOK
    <3> QED BY <3>1, <3>2 DEF CapNotOversold
  <2>2. CASE H # {}
    <3>1. PICK w \in Worker : holds[w] = "today"
      BY <2>2
    <3>2. H = {w} /\ used + 1 <= Cap
      BY <3>1, QueueAssumption DEF TypeInv, TypeOK, CapRow
    <3>3. Cardinality(H) = 1
      BY <3>2, FS_Singleton
    <3> QED BY <3>2, <3>3 DEF CapNotOversold
  <2> QED BY <2>1, <2>2
<1> QED BY <1>1, <1>2, PTL
=============================================================================
