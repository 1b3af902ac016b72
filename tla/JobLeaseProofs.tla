--------------------------- MODULE JobLeaseProofs ---------------------------
(***************************************************************************)
(* What the lease buys, for every value of the constants.  While no lease  *)
(* runs out under a task that still works (LeaseOutlivesStep), the queue   *)
(* keeps LeaseInv, and from it the safety properties of JobQueue follow    *)
(* for any number of jobs, slots, reconcilers, webhooks and crashes.       *)
(***************************************************************************)
EXTENDS JobQueueProofs

(***************************************************************************)
(* The inductive invariant.                                                *)
(***************************************************************************)

\* A task works on the row as it claimed it, under a live lease, and only the first
\* stage reserves and submits.
TaskInv ==
  \A w \in Worker : pc[w] # "idle" =>
    LET j == snap[w].job IN
    /\ j \in Job
    /\ snap[w] = [job |-> j, state |-> state[j], attempts |-> attempts[j], tid |-> tid[j]]
    /\ state[j] \in Claimable
    /\ lease[j] = "live"
    /\ pc[w] # "claimed" => state[j] = PendingTranscription
    /\ pc[w] = "submitted" => got[w] \in Number /\ transcript[j][got[w]] # "none"

\* What state s, transcript id t and attempts a of a row say of one another.
RowOK(j, s, t, a) ==
  /\ s = PendingTranscription => t = 0
  /\ t # 0 => transcript[j][t] # "none"
  /\ s \in {AwaitingTranscript, PendingJudge, Done} => t # 0
  /\ s \in {PendingJudge, Done} => transcript[j][t] = "ready"
  /\ a <= MaxAttempts
  /\ s \notin Terminal => a < MaxAttempts

RowInv == \A j \in Job : RowOK(j, state[j], tid[j], attempts[j])

\* A sweep's list stays true of the rows, its answers stay true of the provider, and
\* a row it has written is still one the write is legal for.
ListInv ==
  \A r \in Sweeper : \A i \in sweep[r].todo \cup {sweep[r].asked} :
    i # NoItem => i.tid # 0 /\ tid[i.job] = i.tid

AnswerInv ==
  \A r \in Sweeper :
    LET i == sweep[r].asked IN
    i # NoItem => /\ sweep[r].answer = "ready" => transcript[i.job][i.tid] = "ready"
                  /\ sweep[r].answer = "error" => transcript[i.job][i.tid] = "error"

WriteInv ==
  \A r \in Sweeper, j \in Job :
    /\ sweep[r].writes[j] = "advance" =>
         state[j] = AwaitingTranscript /\ tid[j] # 0 /\ transcript[j][tid[j]] = "ready"
    /\ sweep[r].writes[j] = "fail" =>
         state[j] \in {AwaitingTranscript, Failed} /\ tid[j] # 0 /\ transcript[j][tid[j]] = "error"

OneWriter ==
  \A q, r \in Sweeper, j \in Job :
    sweep[q].writes[j] # "none" /\ sweep[r].writes[j] # "none" => q = r

SweepInv == ListInv /\ AnswerInv /\ WriteInv /\ OneWriter

LeaseInv == TypeInv /\ OneTaskPerJob /\ TaskInv /\ RowInv /\ SweepInv

LEMMA InitLeaseInv == Init => LeaseInv
<1> SUFFICES ASSUME Init PROVE LeaseInv
  OBVIOUS
<1>1. TypeInv
  BY InitTypeInv
<1>2. OneTaskPerJob /\ TaskInv
  BY DEF Init, OneTaskPerJob, TaskInv, Working
<1>3. RowInv
  BY QueueAssumption DEF Init, RowInv, RowOK, PendingTranscription, AwaitingTranscript, PendingJudge, Done
<1>4. SweepInv
  BY DEF Init, SweepInv, ListInv, AnswerInv, WriteInv, OneWriter, NoSweep, NoItem
<1> QED BY <1>1, <1>2, <1>3, <1>4 DEF LeaseInv

(***************************************************************************)
(* What a write by row id leaves alone.                                    *)
(***************************************************************************)

\* A write to a row that no sweep has written, which gives no new transcript id to a
\* row that has one, disturbs no sweep.
LEMMA SetRowSweeps ==
  ASSUME LeaseInv, NEW j \in Job, NEW s, NEW t, NEW a, NEW n, SetRow(j, s, t, a, n),
         tid[j] = 0 \/ t = tid[j], UNCHANGED <<sweep, transcript>>
  PROVE  SweepInv'
<1>1. TypeOK /\ ListInv /\ AnswerInv /\ WriteInv /\ OneWriter
  BY DEF LeaseInv, TypeInv, SweepInv
<1>2. /\ state' = [state EXCEPT ![j] = s] /\ tid' = [tid EXCEPT ![j] = t]
      /\ \A r \in Sweeper : sweep[r].writes[j] = "none"
  BY DEF SetRow, RowLocked
<1>3. \A r \in Sweeper : \A i \in sweep[r].todo \cup {sweep[r].asked} : i # NoItem => i.job \in Job
  BY <1>1 DEF TypeOK, Sweep, Item
<1>4. ListInv'
  BY <1>1, <1>2, <1>3 DEF TypeOK, ListInv
<1>5. AnswerInv'
  BY <1>1 DEF AnswerInv
<1>6. WriteInv'
  BY <1>1, <1>2 DEF TypeOK, WriteInv
<1>7. OneWriter'
  BY <1>1 DEF OneWriter
<1> QED BY <1>4, <1>5, <1>6, <1>7 DEF SweepInv

\* A task that writes its own row and ends disturbs no other task.
LEMMA TaskEnds ==
  ASSUME LeaseInv, NEW w \in Worker, pc[w] # "idle", NEW s, NEW t, NEW a, NEW n,
         SetRow(snap[w].job, s, t, a, n), EndTask(w), UNCHANGED transcript
  PROVE  OneTaskPerJob' /\ TaskInv'
<1> DEFINE j == snap[w].job
<1>1. TypeOK /\ OneTaskPerJob /\ TaskInv
  BY DEF LeaseInv, TypeInv
<1>2. j \in Job
  BY <1>1 DEF TaskInv
<1>3. pc'[w] = "idle" /\ \A v \in Worker \ {w} : pc'[v] = pc[v] /\ snap'[v] = snap[v] /\ got'[v] = got[v]
  BY <1>1 DEF EndTask, TypeOK
<1>4. \A v \in Worker \ {w} : pc[v] # "idle" => snap[v].job # j
  BY <1>1, <1>2 DEF OneTaskPerJob, Working
<1>5. \A k \in Job \ {j} : /\ state'[k] = state[k] /\ tid'[k] = tid[k]
                           /\ attempts'[k] = attempts[k] /\ lease'[k] = lease[k]
  BY <1>1, <1>2 DEF SetRow, TypeOK
<1> HIDE DEF j
<1>6. OneTaskPerJob'
  BY <1>1, <1>3 DEF OneTaskPerJob, Working
<1>7. TaskInv'
  <2> SUFFICES ASSUME NEW v \in Worker, pc'[v] # "idle"
               PROVE  LET k == snap'[v].job IN
                      /\ k \in Job
                      /\ snap'[v] = [job |-> k, state |-> state'[k], attempts |-> attempts'[k],
                                     tid |-> tid'[k]]
                      /\ state'[k] \in Claimable
                      /\ lease'[k] = "live"
                      /\ pc'[v] # "claimed" => state'[k] = PendingTranscription
                      /\ pc'[v] = "submitted" => got'[v] \in Number /\ transcript'[k][got'[v]] # "none"
    BY DEF TaskInv
  <2>1. v # w /\ pc[v] # "idle" /\ snap'[v] = snap[v] /\ snap[v].job \in Job \ {j}
    BY <1>1, <1>3, <1>4 DEF TaskInv
  <2> QED BY <2>1, <1>1, <1>3, <1>5 DEF TaskInv
<1> QED BY <1>6, <1>7
\* A write that is right for its row keeps RowInv.
LEMMA SetRowRows ==
  ASSUME LeaseInv, NEW j \in Job, NEW s, NEW t, NEW a, NEW n, SetRow(j, s, t, a, n),
         RowOK(j, s, t, a), UNCHANGED transcript
  PROVE  RowInv'
<1>1. TypeOK /\ RowInv
  BY DEF LeaseInv, TypeInv
<1>2. /\ state' = [state EXCEPT ![j] = s] /\ tid' = [tid EXCEPT ![j] = t]
      /\ attempts' = [attempts EXCEPT ![j] = a]
  BY DEF SetRow
<1>3. \A k \in Job : RowOK(k, state'[k], tid'[k], attempts'[k])
  BY <1>1, <1>2 DEF TypeOK, RowInv
<1> QED BY <1>3 DEF RowInv, RowOK

\* Transcripts only go on: what has an answer keeps it.
Grows ==
  \A j \in Job, n \in Number :
    \/ transcript'[j][n] = transcript[j][n]
    \/ transcript[j][n] \in {"none", "processing"} /\ transcript'[j][n] # "none"

LEMMA GrowsKeeps ==
  ASSUME LeaseInv, Grows, UNCHANGED <<state, tid, attempts>>
  PROVE  RowInv' /\ (UNCHANGED sweep => SweepInv')
<1>1. TypeOK /\ RowInv /\ SweepInv
  BY DEF LeaseInv, TypeInv
<1>2. \A j \in Job : tid[j] # 0 => tid[j] \in Number
  BY <1>1, QueueAssumption DEF TypeOK, Number
<1>3. RowInv'
  BY <1>1, <1>2 DEF RowInv, RowOK, Grows
<1>4. ASSUME UNCHANGED sweep PROVE SweepInv'
  <2>1. ListInv' /\ OneWriter'
    BY <1>1, <1>4 DEF SweepInv, ListInv, OneWriter
  <2>2. WriteInv'
    BY <1>1, <1>2, <1>4 DEF SweepInv, WriteInv, Grows
  <2>3. AnswerInv'
    <3>1. \A r \in Sweeper : sweep[r].asked # NoItem =>
            sweep[r].asked.job \in Job /\ sweep[r].asked.tid \in Number
      BY <1>1, QueueAssumption DEF TypeOK, Sweep, Item, SweepInv, ListInv, Number
    <3> QED BY <1>1, <1>4, <3>1 DEF SweepInv, AnswerInv, Grows
  <2> QED BY <2>1, <2>2, <2>3 DEF SweepInv
<1> QED BY <1>3, <1>4

\* Tasks that are not touched, over rows they work on that are not touched.
LEMMA TasksStand ==
  ASSUME LeaseInv, Grows, UNCHANGED <<pc, snap, got>>,
         \A w \in Worker : pc[w] # "idle" =>
           LET k == snap[w].job IN
           /\ state'[k] = state[k] /\ tid'[k] = tid[k]
           /\ attempts'[k] = attempts[k] /\ lease'[k] = lease[k]
  PROVE  OneTaskPerJob' /\ TaskInv'
<1>1. OneTaskPerJob /\ TaskInv
  BY DEF LeaseInv
<1>2. OneTaskPerJob'
  BY <1>1 DEF OneTaskPerJob, Working
<1>3. TaskInv'
  BY <1>1 DEF TaskInv, Grows
<1> QED BY <1>2, <1>3

LEMMA SameGrows == UNCHANGED transcript => Grows
  BY DEF Grows

\* The columns of a claim, one by one.
LEMMA Current ==
  ASSUME TaskInv, NEW w \in Worker, pc[w] # "idle"
  PROVE  LET j == snap[w].job IN
         /\ j \in Job
         /\ snap[w].state = state[j]
         /\ snap[w].attempts = attempts[j]
         /\ snap[w].tid = tid[j]
         /\ state[j] \in Claimable
<1> DEFINE j == snap[w].job
<1>1. /\ j \in Job /\ state[j] \in Claimable
      /\ snap[w] = [job |-> j, state |-> state[j], attempts |-> attempts[j], tid |-> tid[j]]
  BY DEF TaskInv
<1> HIDE DEF j
<1>2. snap[w].state = state[j] /\ snap[w].attempts = attempts[j] /\ snap[w].tid = tid[j]
  BY <1>1
<1> QED BY <1>1, <1>2 DEF j

(***************************************************************************)
(* Tasks: each keeps LeaseInv, its type part apart.                        *)
(***************************************************************************)
Core == OneTaskPerJob /\ TaskInv /\ RowInv /\ SweepInv

LEMMA ClaimCore ==
  ASSUME LeaseInv, NEW w \in Worker, NEW j \in Job, Claim(w, j)
  PROVE  Core'
<1>1. TypeOK /\ OneTaskPerJob /\ TaskInv
  BY DEF LeaseInv, TypeInv
<1>2. /\ pc' = [pc EXCEPT ![w] = "claimed"] /\ lease' = [lease EXCEPT ![j] = "live"]
      /\ snap' = [snap EXCEPT ![w] = [job |-> j, state |-> state[j],
                                      attempts |-> attempts[j], tid |-> tid[j]]]
      /\ state[j] \in Claimable
      /\ UNCHANGED <<state, tid, attempts, got, sweep, transcript>>
  BY DEF Claim
<1>3. \A v \in Worker : pc[v] # "idle" => snap[v].job # j
  BY <1>1 DEF Claim, Unleased, TaskInv
<1>4. OneTaskPerJob'
  BY <1>1, <1>2, <1>3 DEF TypeOK, OneTaskPerJob, Working
<1>5. TaskInv'
  <2> SUFFICES ASSUME NEW v \in Worker, pc'[v] # "idle"
               PROVE  LET k == snap'[v].job IN
                      /\ k \in Job
                      /\ snap'[v] = [job |-> k, state |-> state'[k], attempts |-> attempts'[k],
                                     tid |-> tid'[k]]
                      /\ state'[k] \in Claimable
                      /\ lease'[k] = "live"
                      /\ pc'[v] # "claimed" => state'[k] = PendingTranscription
                      /\ pc'[v] = "submitted" => got'[v] \in Number /\ transcript'[k][got'[v]] # "none"
    BY DEF TaskInv
  <2>1. CASE v = w
    BY <2>1, <1>1, <1>2 DEF TypeOK
  <2>2. CASE v # w
    BY <2>2, <1>1, <1>2, <1>3 DEF TypeOK, TaskInv
  <2> QED BY <2>1, <2>2
<1>6. RowInv' /\ SweepInv'
  BY <1>2, SameGrows, GrowsKeeps
<1> QED BY <1>4, <1>5, <1>6 DEF Core

LEMMA ReserveCore ==
  ASSUME LeaseInv, NEW w \in Worker, Reserve(w)
  PROVE  Core'
<1>1. TypeOK /\ OneTaskPerJob /\ TaskInv
  BY DEF LeaseInv, TypeInv
<1>2. /\ pc' = [pc EXCEPT ![w] = "reserved"] /\ pc[w] = "claimed"
      /\ snap[w].state = PendingTranscription
      /\ UNCHANGED <<state, tid, attempts, lease, snap, got, sweep, transcript>>
  BY DEF Reserve, AtCap, rowVars
<1>3. OneTaskPerJob'
  BY <1>1, <1>2 DEF TypeOK, OneTaskPerJob, Working
<1>4. state[snap[w].job] = PendingTranscription
  BY <1>1, <1>2, Current
<1>5. TaskInv'
  BY <1>1, <1>2, <1>4 DEF TypeOK, TaskInv
<1>6. RowInv' /\ SweepInv'
  BY <1>2, SameGrows, GrowsKeeps
<1> QED BY <1>3, <1>5, <1>6 DEF Core

LEMMA SubmitCore ==
  ASSUME LeaseInv, NEW w \in Worker, Submit(w)
  PROVE  Core'
<1> DEFINE j == snap[w].job
<1>1. TypeOK /\ OneTaskPerJob /\ TaskInv
  BY DEF LeaseInv, TypeInv
<1>2. PICK n \in Number : /\ transcript[j][n] = "none"
                         /\ transcript' = [transcript EXCEPT ![j][n] = "processing"]
                         /\ got' = [got EXCEPT ![w] = n]
  BY DEF Submit
<1>3. /\ pc' = [pc EXCEPT ![w] = "submitted"] /\ pc[w] \in {"reserved", "submitted"}
      /\ UNCHANGED <<state, tid, attempts, lease, snap, sweep>>
  BY DEF Submit, rowVars
<1>4. j \in Job /\ state[j] = PendingTranscription
  BY <1>1, <1>3 DEF TaskInv
<1>5. Grows /\ transcript'[j][n] = "processing"
  <2> HIDE DEF j
  <2> QED BY <1>1, <1>2, <1>4 DEF TypeOK, Grows
<1>6. OneTaskPerJob'
  BY <1>1, <1>3 DEF TypeOK, OneTaskPerJob, Working
<1>7. TaskInv'
  <2> SUFFICES ASSUME NEW v \in Worker, pc'[v] # "idle"
               PROVE  LET k == snap'[v].job IN
                      /\ k \in Job
                      /\ snap'[v] = [job |-> k, state |-> state'[k], attempts |-> attempts'[k],
                                     tid |-> tid'[k]]
                      /\ state'[k] \in Claimable
                      /\ lease'[k] = "live"
                      /\ pc'[v] # "claimed" => state'[k] = PendingTranscription
                      /\ pc'[v] = "submitted" => got'[v] \in Number /\ transcript'[k][got'[v]] # "none"
    BY DEF TaskInv
  <2>1. CASE v = w
    <3>1. got'[v] = n /\ snap'[v] = snap[w] /\ pc[w] # "idle"
      BY <2>1, <1>1, <1>2, <1>3 DEF TypeOK
    <3> QED BY <3>1, <2>1, <1>1, <1>3, <1>4, <1>5 DEF TaskInv
  <2>2. CASE v # w
    <3>1. got'[v] = got[v] /\ pc'[v] = pc[v] /\ snap'[v] = snap[v]
      BY <2>2, <1>1, <1>2, <1>3 DEF TypeOK
    <3> QED BY <3>1, <1>1, <1>3, <1>5 DEF TaskInv, Grows
  <2> QED BY <2>1, <2>2
<1>8. RowInv' /\ SweepInv'
  BY <1>3, <1>5, GrowsKeeps
<1> QED BY <1>6, <1>7, <1>8 DEF Core
LEMMA DeferCore ==
  ASSUME LeaseInv, NEW w \in Worker, Defer(w)
  PROVE  Core'
<1> DEFINE j == snap[w].job
<1>1. pc[w] # "idle" /\ UNCHANGED <<sweep, transcript>> /\ TaskInv /\ RowInv
  BY DEF Defer, AtCap, LeaseInv
<1>2. SetRow(j, state[j], tid[j], attempts[j], "midnight") /\ EndTask(w)
  BY DEF Defer
<1>3. j \in Job /\ RowOK(j, state[j], tid[j], attempts[j])
  BY <1>1, Current DEF RowInv
<1>4. OneTaskPerJob' /\ TaskInv'
  BY <1>1, <1>2, TaskEnds
<1> HIDE DEF j
<1>5. RowInv' /\ SweepInv'
  BY <1>1, <1>2, <1>3, SetRowRows, SetRowSweeps
<1> QED BY <1>4, <1>5 DEF Core

\* What Park does to the row: it was pending with no transcript, and now names the one
\* that the provider has just accepted.
LEMMA ParkRow ==
  ASSUME LeaseInv, NEW w \in Worker, Park(w)
  PROVE  LET j == snap[w].job IN
         /\ j \in Job /\ state[j] = PendingTranscription /\ tid[j] = 0
         /\ ParkTid(w) \in Number /\ transcript[j][ParkTid(w)] # "none"
<1> DEFINE j == snap[w].job
<1>1. pc[w] # "idle" /\ TypeOK /\ TaskInv /\ RowInv
  BY DEF Park, LeaseInv, TypeInv
<1>2. /\ j \in Job /\ snap[w].state = state[j] /\ snap[w].tid = tid[j]
      /\ state[j] \in Claimable
  BY <1>1, Current
<1>3. state[j] = PendingTranscription
  BY <1>1, <1>2 DEF Park, TaskInv
<1>4. tid[j] = 0
  BY <1>1, <1>2, <1>3 DEF RowInv, RowOK
<1>5. pc[w] = "submitted"
  BY <1>2, <1>4 DEF Park
<1>6. ParkTid(w) = got[w] /\ got[w] \in Number /\ transcript[j][got[w]] # "none"
  BY <1>1, <1>2, <1>4, <1>5 DEF ParkTid, TaskInv
<1> QED BY <1>2, <1>3, <1>4, <1>6

LEMMA ParkCore ==
  ASSUME LeaseInv, NEW w \in Worker, Park(w)
  PROVE  Core'
<1> DEFINE j == snap[w].job
<1>1. pc[w] # "idle" /\ UNCHANGED <<sweep, transcript>> /\ RowInv
  BY DEF Park, LeaseInv
<1>2. SetRow(j, AwaitingTranscript, ParkTid(w), attempts[j], wait[j]) /\ EndTask(w)
  BY DEF Park
<1>3. /\ j \in Job /\ state[j] = PendingTranscription /\ tid[j] = 0
      /\ ParkTid(w) \in Number /\ transcript[j][ParkTid(w)] # "none"
  BY ParkRow
<1>4. OneTaskPerJob' /\ TaskInv'
  BY <1>1, <1>2, TaskEnds
<1> HIDE DEF j
<1>5. RowOK(j, AwaitingTranscript, ParkTid(w), attempts[j])
  BY <1>1, <1>3 DEF RowInv, RowOK, Number, Terminal, PendingTranscription, AwaitingTranscript,
     PendingJudge, Done, Failed
<1>6. RowInv' /\ SweepInv'
  BY <1>1, <1>2, <1>3, <1>5, SetRowRows, SetRowSweeps
<1> QED BY <1>4, <1>6 DEF Core

LEMMA CompleteCore ==
  ASSUME LeaseInv, NEW w \in Worker, Complete(w)
  PROVE  Core'
<1> DEFINE j == snap[w].job
<1>1. pc[w] # "idle" /\ UNCHANGED <<sweep, transcript>> /\ TaskInv /\ RowInv
  BY DEF Complete, LeaseInv
<1>2. SetRow(j, Done, tid[j], attempts[j], wait[j]) /\ EndTask(w) /\ snap[w].state = PendingJudge
  BY DEF Complete
<1>3. j \in Job /\ state[j] = PendingJudge
  BY <1>1, <1>2, Current
<1>4. OneTaskPerJob' /\ TaskInv'
  BY <1>1, <1>2, TaskEnds
<1> HIDE DEF j
<1>5. RowOK(j, Done, tid[j], attempts[j])
  BY <1>1, <1>3 DEF RowInv, RowOK, Terminal, PendingTranscription, AwaitingTranscript,
     PendingJudge, Done, Failed
<1>6. RowInv' /\ SweepInv'
  BY <1>1, <1>2, <1>3, <1>5, SetRowRows, SetRowSweeps
<1> QED BY <1>4, <1>6 DEF Core

LEMMA FailCore ==
  ASSUME LeaseInv, NEW w \in Worker, NEW fatal \in BOOLEAN, Fail(w, fatal)
  PROVE  Core'
<1> DEFINE j == snap[w].job
           a == snap[w].attempts + 1
           dead == fatal \/ a >= MaxAttempts
<1>1. /\ pc[w] # "idle" /\ UNCHANGED <<sweep, transcript>>
      /\ TypeOK /\ TaskInv /\ RowInv
  BY DEF Fail, LeaseInv, TypeInv
<1>2. /\ IF dead THEN SetRow(j, Failed, tid[j], a, wait[j])
                 ELSE SetRow(j, state[j], tid[j], a, "backoff")
      /\ EndTask(w)
  BY DEF Fail
<1>3. j \in Job /\ state[j] \in Claimable /\ snap[w].attempts = attempts[j]
  BY <1>1, Current
<1>4. OneTaskPerJob' /\ TaskInv'
  BY <1>1, <1>2, TaskEnds
<1>5. attempts[j] \in Nat /\ attempts[j] < MaxAttempts /\ RowOK(j, state[j], tid[j], attempts[j])
  BY <1>1, <1>3 DEF TypeOK, RowInv, RowOK, Claimable, Terminal, PendingTranscription,
     PendingJudge, Done, Failed
<1>6. a \in Nat /\ a <= MaxAttempts /\ a = attempts[j] + 1
  BY <1>3, <1>5, QueueAssumption
<1> HIDE DEF j, a
<1>7. CASE dead
  <2>1. RowOK(j, Failed, tid[j], a)
    BY <1>5, <1>6 DEF RowOK, Terminal, PendingTranscription, AwaitingTranscript,
       PendingJudge, Done, Failed
  <2>2. SetRow(j, Failed, tid[j], a, wait[j])
    BY <1>2, <1>7
  <2>3. RowInv' /\ SweepInv'
    BY <1>1, <1>3, <2>1, <2>2, SetRowRows, SetRowSweeps
  <2> QED BY <1>4, <2>3 DEF Core
<1>8. CASE ~dead
  <2>1. RowOK(j, state[j], tid[j], a)
    BY <1>5, <1>6, <1>8, QueueAssumption DEF RowOK
  <2>2. SetRow(j, state[j], tid[j], a, "backoff")
    BY <1>2, <1>8
  <2>3. RowInv' /\ SweepInv'
    BY <1>1, <1>3, <2>1, <2>2, SetRowRows, SetRowSweeps
  <2> QED BY <1>4, <2>3 DEF Core
<1> QED BY <1>7, <1>8

LEMMA TaskLostCore ==
  ASSUME LeaseInv, NEW w \in Worker, TaskLost(w)
  PROVE  Core'
<1>1. TypeOK /\ OneTaskPerJob /\ TaskInv
  BY DEF LeaseInv, TypeInv
<1>2. /\ pc'[w] = "idle"
      /\ \A v \in Worker \ {w} : pc'[v] = pc[v] /\ snap'[v] = snap[v] /\ got'[v] = got[v]
      /\ UNCHANGED <<state, tid, attempts, lease, sweep, transcript>>
  BY <1>1 DEF TaskLost, EndTask, TypeOK, rowVars
<1>3. OneTaskPerJob'
  BY <1>1, <1>2 DEF OneTaskPerJob, Working
<1>4. TaskInv'
  BY <1>1, <1>2 DEF TaskInv
<1>5. RowInv' /\ SweepInv'
  BY <1>2, SameGrows, GrowsKeeps
<1> QED BY <1>3, <1>4, <1>5 DEF Core
(***************************************************************************)
(* Provider and webhook.                                                   *)
(***************************************************************************)
LEMMA TranscribeCore ==
  ASSUME LeaseInv, NEW j \in Job, NEW n \in Number, Transcribe(j, n)
  PROVE  Core'
<1>1. Grows
  BY DEF Transcribe, Grows, LeaseInv, TypeInv, TypeOK
<1>2. UNCHANGED <<state, tid, attempts, lease, pc, snap, got, sweep>>
  BY DEF Transcribe, rowVars, taskVars
<1>3. OneTaskPerJob' /\ TaskInv'
  BY <1>1, <1>2, TasksStand
<1>4. RowInv' /\ SweepInv'
  BY <1>1, <1>2, GrowsKeeps
<1> QED BY <1>3, <1>4 DEF Core

LEMMA WebhookCore ==
  ASSUME LeaseInv, NEW j \in Job, NEW n \in Number, Webhook(j, n)
  PROVE  Core'
<1>1. /\ TypeOK /\ TaskInv /\ RowInv /\ UNCHANGED <<pc, snap, got, sweep, transcript>>
      /\ state[j] = AwaitingTranscript /\ tid[j] = n
  BY DEF Webhook, Matches, taskVars, LeaseInv, TypeInv
<1>2. RowOK(j, state[j], tid[j], attempts[j])
  BY <1>1 DEF RowInv
<1>3. PICK s \in {PendingJudge, Failed}, m \in {"none", wait[j]} :
        SetRow(j, s, tid[j], attempts[j], m) /\ (s = PendingJudge => transcript[j][n] = "ready")
  <2>1. CASE transcript[j][n] = "ready"
    BY <2>1, Zenon DEF Webhook, AdvanceRow
  <2>2. CASE transcript[j][n] # "ready"
    <3>1. SetRow(j, Failed, tid[j], attempts[j], wait[j]) /\ Failed # PendingJudge
      BY <2>2 DEF Webhook, Failed, PendingJudge
    <3> QED BY <3>1, Zenon
  <2> QED BY <2>1, <2>2
<1>4. RowOK(j, s, tid[j], attempts[j])
  BY <1>1, <1>2, <1>3, QueueAssumption DEF RowOK, TypeOK, Terminal, PendingTranscription,
     AwaitingTranscript, PendingJudge, Done, Failed
<1>5. RowInv' /\ SweepInv'
  BY <1>1, <1>3, <1>4, SetRowRows, SetRowSweeps
<1>6. ASSUME NEW w \in Worker, pc[w] # "idle"
      PROVE  LET k == snap[w].job IN
             /\ state'[k] = state[k] /\ tid'[k] = tid[k]
             /\ attempts'[k] = attempts[k] /\ lease'[k] = lease[k]
  <2>1. snap[w].job \in Job /\ state[snap[w].job] \in Claimable
    BY <1>1, <1>6, Current
  <2>2. snap[w].job # j
    BY <1>1, <2>1 DEF Claimable, PendingTranscription, AwaitingTranscript, PendingJudge
  <2> QED BY <1>1, <1>3, <2>1, <2>2 DEF SetRow, TypeOK
<1>7. OneTaskPerJob' /\ TaskInv'
  BY <1>1, <1>6, SameGrows, TasksStand
<1> QED BY <1>5, <1>7 DEF Core

(***************************************************************************)
(* Reconciler.                                                             *)
(***************************************************************************)

\* Nothing but the sweeps changes.
LEMMA SweepOnlyCore ==
  ASSUME LeaseInv, UNCHANGED <<rowVars, taskVars, transcript>>, SweepInv'
  PROVE  Core'
<1>1. UNCHANGED <<state, tid, attempts, lease, pc, snap, got, transcript>>
  BY DEF rowVars, taskVars
<1>2. OneTaskPerJob' /\ TaskInv'
  BY <1>1, SameGrows, TasksStand
<1>3. RowInv'
  BY <1>1, SameGrows, GrowsKeeps
<1> QED BY <1>2, <1>3 DEF Core

LEMMA SweepStartsCore ==
  ASSUME LeaseInv, NEW r \in Sweeper, SweepStarts(r)
  PROVE  Core'
<1> DEFINE todo == {[job |-> j, tid |-> tid[j]] : j \in {k \in Job : state[k] = AwaitingTranscript
                                                                /\ overdue[k]}}
<1>1. TypeOK /\ RowInv /\ ListInv /\ AnswerInv /\ WriteInv /\ OneWriter
  BY DEF LeaseInv, TypeInv, SweepInv
<1>2. /\ sweep' = [sweep EXCEPT ![r] = [NoSweep EXCEPT !.on = TRUE, !.todo = todo]]
      /\ UNCHANGED <<rowVars, taskVars, transcript>>
  BY DEF SweepStarts
<1>3. \A i \in todo : i.tid # 0 /\ tid[i.job] = i.tid
  BY <1>1 DEF RowInv, RowOK
<1>4. UNCHANGED <<state, tid, transcript>>
  BY <1>2 DEF rowVars
<1> HIDE DEF todo
<1>5. /\ sweep'[r].todo = todo /\ sweep'[r].asked = NoItem
      /\ \A j \in Job : sweep'[r].writes[j] = "none"
      /\ \A q \in Sweeper \ {r} : sweep'[q] = sweep[q]
  BY <1>1, <1>2 DEF TypeOK, NoSweep
<1>6. ListInv'
  BY <1>1, <1>3, <1>4, <1>5 DEF ListInv, NoItem
<1>7. AnswerInv'
  BY <1>1, <1>4, <1>5 DEF AnswerInv, NoItem
<1>8. WriteInv' /\ OneWriter'
  BY <1>1, <1>4, <1>5 DEF WriteInv, OneWriter
<1> QED BY <1>2, <1>6, <1>7, <1>8, SweepOnlyCore DEF SweepInv

LEMMA PollCore ==
  ASSUME LeaseInv, NEW r \in Sweeper, Poll(r)
  PROVE  Core'
<1>1. TypeOK /\ ListInv /\ AnswerInv /\ WriteInv /\ OneWriter
  BY DEF LeaseInv, TypeInv, SweepInv
<1>2. PICK i \in sweep[r].todo : sweep' = [sweep EXCEPT
            ![r].todo = @ \ {i},
            ![r].asked = i,
            ![r].answer = IF i.tid = 0 THEN "error" ELSE transcript[i.job][i.tid]]
  BY DEF Poll
<1>3. i \in Item
  BY <1>1 DEF TypeOK, Sweep
<1>4. i # NoItem
  BY <1>3, QueueAssumption DEF Item, NoItem
<1>5. i.tid # 0 /\ tid[i.job] = i.tid
  BY <1>1, <1>4 DEF ListInv
<1>6. /\ sweep'[r].todo \subseteq sweep[r].todo /\ sweep'[r].asked = i
      /\ sweep'[r].answer = transcript[i.job][i.tid] /\ sweep'[r].writes = sweep[r].writes
      /\ \A q \in Sweeper \ {r} : sweep'[q] = sweep[q]
  BY <1>1, <1>2, <1>5 DEF TypeOK, Sweep
<1>7. UNCHANGED <<rowVars, taskVars, state, tid, transcript>>
  BY DEF Poll, rowVars
<1>8. ListInv'
  BY <1>1, <1>6, <1>7 DEF ListInv, NoItem
<1>9. AnswerInv'
  BY <1>1, <1>6, <1>7 DEF AnswerInv, NoItem
<1>10. WriteInv' /\ OneWriter'
  <2>1. \A q \in Sweeper : sweep'[q].writes = sweep[q].writes
    BY <1>6
  <2> QED BY <1>1, <1>7, <2>1 DEF WriteInv, OneWriter
<1> QED BY <1>7, <1>8, <1>9, <1>10, SweepOnlyCore DEF SweepInv

LEMMA RecordCore ==
  ASSUME LeaseInv, NEW r \in Sweeper, Record(r)
  PROVE  Core'
<1> DEFINE i == sweep[r].asked
           v == Verdict(i, sweep[r].answer)
<1>1. TypeOK /\ RowInv /\ ListInv /\ AnswerInv /\ WriteInv /\ OneWriter
  BY DEF LeaseInv, TypeInv, SweepInv
<1>2. /\ i # NoItem /\ ~RowLocked(i.job)
      /\ sweep' = [sweep EXCEPT ![r].asked = NoItem, ![r].answer = "none", ![r].writes[i.job] = v]
      /\ UNCHANGED <<rowVars, taskVars, state, tid, transcript>>
  BY DEF Record, rowVars
<1>3. i.job \in Job /\ i.tid # 0 /\ tid[i.job] = i.tid
  BY <1>1, <1>2 DEF TypeOK, Sweep, Item, ListInv
<1>4. v = "advance" => state[i.job] = AwaitingTranscript /\ transcript[i.job][i.tid] = "ready"
  BY <1>1, <1>2 DEF Verdict, Matches, AnswerInv
<1>5. v = "fail" => state[i.job] \in {AwaitingTranscript, Failed} /\ transcript[i.job][i.tid] = "error"
  <2>1. v = "fail" => transcript[i.job][i.tid] = "error"
    BY <1>1, <1>2 DEF Verdict, AnswerInv
  <2>2. RowOK(i.job, state[i.job], tid[i.job], attempts[i.job]) /\ state[i.job] \in JobState
    BY <1>1, <1>3 DEF RowInv, TypeOK
  <2> HIDE DEF i, v
  <2> QED BY <1>3, <2>1, <2>2 DEF RowOK, JobState
<1> HIDE DEF i, v
<1>6. /\ sweep'[r].todo = sweep[r].todo /\ sweep'[r].asked = NoItem
      /\ sweep'[r].writes = [sweep[r].writes EXCEPT ![i.job] = v]
      /\ \A q \in Sweeper \ {r} : sweep'[q] = sweep[q]
      /\ sweep[r].writes \in [Job -> SweepWrite]
  BY <1>1, <1>2 DEF TypeOK, Sweep
<1>7. /\ UNCHANGED <<state, tid, transcript, rowVars, taskVars>>
      /\ \A q \in Sweeper : sweep[q].writes[i.job] = "none"
  BY <1>2 DEF RowLocked
<1>8. /\ sweep'[r].writes[i.job] = v
      /\ \A q \in Sweeper, j \in Job : q # r \/ j # i.job => sweep'[q].writes[j] = sweep[q].writes[j]
  BY <1>3, <1>6
<1>9. ListInv' /\ AnswerInv'
  <2>1. ListInv'
    BY <1>1, <1>6, <1>7 DEF ListInv
  <2>2. AnswerInv'
    BY <1>1, <1>6, <1>7 DEF AnswerInv
  <2> QED BY <2>1, <2>2
<1>10. WriteInv'
  <2> SUFFICES ASSUME NEW q \in Sweeper, NEW j \in Job
               PROVE  /\ sweep'[q].writes[j] = "advance" =>
                           state[j] = AwaitingTranscript /\ tid[j] # 0 /\ transcript[j][tid[j]] = "ready"
                      /\ sweep'[q].writes[j] = "fail" =>
                           /\ state[j] \in {AwaitingTranscript, Failed}
                           /\ tid[j] # 0 /\ transcript[j][tid[j]] = "error"
    BY <1>7 DEF WriteInv
  <2>1. CASE q = r /\ j = i.job
    BY <2>1, <1>3, <1>4, <1>5, <1>8
  <2>2. CASE q # r \/ j # i.job
    BY <2>2, <1>1, <1>8 DEF WriteInv
  <2> QED BY <2>1, <2>2
<1>11. OneWriter'
  <2>1. \A q \in Sweeper \ {r} : sweep'[q].writes[i.job] = "none"
    BY <1>3, <1>7, <1>8
  <2> QED BY <1>1, <1>3, <1>8, <2>1 DEF OneWriter
<1> QED BY <1>7, <1>9, <1>10, <1>11, SweepOnlyCore DEF SweepInv

LEMMA SweepEndsCore ==
  ASSUME LeaseInv, NEW r \in Sweeper, PollRaises(r) \/ SweepLost(r)
  PROVE  Core'
<1>1. TypeOK /\ ListInv /\ AnswerInv /\ WriteInv /\ OneWriter
  BY DEF LeaseInv, TypeInv, SweepInv
<1>2. /\ sweep' = [sweep EXCEPT ![r] = NoSweep]
      /\ UNCHANGED <<rowVars, taskVars, state, tid, transcript>>
  BY DEF PollRaises, SweepLost, rowVars
<1>3. /\ sweep'[r].todo = {} /\ sweep'[r].asked = NoItem
      /\ \A j \in Job : sweep'[r].writes[j] = "none"
      /\ \A q \in Sweeper \ {r} : sweep'[q] = sweep[q]
  BY <1>1, <1>2 DEF TypeOK, NoSweep
<1>4. ListInv' /\ AnswerInv'
  BY <1>1, <1>2, <1>3 DEF ListInv, AnswerInv, NoItem
<1>5. WriteInv' /\ OneWriter'
  BY <1>1, <1>2, <1>3 DEF WriteInv, OneWriter
<1> QED BY <1>2, <1>4, <1>5, SweepOnlyCore DEF SweepInv

\* What a commit does to one row.
LEMMA CommitRow ==
  ASSUME LeaseInv, NEW r \in Sweeper, SweepCommits(r), NEW j \in Job
  PROVE  /\ sweep[r].writes[j] = "advance" =>
              /\ state[j] = AwaitingTranscript /\ tid[j] # 0 /\ transcript[j][tid[j]] = "ready"
              /\ state'[j] = PendingJudge
         /\ sweep[r].writes[j] = "fail" =>
              /\ state[j] \in {AwaitingTranscript, Failed} /\ state'[j] = Failed
         /\ sweep[r].writes[j] \notin {"advance", "fail"} =>
              state'[j] = state[j] /\ lease'[j] = lease[j]
         /\ tid' = tid /\ attempts' = attempts /\ transcript' = transcript
  BY DEF SweepCommits, LeaseInv, SweepInv, WriteInv

LEMMA SweepCommitsCore ==
  ASSUME LeaseInv, NEW r \in Sweeper, SweepCommits(r)
  PROVE  Core'
<1>1. TypeOK /\ TaskInv /\ RowInv /\ ListInv /\ AnswerInv /\ WriteInv /\ OneWriter
  BY DEF LeaseInv, TypeInv, SweepInv
<1>2. UNCHANGED <<pc, snap, got, tid, attempts, transcript>>
  BY DEF SweepCommits, taskVars
<1>3. /\ sweep'[r].todo = {} /\ sweep'[r].asked = NoItem
      /\ \A j \in Job : sweep'[r].writes[j] = "none"
      /\ \A q \in Sweeper \ {r} : sweep'[q] = sweep[q]
  BY <1>1 DEF TypeOK, NoSweep, SweepCommits
<1>4. RowInv'
  <2> SUFFICES ASSUME NEW j \in Job PROVE RowOK(j, state'[j], tid[j], attempts[j])
    BY <1>2 DEF RowInv, RowOK
  <2>1. RowOK(j, state[j], tid[j], attempts[j])
    BY <1>1 DEF RowInv
  <2>2. attempts[j] \in Nat
    BY <1>1 DEF TypeOK
  <2> QED BY <2>1, <2>2, CommitRow, QueueAssumption DEF RowOK, Terminal, PendingTranscription,
        AwaitingTranscript, PendingJudge, Done, Failed
<1>5. OneTaskPerJob' /\ TaskInv'
  <2>1. ASSUME NEW w \in Worker, pc[w] # "idle"
        PROVE  LET k == snap[w].job IN
               /\ state'[k] = state[k] /\ tid'[k] = tid[k]
               /\ attempts'[k] = attempts[k] /\ lease'[k] = lease[k]
    <3>1. snap[w].job \in Job /\ state[snap[w].job] \in Claimable
      BY <1>1, <2>1, Current
    <3> QED BY <3>1, CommitRow DEF Claimable, PendingTranscription, AwaitingTranscript,
          PendingJudge, Failed
  <2> QED BY <1>2, <2>1, SameGrows, TasksStand
<1>6. ListInv' /\ AnswerInv'
  BY <1>1, <1>2, <1>3 DEF ListInv, AnswerInv, NoItem
<1>7. WriteInv'
  <2> SUFFICES ASSUME NEW q \in Sweeper, NEW j \in Job, sweep'[q].writes[j] # "none"
               PROVE  q # r /\ sweep'[q] = sweep[q] /\ state'[j] = state[j]
    BY <1>1, <1>2 DEF WriteInv
  <2>1. q # r /\ sweep'[q] = sweep[q]
    BY <1>3
  <2>2. sweep[r].writes[j] = "none"
    BY <1>1, <2>1 DEF OneWriter
  <2> QED BY <2>1, <2>2, CommitRow
<1>8. OneWriter'
  BY <1>1, <1>3 DEF OneWriter
<1> QED BY <1>4, <1>5, <1>6, <1>7, <1>8 DEF Core, SweepInv
(***************************************************************************)
(* Time: the one place where the assumption on leases is used.             *)
(***************************************************************************)
LEMMA LeaseExpiresCore ==
  ASSUME LeaseOutlivesStep, LeaseInv, NEW j \in Job, LeaseExpires(j)
  PROVE  Core'
<1>1. TypeOK /\ TaskInv
  BY DEF LeaseInv, TypeInv
<1>2. /\ \A w \in Worker : ~Working(w, j)
      /\ lease' = [lease EXCEPT ![j] = "expired"]
      /\ UNCHANGED <<state, tid, attempts, pc, snap, got, sweep, transcript>>
  BY DEF LeaseExpires, taskVars
<1>3. ASSUME NEW w \in Worker, pc[w] # "idle"
      PROVE  lease'[snap[w].job] = lease[snap[w].job]
  BY <1>1, <1>2, <1>3 DEF TypeOK, Working, TaskInv
<1>4. OneTaskPerJob' /\ TaskInv'
  BY <1>2, <1>3, SameGrows, TasksStand
<1>5. RowInv' /\ SweepInv'
  BY <1>2, SameGrows, GrowsKeeps
<1> QED BY <1>4, <1>5 DEF Core

LEMMA TimeCore ==
  ASSUME LeaseInv,
         NewDay \/ \E j \in Job : BackoffElapses(j) \/ OverdueElapses(j)
  PROVE  Core'
<1>1. UNCHANGED <<state, tid, attempts, lease, pc, snap, got, sweep, transcript>>
  BY DEF NewDay, BackoffElapses, OverdueElapses, taskVars
<1>2. OneTaskPerJob' /\ TaskInv'
  BY <1>1, SameGrows, TasksStand
<1>3. RowInv' /\ SweepInv'
  BY <1>1, SameGrows, GrowsKeeps
<1> QED BY <1>2, <1>3 DEF Core

(***************************************************************************)
(* The invariant.                                                          *)
(***************************************************************************)
LEMMA NextLeaseInv ==
  ASSUME LeaseOutlivesStep
  PROVE  LeaseInv /\ [Next]_vars => LeaseInv'
<1> SUFFICES ASSUME LeaseInv, [Next]_vars PROVE LeaseInv'
  OBVIOUS
<1>1. TypeInv'
  BY NextTypeInv DEF LeaseInv
<1>2. CASE UNCHANGED vars
  <2>1. UNCHANGED <<rowVars, taskVars, sweep, transcript>>
    BY <1>2 DEF vars
  <2>2. SweepInv'
    BY <2>1, SameGrows, GrowsKeeps DEF rowVars
  <2> QED BY <1>1, <2>1, <2>2, SweepOnlyCore DEF LeaseInv, Core
<1>3. ASSUME NEW w \in Worker, NEW j \in Job, Claim(w, j) PROVE Core'
  BY <1>3, ClaimCore
<1>4. ASSUME NEW w \in Worker, TaskStep(w) \/ TaskLost(w) PROVE Core'
  BY <1>4, ReserveCore, DeferCore, SubmitCore, ParkCore, CompleteCore, FailCore, TaskLostCore
     DEF TaskStep
<1>5. ASSUME NEW j \in Job, NEW n \in Number, Transcribe(j, n) \/ Webhook(j, n) PROVE Core'
  BY <1>5, TranscribeCore, WebhookCore
<1>6. ASSUME NEW r \in Sweeper, SweepStarts(r) \/ SweepStep(r) \/ SweepLost(r) PROVE Core'
  BY <1>6, SweepStartsCore, PollCore, RecordCore, SweepEndsCore, SweepCommitsCore DEF SweepStep
<1>7. ASSUME NewDay \/ \E j \in Job : LeaseExpires(j) \/ BackoffElapses(j) \/ OverdueElapses(j)
      PROVE Core'
  BY <1>7, LeaseExpiresCore, TimeCore
<1>8. CASE Next
  <2>1. Core'
    BY <1>3, <1>4, <1>5, <1>6, <1>7, <1>8 DEF Next
  <2> QED BY <1>1, <2>1 DEF LeaseInv, Core
<1> QED BY <1>2, <1>8

LEMMA LeaseInvariant ==
  ASSUME LeaseOutlivesStep
  PROVE  Spec => []LeaseInv
  BY InitLeaseInv, NextLeaseInv, PTL DEF Spec

(***************************************************************************)
(* What follows of it.                                                     *)
(***************************************************************************)

\* No two tasks ever work on one job.
THEOREM LeaseExclusive == ASSUME LeaseOutlivesStep PROVE Spec => []OneTaskPerJob
<1>1. LeaseInv => OneTaskPerJob
  BY DEF LeaseInv
<1> QED BY <1>1, LeaseInvariant, PTL

\* What a task decides on is what its row still says.
THEOREM ClaimCurrent == ASSUME LeaseOutlivesStep PROVE Spec => []ClaimStillHolds
<1>1. LeaseInv => ClaimStillHolds
  BY DEF LeaseInv, TaskInv, ClaimStillHolds
<1> QED BY <1>1, LeaseInvariant, PTL

\* Every parked row names a transcript that can be polled.
THEOREM ParkedPollable == ASSUME LeaseOutlivesStep PROVE Spec => []ParkedHasTranscript
<1>1. LeaseInv => ParkedHasTranscript
  BY DEF LeaseInv, RowInv, RowOK, ParkedHasTranscript
<1> QED BY <1>1, LeaseInvariant, PTL

\* The judge only works on a finished transcript.
THEOREM JudgeGrounded == ASSUME LeaseOutlivesStep PROVE Spec => []JudgeHasText
<1>1. LeaseInv => JudgeHasText
  BY DEF LeaseInv, RowInv, RowOK, JudgeHasText
<1> QED BY <1>1, LeaseInvariant, PTL
(***************************************************************************)
(* Action properties.                                                      *)
(***************************************************************************)

\* What one step may do to the rows and the transcripts.
Legal == \A j \in Job : state'[j] # state[j] => CanTransition(state[j], state'[j])

Recorded ==
  \A j \in Job : tid[j] # 0 =>
    \A n \in Number : transcript[j][n] = "none" => transcript'[j][n] = "none"

Counted == \A j \in Job : attempts'[j] >= attempts[j] /\ attempts'[j] <= MaxAttempts

Bounded == \A j \in Job : attempts[j] \in Nat /\ attempts[j] <= MaxAttempts

LEMMA LeaseBounded == LeaseInv => Bounded
  BY DEF LeaseInv, TypeInv, TypeOK, RowInv, RowOK, Bounded

LEMMA SameRowsAct ==
  ASSUME Bounded, UNCHANGED <<state, attempts, transcript>>
  PROVE  Legal /\ Recorded /\ Counted
  BY DEF Bounded, Legal, Recorded, Counted

\* One write by row id, of a legal successor and a counter that has not gone back.
LEMMA SetRowAct ==
  ASSUME LeaseInv, NEW j \in Job, NEW s, NEW t, NEW a \in Nat, NEW n, SetRow(j, s, t, a, n),
         s = state[j] \/ CanTransition(state[j], s), a >= attempts[j], a <= MaxAttempts,
         UNCHANGED transcript
  PROVE  Legal /\ Recorded /\ Counted
<1>1. TypeOK /\ Bounded
  BY LeaseBounded DEF LeaseInv, TypeInv
<1>2. state' = [state EXCEPT ![j] = s] /\ attempts' = [attempts EXCEPT ![j] = a]
  BY DEF SetRow
<1>3. Legal
  BY <1>1, <1>2 DEF TypeOK, Legal
<1>4. Counted
  BY <1>1, <1>2 DEF TypeOK, Bounded, Counted
<1> QED BY <1>3, <1>4 DEF Recorded

LEMMA TaskAct ==
  ASSUME LeaseInv, NEW w \in Worker, TaskStep(w)
  PROVE  Legal /\ Recorded /\ Counted
<1> DEFINE j == snap[w].job
           a == snap[w].attempts + 1
<1>1. pc[w] # "idle"
  BY DEF TaskStep, Reserve, Defer, AtCap, Submit, Park, Complete, Fail
<1>2. TypeOK /\ TaskInv /\ RowInv /\ Bounded
  BY LeaseBounded DEF LeaseInv, TypeInv
<1>3. /\ j \in Job /\ state[j] \in Claimable
      /\ snap[w].state = state[j] /\ snap[w].attempts = attempts[j] /\ snap[w].tid = tid[j]
  BY <1>1, <1>2, Current
<1>4. attempts[j] \in Nat /\ attempts[j] < MaxAttempts
  BY <1>2, <1>3 DEF TypeOK, RowInv, RowOK, Claimable, Terminal, PendingTranscription,
     PendingJudge, Done, Failed
<1>5. CASE Reserve(w)
  BY <1>2, <1>5, SameRowsAct DEF Reserve, rowVars
<1>6. CASE Submit(w)
  <2>1. PICK n \in Number : transcript' = [transcript EXCEPT ![j][n] = "processing"]
    BY <1>6 DEF Submit
  <2>2. pc[w] # "claimed" /\ UNCHANGED <<state, attempts>>
    BY <1>6 DEF Submit, rowVars
  <2>3. tid[j] = 0
    BY <1>1, <1>2, <1>3, <2>2 DEF TaskInv, RowInv, RowOK
  <2> HIDE DEF j
  <2>4. Recorded
    BY <1>2, <1>3, <2>1, <2>3 DEF TypeOK, Recorded
  <2>5. Legal /\ Counted
    BY <1>2, <2>2 DEF Bounded, Legal, Counted
  <2> QED BY <2>4, <2>5
<1>7. CASE Defer(w)
  <2>1. SetRow(j, state[j], tid[j], attempts[j], "midnight") /\ UNCHANGED transcript
    BY <1>7 DEF Defer
  <2> HIDE DEF j
  <2> QED BY <1>3, <1>4, <2>1, QueueAssumption, SetRowAct
<1>8. CASE Park(w)
  <2>1. /\ SetRow(j, AwaitingTranscript, ParkTid(w), attempts[j], wait[j])
        /\ CanTransition(state[j], AwaitingTranscript) /\ UNCHANGED transcript
    BY <1>3, <1>8 DEF Park
  <2> HIDE DEF j
  <2> QED BY <1>3, <1>4, <2>1, QueueAssumption, SetRowAct
<1>9. CASE Complete(w)
  <2>1. /\ SetRow(j, Done, tid[j], attempts[j], wait[j])
        /\ CanTransition(state[j], Done) /\ UNCHANGED transcript
    BY <1>3, <1>9 DEF Complete
  <2> HIDE DEF j
  <2> QED BY <1>3, <1>4, <2>1, QueueAssumption, SetRowAct
<1>10. ASSUME NEW fatal \in BOOLEAN, Fail(w, fatal) PROVE Legal /\ Recorded /\ Counted
  <2>1. \/ SetRow(j, Failed, tid[j], a, wait[j])
        \/ SetRow(j, state[j], tid[j], a, "backoff")
    BY <1>10 DEF Fail
  <2>2. UNCHANGED transcript
    BY <1>10 DEF Fail
  <2>3. CanTransition(state[j], Failed)
    BY <1>3 DEF CanTransition, Allowed, Claimable, PendingTranscription, AwaitingTranscript,
       PendingJudge
  <2>4. a \in Nat /\ a >= attempts[j] /\ a <= MaxAttempts
    BY <1>3, <1>4, QueueAssumption
  <2> HIDE DEF j, a
  <2> QED BY <1>3, <2>1, <2>2, <2>3, <2>4, SetRowAct
<1> QED BY <1>5, <1>6, <1>7, <1>8, <1>9, <1>10 DEF TaskStep

LEMMA AwaitingMoves ==
  CanTransition(AwaitingTranscript, PendingJudge) /\ CanTransition(AwaitingTranscript, Failed)
  BY DEF CanTransition, Allowed, PendingTranscription, AwaitingTranscript, PendingJudge, Failed

LEMMA WebhookAct ==
  ASSUME LeaseInv, NEW j \in Job, NEW n \in Number, Webhook(j, n)
  PROVE  Legal /\ Recorded /\ Counted
<1>1. state[j] = AwaitingTranscript /\ UNCHANGED transcript
  BY DEF Webhook, Matches
<1>2. \/ SetRow(j, PendingJudge, tid[j], attempts[j], "none")
      \/ SetRow(j, Failed, tid[j], attempts[j], wait[j])
  BY DEF Webhook, AdvanceRow
<1>3. CanTransition(AwaitingTranscript, PendingJudge) /\ CanTransition(AwaitingTranscript, Failed)
  BY AwaitingMoves
<1>4. attempts[j] \in Nat /\ attempts[j] <= MaxAttempts /\ attempts[j] >= attempts[j]
  BY LeaseBounded DEF Bounded
<1> QED BY <1>1, <1>2, <1>3, <1>4, SetRowAct

LEMMA CommitAct ==
  ASSUME LeaseInv, NEW r \in Sweeper, SweepCommits(r)
  PROVE  Legal /\ Recorded /\ Counted
<1>1. CanTransition(AwaitingTranscript, PendingJudge) /\ CanTransition(AwaitingTranscript, Failed)
  BY AwaitingMoves
<1>2. Legal
  BY <1>1, CommitRow DEF Legal
<1>3. UNCHANGED <<attempts, transcript>>
  BY DEF SweepCommits
<1> QED BY <1>2, <1>3, LeaseBounded DEF Bounded, Recorded, Counted

LEMMA NextAct ==
  ASSUME LeaseInv, [Next]_vars
  PROVE  Legal /\ Recorded /\ Counted
<1>1. Bounded
  BY LeaseBounded
<1>2. CASE UNCHANGED vars
  BY <1>1, <1>2, SameRowsAct DEF vars, rowVars
<1>3. ASSUME NEW w \in Worker, NEW j \in Job, Claim(w, j) PROVE Legal /\ Recorded /\ Counted
  BY <1>1, <1>3, SameRowsAct DEF Claim
<1>4. ASSUME NEW w \in Worker, TaskStep(w) \/ TaskLost(w) PROVE Legal /\ Recorded /\ Counted
  BY <1>1, <1>4, TaskAct, SameRowsAct DEF TaskLost, rowVars
<1>5. ASSUME NEW j \in Job, NEW n \in Number, Transcribe(j, n) PROVE Legal /\ Recorded /\ Counted
  <2>1. UNCHANGED <<state, attempts>>
    BY <1>5 DEF Transcribe, rowVars
  <2>2. Recorded
    BY <1>5 DEF Transcribe, Recorded, LeaseInv, TypeInv, TypeOK
  <2> QED BY <1>1, <2>1, <2>2 DEF Bounded, Legal, Counted
<1>6. ASSUME NEW j \in Job, NEW n \in Number, Webhook(j, n) PROVE Legal /\ Recorded /\ Counted
  BY <1>6, WebhookAct
<1>7. ASSUME NEW r \in Sweeper, SweepStarts(r) \/ SweepStep(r) \/ SweepLost(r)
      PROVE Legal /\ Recorded /\ Counted
  <2>1. CASE SweepCommits(r)
    BY <2>1, CommitAct
  <2>2. CASE ~SweepCommits(r)
    <3>1. UNCHANGED <<state, attempts, transcript>>
      BY <1>7, <2>2 DEF SweepStarts, SweepStep, SweepLost, Poll, Record, PollRaises, rowVars
    <3> QED BY <1>1, <3>1, SameRowsAct
  <2> QED BY <2>1, <2>2
<1>8. ASSUME NewDay \/ \E j \in Job : LeaseExpires(j) \/ BackoffElapses(j) \/ OverdueElapses(j)
      PROVE Legal /\ Recorded /\ Counted
  <2>1. UNCHANGED <<state, attempts, transcript>>
    BY <1>8 DEF NewDay, LeaseExpires, BackoffElapses, OverdueElapses
  <2> QED BY <1>1, <2>1, SameRowsAct
<1> QED BY <1>2, <1>3, <1>4, <1>5, <1>6, <1>7, <1>8 DEF Next

\* Every change of a state is in the table of states.py, with webhooks at any time and
\* any number of tasks and reconcilers.
THEOREM OnlyLegal == ASSUME LeaseOutlivesStep PROVE Spec => LegalTransitions
<1>1. LeaseInv /\ [Next]_vars => [Legal]_vars
  BY NextAct
<1> QED BY <1>1, LeaseInvariant, PTL DEF Spec, LegalTransitions, Legal

\* A job whose row names a transcript is never submitted again.
THEOREM NoResubmission == ASSUME LeaseOutlivesStep PROVE Spec => NeverResubmitRecorded
<1>1. LeaseInv /\ [Next]_vars => [Recorded]_vars
  BY NextAct
<1> QED BY <1>1, LeaseInvariant, PTL DEF Spec, NeverResubmitRecorded, Recorded

\* No failed attempt is forgotten and the budget of attempts is never passed.
THEOREM BudgetKept == ASSUME LeaseOutlivesStep PROVE Spec => AttemptsCounted
<1>1. LeaseInv /\ [Next]_vars => [Counted]_vars
  BY NextAct
<1> QED BY <1>1, LeaseInvariant, PTL DEF Spec, AttemptsCounted, Counted


(***************************************************************************)
(* The queue implements the lifecycle: every step is one of the lifecycle  *)
(* or leaves the states and the tickets alone.                             *)
(***************************************************************************)
LEMMA SameStates ==
  /\ Lifecycle!PendingTranscription = PendingTranscription
  /\ Lifecycle!AwaitingTranscript = AwaitingTranscript
  /\ Lifecycle!PendingJudge = PendingJudge
  /\ Lifecycle!Done = Done
  /\ Lifecycle!Failed = Failed
  /\ Lifecycle!Claimable = Claimable
  BY DEF PendingTranscription, AwaitingTranscript, PendingJudge, Done, Failed, Claimable,
     Lifecycle!PendingTranscription, Lifecycle!AwaitingTranscript, Lifecycle!PendingJudge,
     Lifecycle!Done, Lifecycle!Failed, Lifecycle!Claimable

LEMMA LifecycleInit == Init => Lifecycle!Init
  BY SameStates DEF Init, Lifecycle!Init, Ticket

LEMMA RowsStutter ==
  ASSUME UNCHANGED <<state, tid, transcript>>
  PROVE  UNCHANGED Lifecycle!vars
  BY DEF Ticket, Lifecycle!vars

\* A write to one row by a transaction that leaves the provider alone and keeps the id.
LEMMA RowMoves ==
  ASSUME LeaseInv, NEW j \in Job, NEW s, NEW a, NEW n, SetRow(j, s, tid[j], a, n),
         UNCHANGED transcript
  PROVE  UNCHANGED Ticket /\ Lifecycle!Move(j, state[j], s)
<1>1. TypeOK
  BY DEF LeaseInv, TypeInv
<1>2. tid' = tid /\ state' = [state EXCEPT ![j] = s]
  BY <1>1 DEF TypeOK, SetRow
<1> QED BY <1>2 DEF Ticket, Lifecycle!Move

LEMMA RowStands ==
  ASSUME LeaseInv, NEW j \in Job, NEW a, NEW n, SetRow(j, state[j], tid[j], a, n),
         UNCHANGED transcript
  PROVE  UNCHANGED Lifecycle!vars
<1>1. TypeOK
  BY DEF LeaseInv, TypeInv
<1>2. tid' = tid /\ state' = state
  BY <1>1 DEF TypeOK, SetRow
<1> QED BY <1>2, RowsStutter

LEMMA ParkImplements ==
  ASSUME LeaseInv, NEW w \in Worker, Park(w)
  PROVE  \E j \in Job : Lifecycle!Submit(j)
<1> DEFINE j == snap[w].job
           n == ParkTid(w)
<1>1. TypeOK
  BY DEF LeaseInv, TypeInv
<1>2. /\ j \in Job /\ state[j] = PendingTranscription /\ n \in Number
      /\ transcript[j][n] # "none"
  BY ParkRow
<1>3. /\ state' = [state EXCEPT ![j] = AwaitingTranscript]
      /\ tid' = [tid EXCEPT ![j] = n]
      /\ transcript' = transcript
  BY DEF Park, SetRow
<1>4. n # 0
  BY <1>2, QueueAssumption DEF Number
<1> HIDE DEF j, n
<1>5. transcript[j][n] \in {"processing", "ready", "error"}
  BY <1>1, <1>2 DEF TypeOK, Answer
<1>6. Ticket' = [Ticket EXCEPT ![j] = transcript[j][n]]
  BY <1>1, <1>2, <1>3, <1>4 DEF TypeOK, Ticket
<1>7. Lifecycle!Submit(j)
  BY <1>2, <1>3, <1>5, <1>6, SameStates DEF Lifecycle!Submit, Lifecycle!Move
<1> QED BY <1>2, <1>7

\* A submission is no step of the lifecycle: the row names no transcript yet.
LEMMA SubmitImplements ==
  ASSUME LeaseInv, NEW w \in Worker, Submit(w)
  PROVE  UNCHANGED Lifecycle!vars
<1> DEFINE j == snap[w].job
<1>1. TypeOK /\ TaskInv /\ RowInv
  BY DEF LeaseInv, TypeInv
<1>2. pc[w] # "idle" /\ pc[w] # "claimed" /\ UNCHANGED <<state, tid>>
  BY DEF Submit, rowVars
<1>3. PICK n \in Number : transcript' = [transcript EXCEPT ![j][n] = "processing"]
  BY DEF Submit
<1>4. j \in Job /\ tid[j] = 0
  BY <1>1, <1>2 DEF TaskInv, RowInv, RowOK
<1> HIDE DEF j
<1>5. Ticket' = Ticket
  BY <1>1, <1>2, <1>3, <1>4 DEF TypeOK, Ticket
<1> QED BY <1>2, <1>5 DEF Lifecycle!vars

LEMMA TaskImplements ==
  ASSUME LeaseInv, NEW w \in Worker, TaskStep(w)
  PROVE  UNCHANGED Lifecycle!vars \/ \E j \in Job : Lifecycle!Step(j)
<1> DEFINE j == snap[w].job
           a == snap[w].attempts + 1
<1>1. pc[w] # "idle"
  BY DEF TaskStep, Reserve, Defer, AtCap, Submit, Park, Complete, Fail
<1>2. j \in Job /\ state[j] \in Claimable /\ snap[w].state = state[j]
  BY <1>1, Current DEF LeaseInv
<1>3. CASE Reserve(w)
  BY <1>3, RowsStutter DEF Reserve, rowVars
<1>4. CASE Submit(w)
  BY <1>4, SubmitImplements
<1>5. CASE Defer(w)
  <2>1. SetRow(j, state[j], tid[j], attempts[j], "midnight") /\ UNCHANGED transcript
    BY <1>5 DEF Defer
  <2> HIDE DEF j
  <2> QED BY <1>2, <2>1, RowStands
<1>6. CASE Park(w)
  BY <1>6, ParkImplements DEF Lifecycle!Step
<1>7. CASE Complete(w)
  <2>1. /\ SetRow(j, Done, tid[j], attempts[j], wait[j]) /\ UNCHANGED transcript
        /\ state[j] = PendingJudge
    BY <1>2, <1>7 DEF Complete
  <2> HIDE DEF j
  <2>2. UNCHANGED Ticket /\ Lifecycle!Move(j, state[j], Done)
    BY <1>2, <2>1, RowMoves
  <2>3. Lifecycle!Judge(j)
    BY <2>1, <2>2, SameStates DEF Lifecycle!Judge
  <2> QED BY <1>2, <2>3 DEF Lifecycle!Step
<1>8. ASSUME NEW fatal \in BOOLEAN, Fail(w, fatal)
      PROVE  UNCHANGED Lifecycle!vars \/ \E i \in Job : Lifecycle!Step(i)
  <2>1. UNCHANGED transcript
    BY <1>8 DEF Fail
  <2>2. \/ SetRow(j, Failed, tid[j], a, wait[j])
        \/ SetRow(j, state[j], tid[j], a, "backoff")
    BY <1>8 DEF Fail
  <2> HIDE DEF j, a
  <2>3. CASE SetRow(j, Failed, tid[j], a, wait[j])
    <3>1. UNCHANGED Ticket /\ Lifecycle!Move(j, state[j], Failed)
      BY <1>2, <2>1, <2>3, RowMoves
    <3>2. Lifecycle!GiveUp(j)
      BY <1>2, <3>1, SameStates DEF Lifecycle!GiveUp
    <3> QED BY <1>2, <3>2 DEF Lifecycle!Step
  <2>4. CASE SetRow(j, state[j], tid[j], a, "backoff")
    BY <1>2, <2>1, <2>4, RowStands
  <2> QED BY <2>2, <2>3, <2>4
<1> HIDE DEF j, a
<1> QED BY <1>3, <1>4, <1>5, <1>6, <1>7, <1>8 DEF TaskStep

LEMMA TranscribeImplements ==
  ASSUME LeaseInv, NEW j \in Job, NEW n \in Number, Transcribe(j, n)
  PROVE  UNCHANGED Lifecycle!vars \/ Lifecycle!Transcribed(j)
<1>1. TypeOK /\ UNCHANGED <<state, tid>> /\ transcript[j][n] = "processing" /\ n # 0
  BY QueueAssumption DEF LeaseInv, TypeInv, Transcribe, rowVars, Number
<1>2. PICK s \in {"ready", "error"} : transcript' = [transcript EXCEPT ![j][n] = s]
  BY DEF Transcribe
<1>3. CASE tid[j] = n
  <2>1. Ticket[j] = "processing"
    BY <1>1, <1>3 DEF Ticket
  <2>2. Ticket' = [Ticket EXCEPT ![j] = s]
    BY <1>1, <1>2, <1>3 DEF TypeOK, Ticket
  <2> QED BY <1>1, <2>1, <2>2 DEF Lifecycle!Transcribed
<1>4. CASE tid[j] # n
  <2>1. Ticket' = Ticket
    BY <1>1, <1>2, <1>4 DEF TypeOK, Ticket
  <2> QED BY <1>1, <2>1 DEF Lifecycle!vars
<1> QED BY <1>3, <1>4

LEMMA WebhookImplements ==
  ASSUME LeaseInv, NEW j \in Job, NEW n \in Number, Webhook(j, n)
  PROVE  Lifecycle!Advance(j) \/ Lifecycle!Reject(j)
<1>1. /\ state[j] = AwaitingTranscript /\ tid[j] = n /\ n # 0
      /\ transcript[j][n] \in {"ready", "error"} /\ UNCHANGED transcript
  BY QueueAssumption DEF Webhook, Matches, Number
<1>2. Ticket[j] = transcript[j][n]
  BY <1>1 DEF Ticket
<1>3. CASE transcript[j][n] = "ready"
  <2>1. SetRow(j, PendingJudge, tid[j], attempts[j], "none")
    BY <1>3 DEF Webhook, AdvanceRow
  <2>2. UNCHANGED Ticket /\ Lifecycle!Move(j, state[j], PendingJudge)
    BY <1>1, <2>1, RowMoves
  <2> QED BY <1>1, <1>2, <1>3, <2>2, SameStates DEF Lifecycle!Advance
<1>4. CASE transcript[j][n] = "error"
  <2>1. SetRow(j, Failed, tid[j], attempts[j], wait[j])
    BY <1>4 DEF Webhook
  <2>2. UNCHANGED Ticket /\ Lifecycle!Move(j, state[j], Failed)
    BY <1>1, <2>1, RowMoves
  <2> QED BY <1>1, <1>2, <1>4, <2>2, SameStates DEF Lifecycle!Reject
<1> QED BY <1>1, <1>3, <1>4

\* A sweep settles the parked jobs it has written an answer for; a row it finds failed already
\* stays as it is.
LEMMA CommitImplements ==
  ASSUME LeaseInv, NEW r \in Sweeper, SweepCommits(r)
  PROVE  \E S \in SUBSET Job : Lifecycle!Settle(S)
<1> DEFINE w == sweep[r].writes
           S == {j \in Job : state[j] = AwaitingTranscript /\ w[j] \in {"advance", "fail"}}
<1>1. TypeOK /\ WriteInv
  BY DEF LeaseInv, TypeInv, SweepInv
<1>2. UNCHANGED <<tid, transcript>>
  BY DEF SweepCommits
<1>3. state' = [j \in Job |-> IF w[j] \in {"advance"} THEN PendingJudge
                              ELSE IF w[j] \in {"fail"} THEN Failed ELSE state[j]]
  BY DEF SweepCommits
<1>4. \A j \in Job :
        /\ w[j] = "advance" =>
             state[j] = AwaitingTranscript /\ tid[j] # 0 /\ transcript[j][tid[j]] = "ready"
        /\ w[j] = "fail" =>
             state[j] \in {AwaitingTranscript, Failed} /\ tid[j] # 0 /\ transcript[j][tid[j]] = "error"
  BY <1>1 DEF WriteInv
<1> HIDE DEF w
<1>5. \A j \in Job : /\ w[j] = "advance" => j \in S /\ Ticket[j] = "ready"
                     /\ w[j] = "fail" => Ticket[j] = "error" /\ (j \in S \/ state[j] = Failed)
                     /\ j \in S => w[j] \in {"advance", "fail"}
  BY <1>4 DEF Ticket
<1>6. \A j \in S : state[j] = AwaitingTranscript
  OBVIOUS
<1> HIDE DEF S
<1>7. S \subseteq Job
  BY DEF S
<1>8. \A j \in S : state[j] = AwaitingTranscript /\ Ticket[j] \in {"ready", "error"}
  BY <1>5, <1>6, <1>7
<1>9. state' = [j \in Job |-> IF j \notin S THEN state[j]
                              ELSE IF Ticket[j] = "ready" THEN PendingJudge ELSE Failed]
  <2>1. ASSUME NEW j \in Job
        PROVE  (IF w[j] \in {"advance"} THEN PendingJudge
                ELSE IF w[j] \in {"fail"} THEN Failed ELSE state[j])
               = (IF j \notin S THEN state[j]
                  ELSE IF Ticket[j] = "ready" THEN PendingJudge ELSE Failed)
    BY <1>5
  <2> QED BY <1>3, <2>1
<1>10. UNCHANGED Ticket
  BY <1>2 DEF Ticket
<1> QED BY <1>7, <1>8, <1>9, <1>10, SameStates DEF Lifecycle!Settle

LEMMA LifecycleNext ==
  ASSUME LeaseInv, [Next]_vars
  PROVE  [Lifecycle!Next]_Lifecycle!vars
<1>1. CASE UNCHANGED vars
  BY <1>1, RowsStutter DEF vars, rowVars
<1>2. ASSUME NEW w \in Worker, NEW j \in Job, Claim(w, j) PROVE UNCHANGED Lifecycle!vars
  BY <1>2, RowsStutter DEF Claim
<1>3. ASSUME NEW w \in Worker, TaskStep(w) PROVE [Lifecycle!Next]_Lifecycle!vars
  BY <1>3, TaskImplements DEF Lifecycle!Next
<1>4. ASSUME NEW w \in Worker, TaskLost(w) PROVE UNCHANGED Lifecycle!vars
  BY <1>4, RowsStutter DEF TaskLost, rowVars
<1>5. ASSUME NEW j \in Job, NEW n \in Number, Transcribe(j, n)
      PROVE  [Lifecycle!Next]_Lifecycle!vars
  BY <1>5, TranscribeImplements DEF Lifecycle!Next, Lifecycle!Step
<1>6. ASSUME NEW j \in Job, NEW n \in Number, Webhook(j, n) PROVE Lifecycle!Next
  BY <1>6, WebhookImplements DEF Lifecycle!Next, Lifecycle!Step
<1>7. ASSUME NEW r \in Sweeper, SweepStarts(r) \/ SweepStep(r) \/ SweepLost(r)
      PROVE  [Lifecycle!Next]_Lifecycle!vars
  <2>1. CASE SweepCommits(r)
    BY <2>1, CommitImplements DEF Lifecycle!Next
  <2>2. CASE ~SweepCommits(r)
    BY <1>7, <2>2, RowsStutter DEF SweepStarts, SweepStep, SweepLost, Poll, Record, PollRaises,
       rowVars
  <2> QED BY <2>1, <2>2
<1>8. ASSUME NewDay \/ \E j \in Job : LeaseExpires(j) \/ BackoffElapses(j) \/ OverdueElapses(j)
      PROVE  UNCHANGED Lifecycle!vars
  BY <1>8, RowsStutter DEF NewDay, LeaseExpires, BackoffElapses, OverdueElapses
<1> QED BY <1>1, <1>2, <1>3, <1>4, <1>5, <1>6, <1>7, <1>8 DEF Next

\* Seen through state and ticket, tasks, webhooks and sweeps of any number do to a job only
\* what the header of states.py draws: one submission recorded, one answer, one judgement, and
\* nothing after DONE or FAILED.
THEOREM QueueRefinesLifecycle == ASSUME LeaseOutlivesStep PROVE Spec => Lifecycle!Safety
<1>1. LeaseInv /\ [Next]_vars => [Lifecycle!Next]_Lifecycle!vars
  BY LifecycleNext
<1> QED BY <1>1, LifecycleInit, LeaseInvariant, PTL DEF Spec, Lifecycle!Safety

=============================================================================
