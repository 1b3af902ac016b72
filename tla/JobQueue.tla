------------------------------ MODULE JobQueue ------------------------------
(***************************************************************************)
(* The durable job queue: rows of the jobs table, the worker tasks that    *)
(* claim and work them, the daily cap row, the transcription provider, its *)
(* webhook, and the reconciler.  Sources: orchestration/queue.py,          *)
(* engine.py, retry.py, handlers.py, reconciler.py, worker/loop.py,        *)
(* ratelimit/caps.py and api/webhooks.py under backend/app.                *)
(*                                                                         *)
(* A Worker is one asyncio task slot of some worker process: tick() runs   *)
(* every job of its batch in a task and a transaction of its own, so a     *)
(* batch of n claims is n slots claiming.  A Sweeper is the reconciler     *)
(* loop of one worker process.  Every job belongs to one portfolio, so     *)
(* all of them share one daily_usage row per day.                          *)
(***************************************************************************)
EXTENDS JobStates, Naturals, FiniteSets

CONSTANTS
  Job,                \* rows of the jobs table
  Worker,             \* task slots of the worker processes
  Sweeper,            \* reconciler loops
  NoJob,              \* the job of a slot that works on none
  MaxAttempts,        \* max_attempts of every job
  Cap,                \* daily_cap_per_portfolio
  Unpollable,         \* jobs whose transcript the provider answers with a 4xx
  LeaseOutlivesStep,  \* TRUE: no lease runs out under a task that still works
  MaxSubmissions,     \* bound: transcripts the provider accepts for one job
  MaxCrashes          \* bound: tasks and sweeps lost to a crash or an outage

ASSUME QueueAssumption ==
  /\ NoJob \notin Job
  /\ MaxAttempts \in Nat \ {0}
  /\ Cap \in Nat
  /\ Unpollable \subseteq Job
  /\ LeaseOutlivesStep \in BOOLEAN
  /\ MaxSubmissions \in Nat
  /\ MaxCrashes \in Nat

VARIABLES
  \* One row of jobs, column by column.
  state,      \* state
  tid,        \* transcript_id: number of the job's transcript, 0 for NULL
  attempts,   \* attempts
  wait,       \* what next_attempt_at waits for: "none" (due), "backoff", "midnight"
  lease,      \* locked_until: "none" (NULL), "live", "expired"; locked_by is never read
  overdue,    \* parked and updated_at older than the overdue window
  \* The worker tasks and their open transactions.
  pc,         \* "idle", "claimed", "reserved", "submitted"
  snap,       \* the ClaimedJob the task works from
  got,        \* number of the last transcript the provider accepted from the task
  holds,      \* daily_usage row the task has reserved on: "none", "today", "past"; or it asks
              \* for the row of a day that is over: "early" (finds room there), "full" (none)
  \* Shared rows, reconcilers, and the world outside.
  used,       \* committed calls_submitted of today's daily_usage row
  sweep,      \* the open sweep of each reconciler
  transcript, \* status of every transcript at the provider
  crashes     \* losses so far

rowVars  == <<state, tid, attempts, wait, lease, overdue>>
taskVars == <<pc, snap, got, holds>>
vars == <<rowVars, taskVars, used, sweep, transcript, crashes>>

Number  == 1 .. MaxSubmissions
Claimed == [job : Job \cup {NoJob}, state : JobState, attempts : Nat, tid : 0 .. MaxSubmissions]
NoClaim == [job |-> NoJob, state |-> PendingTranscription, attempts |-> 0, tid |-> 0]

Item       == [job : Job, tid : 0 .. MaxSubmissions]
Answer     == {"none", "processing", "ready", "error"}
SweepWrite == {"none", "advance", "fail", "touch"}
NoItem     == [job |-> NoJob, tid |-> 0]
Sweep      == [on : BOOLEAN, todo : SUBSET Item, asked : Item \cup {NoItem},
              answer : Answer, writes : [Job -> SweepWrite]]
NoSweep    == [on |-> FALSE, todo |-> {}, asked |-> NoItem, answer |-> "none",
              writes |-> [j \in Job |-> "none"]]

(***************************************************************************)
(* The type invariant.                                                     *)
(***************************************************************************)
TypeOK ==
  /\ state \in [Job -> JobState]
  /\ tid \in [Job -> 0 .. MaxSubmissions]
  /\ attempts \in [Job -> Nat]
  /\ wait \in [Job -> {"none", "backoff", "midnight"}]
  /\ lease \in [Job -> {"none", "live", "expired"}]
  /\ overdue \in [Job -> BOOLEAN]
  /\ pc \in [Worker -> {"idle", "claimed", "reserved", "submitted"}]
  /\ snap \in [Worker -> Claimed]
  /\ got \in [Worker -> 0 .. MaxSubmissions]
  /\ holds \in [Worker -> {"none", "today", "past", "early", "full"}]
  /\ used \in 0 .. Cap
  /\ sweep \in [Sweeper -> Sweep]
  /\ transcript \in [Job -> [Number -> Answer]]
  /\ crashes \in 0 .. MaxCrashes

Init ==
  /\ state = [j \in Job |-> PendingTranscription]
  /\ tid = [j \in Job |-> 0]
  /\ attempts = [j \in Job |-> 0]
  /\ wait = [j \in Job |-> "none"]
  /\ lease = [j \in Job |-> "none"]
  /\ overdue = [j \in Job |-> FALSE]
  /\ pc = [w \in Worker |-> "idle"]
  /\ snap = [w \in Worker |-> NoClaim]
  /\ got = [w \in Worker |-> 0]
  /\ holds = [w \in Worker |-> "none"]
  /\ used = 0
  /\ sweep = [r \in Sweeper |-> NoSweep]
  /\ transcript = [j \in Job |-> [n \in Number |-> "none"]]
  /\ crashes = 0

-----------------------------------------------------------------------------
(***************************************************************************)
(* Rows and locks.                                                         *)
(***************************************************************************)

\* A sweep that has written a row locks it until the sweep commits.
RowLocked(j) == \E r \in Sweeper : sweep[r].writes[j] # "none"

Working(w, j) == pc[w] # "idle" /\ snap[w].job = j

\* Fault: the counter is read and written back without the row lock of the upsert.
UsageNotLocked == FALSE

\* A task holds today's daily_usage row from its reservation to its commit.
UsageLocked == \E w \in Worker : holds[w] = "today"

\* queue._set: the row is found by id alone, and its lock columns are cleared.
SetRow(j, s, t, a, n) ==
  /\ ~RowLocked(j)
  /\ state' = [state EXCEPT ![j] = s]
  /\ tid' = [tid EXCEPT ![j] = t]
  /\ attempts' = [attempts EXCEPT ![j] = a]
  /\ wait' = [wait EXCEPT ![j] = n]
  /\ lease' = [lease EXCEPT ![j] = "none"]
  /\ overdue' = [overdue EXCEPT ![j] = FALSE]

\* The task's transaction ends and the slot is free again.
EndTask(w) ==
  /\ pc' = [pc EXCEPT ![w] = "idle"]
  /\ snap' = [snap EXCEPT ![w] = NoClaim]
  /\ got' = [got EXCEPT ![w] = 0]
  /\ holds' = [holds EXCEPT ![w] = "none"]

-----------------------------------------------------------------------------
(***************************************************************************)
(* A worker task.                                                          *)
(***************************************************************************)

\* Faults: the claim looks at no lease; or it never takes an expired one back.
LeaseIgnored(j) == TRUE
NeverReclaimed(j) == lease[j] = "none"

\* locked_until IS NULL or past.
Unleased(j) == lease[j] # "live"

\* claim: due, claimable and not under a live lease; SKIP LOCKED passes over a
\* row another transaction has written.
Claim(w, j) ==
  /\ pc[w] = "idle"
  /\ state[j] \in Claimable
  /\ wait[j] = "none"
  /\ Unleased(j)
  /\ ~RowLocked(j)
  /\ lease' = [lease EXCEPT ![j] = "live"]
  /\ pc' = [pc EXCEPT ![w] = "claimed"]
  /\ snap' = [snap EXCEPT ![w] = [job |-> j, state |-> state[j],
                                  attempts |-> attempts[j], tid |-> tid[j]]]
  /\ UNCHANGED <<state, tid, attempts, wait, overdue, got, holds, used, sweep,
                 transcript, crashes>>

\* handle_transcription starts: no transcript id yet, so the cap row comes first.
AtCap(w) ==
  /\ pc[w] = "claimed"
  /\ snap[w].state = PendingTranscription
  /\ snap[w].tid = 0

\* check_and_reserve grants a slot, of the day it read before it waited for the row's lock;
\* the increment is part of the open transaction.
Reserve(w) ==
  /\ AtCap(w)
  /\ \/ /\ holds[w] = "none" /\ ~UsageLocked /\ used < Cap
        /\ holds' = [holds EXCEPT ![w] = "today"]
     \/ /\ holds[w] = "early"
        /\ holds' = [holds EXCEPT ![w] = "past"]
  /\ pc' = [pc EXCEPT ![w] = "reserved"]
  /\ UNCHANGED <<rowVars, snap, got, used, sweep, transcript, crashes>>

\* check_and_reserve refuses: Deferred, due again at the UTC midnight that is next now,
\* though another may have passed since it read the day.
Defer(w) ==
  LET j == snap[w].job IN
  /\ AtCap(w)
  /\ holds[w] = "full" \/ (holds[w] = "none" /\ ~UsageLocked /\ used >= Cap)
  /\ SetRow(j, state[j], tid[j], attempts[j], "midnight")
  /\ EndTask(w)
  /\ UNCHANGED <<used, sweep, transcript, crashes>>

\* stt.submit reaches the provider.  From "submitted" it is the client's own retry:
\* the provider had accepted the request it answered with a 5xx or 429.
Submit(w) ==
  LET j == snap[w].job IN
  /\ pc[w] \in {"reserved", "submitted"}
  /\ \E n \in Number :
       /\ transcript[j][n] = "none"
       /\ \A m \in Number : m < n => transcript[j][m] # "none"
       /\ transcript' = [transcript EXCEPT ![j][n] = "processing"]
       /\ got' = [got EXCEPT ![w] = n]
  /\ pc' = [pc EXCEPT ![w] = "submitted"]
  /\ UNCHANGED <<rowVars, snap, holds, used, sweep, crashes>>

\* Fault: a reservation made before midnight is booked on the new day.
CommitUsageToday(w) == used' = IF holds[w] # "none" THEN used + 1 ELSE used

\* The reservation becomes visible when the transaction of its task commits.
CommitUsage(w) == used' = IF holds[w] = "today" THEN used + 1 ELSE used

\* Fault: the id of the new transcript is dropped.
OldTid(w) == snap[w].tid

\* The transcript id of the Park outcome: the one the claim named, or the new one.
ParkTid(w) == IF snap[w].tid # 0 THEN snap[w].tid ELSE got[w]

\* Park: submitted, or submitted by an earlier attempt.
Park(w) ==
  LET j == snap[w].job IN
  /\ \/ pc[w] = "submitted"
     \/ pc[w] = "claimed" /\ snap[w].state = PendingTranscription /\ snap[w].tid # 0
  /\ CanTransition(snap[w].state, AwaitingTranscript)
  /\ SetRow(j, AwaitingTranscript, ParkTid(w), attempts[j], wait[j])
  /\ CommitUsage(w)
  /\ EndTask(w)
  /\ UNCHANGED <<sweep, transcript, crashes>>

\* handle_judge succeeds.
Complete(w) ==
  LET j == snap[w].job IN
  /\ pc[w] = "claimed"
  /\ snap[w].state = PendingJudge
  /\ snap[w].tid # 0
  /\ CanTransition(snap[w].state, Done)
  /\ SetRow(j, Done, tid[j], attempts[j], wait[j])
  /\ EndTask(w)
  /\ UNCHANGED <<used, sweep, transcript, crashes>>

\* A handler raises: the transaction is rolled back, then decide_failure dead-letters
\* or schedules a retry, with the attempts of the claim.
Fail(w, fatal) ==
  LET j == snap[w].job
      a == snap[w].attempts + 1
      dead == fatal \/ a >= MaxAttempts
  IN
  /\ pc[w] # "idle"
  /\ IF dead THEN SetRow(j, Failed, tid[j], a, wait[j])
             ELSE SetRow(j, state[j], tid[j], a, "backoff")
  /\ EndTask(w)
  /\ UNCHANGED <<used, sweep, transcript, crashes>>

\* The process dies, or the step's transaction cannot commit: nothing is written and
\* the lease stays.
TaskLost(w) ==
  /\ pc[w] # "idle"
  /\ crashes < MaxCrashes
  /\ crashes' = crashes + 1
  /\ EndTask(w)
  /\ UNCHANGED <<rowVars, used, sweep, transcript>>

TaskStep(w) ==
  \/ Reserve(w) \/ Defer(w) \/ Submit(w) \/ Park(w) \/ Complete(w)
  \/ \E fatal \in BOOLEAN : Fail(w, fatal)

-----------------------------------------------------------------------------
(***************************************************************************)
(* The provider and its webhook.                                           *)
(***************************************************************************)

\* The provider finishes a transcript, with text or with an error.
Transcribe(j, n) ==
  /\ transcript[j][n] = "processing"
  /\ \E s \in {"ready", "error"} : transcript' = [transcript EXCEPT ![j][n] = s]
  /\ UNCHANGED <<rowVars, taskVars, used, sweep, crashes>>

\* Faults: the row is matched by transcript id alone; a new stage gets a new budget.
MatchesInAnyState(j, n) == tid[j] = n
AdvanceFresh(j) == SetRow(j, PendingJudge, tid[j], 0, "none")

\* advance_to_judge_by_transcript: only the parked row that names this transcript.
Matches(j, n) == state[j] = AwaitingTranscript /\ tid[j] = n

AdvanceRow(j) == SetRow(j, PendingJudge, tid[j], attempts[j], "none")

\* A webhook delivery, on time, late or repeated; a lost one is never taken.  One
\* that matches no row answers 200 and changes nothing.
Webhook(j, n) ==
  /\ transcript[j][n] \in {"ready", "error"}
  /\ Matches(j, n)
  /\ IF transcript[j][n] = "ready"
       THEN AdvanceRow(j)
       ELSE SetRow(j, Failed, tid[j], attempts[j], wait[j])
  /\ UNCHANGED <<taskVars, used, sweep, transcript, crashes>>

-----------------------------------------------------------------------------
(***************************************************************************)
(* The reconciler: one transaction per sweep.                              *)
(***************************************************************************)

\* find_overdue_awaiting: the list of overdue parked rows, taken once.
SweepStarts(r) ==
  /\ ~sweep[r].on
  /\ LET late == {j \in Job : state[j] = AwaitingTranscript /\ overdue[j]} IN
       /\ late # {}
       /\ sweep' = [sweep EXCEPT ![r] = [NoSweep EXCEPT
            !.on = TRUE, !.todo = {[job |-> j, tid |-> tid[j]] : j \in late}]]
  /\ UNCHANGED <<rowVars, taskVars, used, transcript, crashes>>

\* stt.poll of the next listed transcript; a row parked without one is not polled.
Poll(r) ==
  /\ sweep[r].asked = NoItem
  /\ \E i \in sweep[r].todo :
       /\ i.job \notin Unpollable
       /\ sweep' = [sweep EXCEPT
            ![r].todo = @ \ {i},
            ![r].asked = i,
            ![r].answer = IF i.tid = 0 THEN "error" ELSE transcript[i.job][i.tid]]
  /\ UNCHANGED <<rowVars, taskVars, used, transcript, crashes>>

\* Fault: every status that is no error counts as finished.
VerdictEager(i, answer) == IF answer = "error" THEN "fail" ELSE "advance"

\* What an answer writes: mark_failed and touch go by job id whatever the row has
\* become since the poll, the advance by transcript id and state.
Verdict(i, answer) ==
  CASE answer = "ready" -> IF Matches(i.job, i.tid) THEN "advance" ELSE "none"
    [] answer = "error" -> "fail"
    [] OTHER            -> "touch"

\* The write for the polled row, which waits for another sweep's lock on it.
Record(r) ==
  LET i == sweep[r].asked IN
  /\ i # NoItem
  /\ ~RowLocked(i.job)
  /\ sweep' = [sweep EXCEPT ![r].asked = NoItem,
                            ![r].answer = "none",
                            ![r].writes[i.job] = Verdict(i, sweep[r].answer)]
  /\ UNCHANGED <<rowVars, taskVars, used, transcript, crashes>>

\* The sweep's transaction commits and its writes become visible together.
SweepCommits(r) ==
  LET w == sweep[r].writes
      Wrote(j, S) == w[j] \in S
      Written(j) == Wrote(j, {"advance", "fail"})
  IN
  /\ sweep[r].on
  /\ sweep[r].todo = {} /\ sweep[r].asked = NoItem
  /\ state' = [j \in Job |-> IF Wrote(j, {"advance"}) THEN PendingJudge
                             ELSE IF Wrote(j, {"fail"}) THEN Failed ELSE state[j]]
  /\ wait' = [j \in Job |-> IF Wrote(j, {"advance"}) THEN "none" ELSE wait[j]]
  /\ lease' = [j \in Job |-> IF Written(j) THEN "none" ELSE lease[j]]
  /\ overdue' = [j \in Job |-> IF w[j] # "none" THEN FALSE ELSE overdue[j]]
  /\ sweep' = [sweep EXCEPT ![r] = NoSweep]
  /\ UNCHANGED <<tid, attempts, taskVars, used, transcript, crashes>>

\* An exception out of a poll, a 4xx or an outage the client's retries do not outlast,
\* rolls the whole sweep back, earlier writes included.
PollRaises(r) ==
  /\ sweep[r].asked = NoItem
  /\ \E i \in sweep[r].todo :
       \/ i.job \in Unpollable /\ UNCHANGED crashes
       \/ i.job \notin Unpollable /\ crashes < MaxCrashes /\ crashes' = crashes + 1
  /\ sweep' = [sweep EXCEPT ![r] = NoSweep]
  /\ UNCHANGED <<rowVars, taskVars, used, transcript>>

\* The sweep dies with its process or its connection; of two sweeps that wait for
\* each other's rows the database aborts one.
SweepLost(r) ==
  /\ sweep[r].on
  /\ crashes < MaxCrashes
  /\ crashes' = crashes + 1
  /\ sweep' = [sweep EXCEPT ![r] = NoSweep]
  /\ UNCHANGED <<rowVars, taskVars, used, transcript>>

SweepStep(r) ==
  Poll(r) \/ Record(r) \/ SweepCommits(r) \/ PollRaises(r)

-----------------------------------------------------------------------------
(***************************************************************************)
(* Time.                                                                   *)
(***************************************************************************)

LeaseExpires(j) ==
  /\ lease[j] = "live"
  /\ LeaseOutlivesStep => \A w \in Worker : ~Working(w, j)
  /\ lease' = [lease EXCEPT ![j] = "expired"]
  /\ UNCHANGED <<state, tid, attempts, wait, overdue, taskVars, used, sweep,
                 transcript, crashes>>

BackoffElapses(j) ==
  /\ wait[j] = "backoff"
  /\ wait' = [wait EXCEPT ![j] = "none"]
  /\ UNCHANGED <<state, tid, attempts, lease, overdue, taskVars, used, sweep,
                 transcript, crashes>>

OverdueElapses(j) ==
  /\ state[j] = AwaitingTranscript
  /\ ~overdue[j]
  /\ overdue' = [overdue EXCEPT ![j] = TRUE]
  /\ UNCHANGED <<state, tid, attempts, wait, lease, taskVars, used, sweep,
                 transcript, crashes>>

\* What tasks that have read the day, and not the row, will find on the row of a day that
\* ends: room, if there is any, or none, if those that hold a slot of it keep it.
Finds(early, full) ==
  /\ early \cup full \subseteq {w \in Worker : AtCap(w) /\ holds[w] = "none"}
  /\ early \cap full = {}
  /\ early # {} => used + Cardinality(early) <= Cap
  /\ full # {} => used + Cardinality({w \in Worker : holds[w] = "today"}) >= Cap

\* UTC midnight: deferred jobs are due, and reservations go to a fresh daily_usage
\* row; one still open stays with the row of the day it was made on.
NewDay ==
  /\ used' = 0
  /\ wait' = [j \in Job |-> IF wait[j] = "midnight" THEN "none" ELSE wait[j]]
  /\ \E early, full \in SUBSET Worker :
       /\ Finds(early, full)
       /\ holds' = [w \in Worker |-> IF holds[w] = "today" THEN "past"
                                     ELSE IF w \in early THEN "early"
                                     ELSE IF w \in full THEN "full" ELSE holds[w]]
  /\ UNCHANGED <<state, tid, attempts, lease, overdue, pc, snap, got, sweep,
                 transcript, crashes>>

-----------------------------------------------------------------------------
Next ==
  \/ \E w \in Worker, j \in Job : Claim(w, j)
  \/ \E w \in Worker : TaskStep(w) \/ TaskLost(w)
  \/ \E j \in Job, n \in Number : Transcribe(j, n) \/ Webhook(j, n)
  \/ \E r \in Sweeper : SweepStarts(r) \/ SweepStep(r) \/ SweepLost(r)
  \/ \E j \in Job : LeaseExpires(j) \/ BackoffElapses(j) \/ OverdueElapses(j)
  \/ NewDay

Spec == Init /\ [][Next]_vars

(***************************************************************************)
(* Fairness: no step of a task hangs for ever, the loops of worker and     *)
(* reconciler keep running, clocks move, and the provider finishes what it *)
(* accepted.  The claim takes the oldest due job first, so a job that is   *)
(* claimable again and again is claimed (strong fairness).  Webhooks get   *)
(* none: every one of them may be lost.                                    *)
(***************************************************************************)
Fairness ==
  /\ \A w \in Worker : WF_vars(TaskStep(w))
  /\ \A j \in Job : /\ SF_vars(\E w \in Worker : Claim(w, j))
                    /\ WF_vars(LeaseExpires(j))
                    /\ WF_vars(BackoffElapses(j))
                    /\ WF_vars(OverdueElapses(j))
                    /\ \A n \in Number : WF_vars(Transcribe(j, n))
  /\ \A r \in Sweeper : WF_vars(SweepStarts(r)) /\ WF_vars(SweepStep(r))
  /\ WF_vars(NewDay)

FairSpec == Spec /\ Fairness

-----------------------------------------------------------------------------
(***************************************************************************)
(* Invariants.                                                             *)
(***************************************************************************)

\* A lease is exclusive: no two tasks work on one job at a time (queue.claim).
OneTaskPerJob ==
  \A w1, w2 \in Worker, j \in Job : Working(w1, j) /\ Working(w2, j) => w1 = w2

\* While a task works, the row is still the one it claimed: the state, attempts and
\* transcript id engine.process_one decides on are not stale, although it never reads
\* the row again and writes it by id alone.
ClaimStillHolds ==
  \A w \in Worker : pc[w] # "idle" =>
    LET j == snap[w].job IN
    snap[w] = [job |-> j, state |-> state[j], attempts |-> attempts[j], tid |-> tid[j]]

\* A parked job names a transcript the provider accepted, so a lost webhook leaves
\* the reconciler something to poll; its "parked without transcript_id" never happens.
ParkedHasTranscript ==
  \A j \in Job : state[j] = AwaitingTranscript =>
    tid[j] # 0 /\ transcript[j][tid[j]] # "none"

\* The judge only ever works on a transcript the provider finished with text, however
\* webhooks and sweeps were lost, repeated or late.
JudgeHasText ==
  \A j \in Job : state[j] = PendingJudge =>
    tid[j] # 0 /\ transcript[j][tid[j]] = "ready"

\* Tasks that race for the last slot of the day cannot both get it: committed and
\* still uncommitted reservations of today stay within the cap (caps.try_increment).
CapNotOversold ==
  used + Cardinality({w \in Worker : holds[w] = "today"}) <= Cap

(***************************************************************************)
(* Action properties.                                                      *)
(***************************************************************************)

\* Every change of a job's state is in the _ALLOWED table of states.py, whoever makes
\* it: so DONE and FAILED are final and no job goes back to an earlier stage.
LegalTransitions ==
  [][\A j \in Job : state'[j] # state[j] => CanTransition(state[j], state'[j])]_vars

\* Once the row names a transcript, no further one is submitted for the job (the
\* idempotency rule of handle_transcription: no double charge).
NeverResubmitRecorded ==
  [][\A j \in Job : tid[j] # 0 =>
       \A n \in Number : transcript[j][n] = "none" => transcript'[j][n] = "none"]_vars

\* A failed attempt is never forgotten and the budget is never overrun: the counter
\* that dead-lettering depends on only grows, up to max_attempts.
AttemptsCounted ==
  [][\A j \in Job : attempts'[j] >= attempts[j] /\ attempts'[j] <= MaxAttempts]_vars

(***************************************************************************)
(* Liveness.                                                               *)
(***************************************************************************)

\* Every job reaches a terminal state although all webhooks may be lost, tasks and
\* sweeps die, steps fail and the daily cap defers (NFR4 in reconciler.py).
Settles == \A j \in Job \ Unpollable : <>(state[j] \in Terminal)

\* A terminal state is reached for good, even where a stale task can undo one.
SettlesForGood == \A j \in Job : <>[](state[j] \in Terminal)

(***************************************************************************)
(* Refinement: the queue implements the lifecycle of JobLifecycle.         *)
(***************************************************************************)
Ticket == [j \in Job |-> IF tid[j] = 0 THEN "none" ELSE transcript[j][tid[j]]]

Lifecycle == INSTANCE JobLifecycle WITH ticket <- Ticket

\* Seen through its rows alone, every behaviour of the queue is one of the lifecycle.
ImplementsLifecycle == Lifecycle!Spec
=============================================================================
