---------------------------- MODULE JobLifecycle ----------------------------
(***************************************************************************)
(* What the pipeline promises for each job, with no worker, lease, retry,  *)
(* webhook or reconciler in sight: the job is handed to the transcription  *)
(* provider once as far as its row can tell, is judged only on a finished  *)
(* transcript, and reaches a terminal state and stays there.  The contract *)
(* is the one the header of orchestration/states.py draws.                 *)
(***************************************************************************)
EXTENDS JobStates

CONSTANT Job

VARIABLES
  state,   \* where the job stands
  ticket   \* status of the transcript the job's row names, "none" when it names none

vars == <<state, ticket>>

TypeOK == /\ state \in [Job -> JobState]
          /\ ticket \in [Job -> {"none", "processing", "ready", "error"}]

Init == /\ state = [j \in Job |-> PendingTranscription]
        /\ ticket = [j \in Job |-> "none"]

Move(j, from, to) == state[j] = from /\ state' = [state EXCEPT ![j] = to]

\* The row names the provider's transcript, which may have finished already.
Submit(j) == /\ Move(j, PendingTranscription, AwaitingTranscript)
             /\ \E s \in {"processing", "ready", "error"} :
                  ticket' = [ticket EXCEPT ![j] = s]

Transcribed(j) == /\ ticket[j] = "processing"
                  /\ \E s \in {"ready", "error"} : ticket' = [ticket EXCEPT ![j] = s]
                  /\ UNCHANGED state

Advance(j) == /\ ticket[j] = "ready"
              /\ Move(j, AwaitingTranscript, PendingJudge)
              /\ UNCHANGED ticket

Reject(j) == /\ ticket[j] = "error"
             /\ Move(j, AwaitingTranscript, Failed)
             /\ UNCHANGED ticket

Judge(j) == Move(j, PendingJudge, Done) /\ UNCHANGED ticket

GiveUp(j) == /\ \E s \in Claimable : Move(j, s, Failed)
             /\ UNCHANGED ticket

Step(j) == Submit(j) \/ Transcribed(j) \/ Advance(j) \/ Reject(j) \/ Judge(j) \/ GiveUp(j)

\* A sweep settles several jobs in one transaction.
Settle(S) == /\ \A j \in S : state[j] = AwaitingTranscript /\ ticket[j] \in {"ready", "error"}
             /\ state' = [j \in Job |-> IF j \notin S THEN state[j]
                                        ELSE IF ticket[j] = "ready" THEN PendingJudge
                                        ELSE Failed]
             /\ UNCHANGED ticket

Next == (\E j \in Job : Step(j)) \/ (\E S \in SUBSET Job : Settle(S))

\* What may happen, and what must happen in the end.
Safety == Init /\ [][Next]_vars

Spec == Safety /\ \A j \in Job : WF_vars(Step(j))
=============================================================================
