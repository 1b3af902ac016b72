----------------------------- MODULE JudgePass -----------------------------
(***************************************************************************)
(* The judge passes of a worker process under the guard for Gemini: the    *)
(* recording is handed over, the guard is entered, the agents the option   *)
(* asks for are called one after the other with their retries, and the     *)
(* guard is left.  One token of the bucket of requests pays for the whole  *)
(* pass.  Sources under backend/app: orchestration/handlers.py,            *)
(* judge/client.py, merged.py, subjective.py, narrative.py, embeddings.py, *)
(* gemini.py, options.py, service.py, ratelimit/backoff.py.                *)
(*                                                                         *)
(* A task is one slot of the worker, and begins passes anew.  A backoff is *)
(* any delay: only its end, the next request, is a step.                   *)
(***************************************************************************)
EXTENDS Limiter, FiniteSets

CONSTANTS
  Option,         \* options of the calls the worker judges
  HigherTier,     \* an escalation judge is configured
  Tries,          \* retry_max_attempts
  MaxObjections   \* bound: objections found in a call

ASSUME PassAssumption ==
  /\ IsFiniteSet(Task)
  /\ Option \subseteq {"FULL", "FEEDBACK_IDEAL", "CHECKLIST_ONLY"}
  /\ HigherTier \in BOOLEAN
  /\ Tries \in Nat \ {0}
  /\ MaxObjections \in Nat

VARIABLES
  agents,   \* agents a pass has still to hear from
  tries,    \* attempts made at the next one
  \* Observed.
  sent      \* requests sent in each pass

passVars == <<agents, tries, sent>>
vars == <<limiterVars, passVars>>

NeedsFeedback(o)  == o \in {"FULL", "FEEDBACK_IDEAL"}
NeedsChecklist(o) == o \in {"FULL", "CHECKLIST_ONLY"}
NeedsIdeal(o)     == o \in {"FULL", "FEEDBACK_IDEAL"}

When(cond, seq) == IF cond THEN seq ELSE <<>>

\* The requests of a pass, in order: the option's first agent, the higher tier if items
\* escalate, the rewriter, and one embedding for each of n objections.
Pipeline(o, escalates, n) ==
  (IF o = "FULL" THEN <<"merged">>
   ELSE IF NeedsFeedback(o) THEN <<"feedback">> ELSE <<"checklist">>)
  \o When(NeedsChecklist(o) /\ escalates, <<"checklist">>)
  \o When(NeedsIdeal(o), <<"ideal">>)
  \o When(NeedsFeedback(o), [i \in 1 .. n |-> "embed"])

Agent == {"merged", "feedback", "checklist", "ideal", "embed"}

\* Requests one pass may send: every agent of the longest pipeline with every attempt.
MostRequests == (3 + MaxObjections) * Tries

TypeOK ==
  /\ LimiterTypeOK
  /\ agents \in [Task -> Seq(Agent)]
  /\ tries \in [Task -> 0 .. Tries - 1]
  /\ sent \in [Task -> Nat]

Init ==
  /\ LimiterInit
  /\ agents = [t \in Task |-> <<>>]
  /\ tries = [t \in Task |-> 0]
  /\ sent = [t \in Task |-> 0]

-----------------------------------------------------------------------------
(***************************************************************************)
(* Before the guard.                                                       *)
(***************************************************************************)

\* The recording is read and handed over, as a stored file or inline: what the agents hear is left
\* out, and so is the upload, which the guard does not cover.  Then the pass queues.
Begin(t) ==
  /\ Arrive(t)
  /\ UNCHANGED passVars

\* Fault: whoever wakes first takes the free slot.
EnterOutOfTurn(t) ==
  /\ pc[t] = "line" /\ free > 0
  /\ GoesTo(t, "rpm")
  /\ line' = SelectSeq(line, LAMBDA u : u # t)
  /\ free' = free - 1
  /\ UNCHANGED <<bucketVars, passVars>>
Enter(t) == Admit(t) /\ UNCHANGED passVars

\* The last bucket lets the task in, and the pass begins.  How many items escalate and how many
\* objections are found is settled by the answers; it is chosen here.
Pay(t, b) ==
  /\ Take(t, b)
  /\ IF After(b) = "inside"
     THEN \E o \in Option, escalates \in {FALSE, HigherTier}, n \in 0 .. MaxObjections :
            agents' = [agents EXCEPT ![t] = Pipeline(o, escalates, n)]
     ELSE UNCHANGED agents
  /\ UNCHANGED <<tries, sent>>

Sleep(t, b) == Doze(t, b) /\ UNCHANGED passVars

-----------------------------------------------------------------------------
(***************************************************************************)
(* Inside the guard: requests, each with retry_async around it.            *)
(***************************************************************************)

\* Whether a failed attempt is followed by another: 429 and 5xx are, until the attempts are
\* used up; any other error propagates at once.
\* Fault: the attempts are never used up.
RetriesForever(t, answer) == answer = "busy"
Retries(t, answer) == answer = "busy" /\ tries[t] + 1 < Tries

\* One request to an agent.  An answer that is refused, empty or does not parse ends the pass.
Ask(t, agent, answers) ==
  /\ pc[t] = "inside" /\ agents[t] # <<>> /\ Head(agents[t]) = agent
  /\ sent' = [sent EXCEPT ![t] = @ + 1]
  /\ \E answer \in answers :
       /\ agents' = [agents EXCEPT ![t] = IF answer = "ok" THEN Tail(@)
                                          ELSE IF Retries(t, answer) THEN @ ELSE <<>>]
       /\ tries' = [tries EXCEPT ![t] = IF Retries(t, answer) THEN @ + 1 ELSE 0]
  /\ UNCHANGED limiterVars

Checklist(t) == Ask(t, "checklist", {"ok", "busy", "refused", "empty", "invalid"})
Merged(t)    == Ask(t, "merged",    {"ok", "busy", "refused", "empty", "invalid"})
Feedback(t)  == Ask(t, "feedback",  {"ok", "busy", "refused", "empty", "invalid"})
Ideal(t)     == Ask(t, "ideal",     {"ok", "busy", "refused", "empty", "invalid"})
Embed(t)     == Ask(t, "embed",     {"ok", "busy", "refused"})

\* judge_call has returned or raised, and the guard is left.
Finish(t) ==
  /\ agents[t] = <<>>
  /\ Leave(t)
  /\ sent' = [sent EXCEPT ![t] = 0]
  /\ UNCHANGED <<agents, tries>>

-----------------------------------------------------------------------------
(***************************************************************************)
(* Time and the process.                                                   *)
(***************************************************************************)

Elapse ==
  /\ Tick
  /\ UNCHANGED passVars

\* The worker process dies with all its passes.  Their jobs come back by their leases.
Die ==
  /\ Restart
  /\ agents' = [t \in Task |-> <<>>]
  /\ tries' = [t \in Task |-> 0]
  /\ sent' = [t \in Task |-> 0]

TaskStep(t) ==
  \/ Begin(t) \/ Enter(t) \/ Finish(t)
  \/ \E b \in Bucket : Pay(t, b) \/ Sleep(t, b)
  \/ Merged(t) \/ Feedback(t) \/ Checklist(t) \/ Ideal(t) \/ Embed(t)

Next == (\E t \in Task : TaskStep(t)) \/ Elapse \/ Die

\* The event loop runs every task that can run, and time passes.
Fairness ==
  /\ \A t \in Task : WF_vars(TaskStep(t))
  /\ WF_vars(Elapse)

Spec == Init /\ [][Next]_vars /\ Fairness

-----------------------------------------------------------------------------
(***************************************************************************)
(* Properties.                                                             *)
(***************************************************************************)

\* Every slot of the semaphore is free or held by a task between its admission and the end of
\* its pass, however the pass ends: no failed, refused or exhausted pass leaks a slot or gives
\* one back twice.
SlotsConserved == free + Cardinality({t \in Task : pc[t] \in Holding}) = Slots

\* The bucket of requests is charged once for a pass that sends several: what the provider sees
\* of a pass is bounded only by every attempt of every agent of its pipeline.
PassBounded == \A t \in Task : sent[t] <= MostRequests

\* The semaphore serves in turn: whoever queues at it is admitted, however many passes others
\* begin meanwhile and however these end, unless the process dies.
Admitted == \A t \in Task : pc[t] = "line" ~> pc[t] # "line"

\* The buckets never bring the worker to a stop, sleepers wake, and a request too large for its
\* bucket is not held back for ever: when tasks wait at them, one gets inside, unless the process
\* dies.  Which of them is open: see Served.
Flows == (\E t \in Task : pc[t] \in Bucket)
           ~> ((\E t \in Task : pc[t] = "inside") \/ \A t \in Task : pc[t] \notin Bucket)

\* Whoever waits at a bucket gets its tokens, unless the process dies.  The code does not keep
\* this: a task sleeps outside the bucket's lock, nothing reserves for it what it waits for, and
\* a task that comes later may take it at every wake.
Served == \A t \in Task, b \in Bucket : pc[t] = b ~> pc[t] # b

\* The passes use the guard as Limiter has it.
UsesLimiter == LimiterSpec

=============================================================================
