--------------------------- MODULE ArtifactsProofs ---------------------------
(***************************************************************************)
(* What CallArtifacts promises of rows and objects, for any number of      *)
(* calls, purges and readers.                                              *)
(***************************************************************************)
EXTENDS CallArtifacts, TLAPS

\* What a purge has still to take of the call it is at.
Rest == {Objects, <<"transcript", "report">>, <<"report">>, <<>>}

Purge ==
  [on : BOOLEAN, calls : SUBSET Call, late : SUBSET Call, todo : SUBSET Call, at : SUBSET Call,
   left : Rest]

Shape ==
  /\ row \in [Call -> BOOLEAN] /\ uri \in [Call -> BOOLEAN] /\ report \in [Call -> BOOLEAN]
  /\ state \in [Call -> JobState]
  /\ mode \in PiiMode
  /\ recording \in [Call -> {"none", "original", "beeped"}]
  /\ text \in [Call -> {"none", "raw", "redacted"}]
  /\ html \in [Call -> BOOLEAN]
  /\ pc \in [Call -> {"idle", "submitting", "fetching", "hearing", "judging", "swapping",
                      "finishing"}]
  /\ asked \in [Call -> PiiMode \cup {"none"}]
  /\ found \in [Call -> PiiMode]
  /\ heard \in [Call -> {"none", "original", "beeped"}]
  /\ purge \in [Purger -> Purge]
  /\ viewing \in [Viewer -> SUBSET Call]
  /\ old \in [Call -> BOOLEAN]
  /\ purged \subseteq Call /\ stray \subseteq Call
  /\ losses \in 0 .. MaxLosses

\* The stored transcript stays until a deletion begins, from the fetch of a step on.
UriInv ==
  \A c \in Call \ purged :
    uri[c] \/ pc[c] \in {"hearing", "judging", "swapping", "finishing"} => text[c] # "none"

\* A beeped recording is that of a call no step will hear again.
HearInv ==
  losses = 0 => \A c \in Call :
    /\ heard[c] # "beeped"
    /\ recording[c] = "beeped" =>
         pc[c] = "finishing" \/ (pc[c] = "idle" /\ (state[c] = Done \/ ~row[c]))

\* What a purge has passed is gone, and what it has taken of the call it is at.
Taken(p, c) ==
  /\ recording[c] # "none" => c \in purge[p].at /\ purge[p].left = Objects
  /\ text[c] # "none" => c \in purge[p].at /\ Len(purge[p].left) >= 2
  /\ html[c] => c \in purge[p].at /\ purge[p].left # <<>>

PurgeInv ==
  \A p \in Purger :
    /\ purge[p].at \cup purge[p].todo \subseteq purge[p].calls
    /\ purge[p].calls \ purge[p].todo \subseteq purged
    /\ purge[p].at \subseteq purged
    /\ \A c \in (purge[p].calls \ purge[p].todo) \ stray : Taken(p, c)

ArtifactsInv == Shape /\ UriInv /\ HearInv /\ PurgeInv /\ DeletedLeavesNothing

-----------------------------------------------------------------------------
LEMMA Tails ==
  /\ Len(Objects) = 3 /\ Objects # <<>> /\ Head(Objects) = "recording"
  /\ Tail(Objects) = <<"transcript", "report">>
  /\ Head(<<"transcript", "report">>) = "transcript"
  /\ Tail(<<"transcript", "report">>) = <<"report">>
  /\ Head(<<"report">>) = "report" /\ Tail(<<"report">>) = <<>>
  /\ Len(<<"transcript", "report">>) = 2 /\ Len(<<"report">>) = 1
  BY DEF Objects

LEMMA RestIsSuffix ==
  ASSUME NEW l \in Rest
  PROVE  \E n \in 0 .. 3 : l = SubSeq(Objects, n + 1, 3)
  <1>1. Objects = SubSeq(Objects, 0 + 1, 3)  BY DEF Objects
  <1>2. <<"transcript", "report">> = SubSeq(Objects, 1 + 1, 3)  BY DEF Objects
  <1>3. <<"report">> = SubSeq(Objects, 2 + 1, 3)  BY DEF Objects
  <1>4. <<>> = SubSeq(Objects, 3 + 1, 3)  BY DEF Objects
  <1>5. CASE l = Objects  BY <1>1, <1>5
  <1>6. CASE l = <<"transcript", "report">>  BY <1>2, <1>6
  <1>7. CASE l = <<"report">>  BY <1>3, <1>7
  <1>8. CASE l = <<>>  BY <1>4, <1>8
  <1> QED BY <1>5, <1>6, <1>7, <1>8 DEF Rest

-----------------------------------------------------------------------------
(***************************************************************************)
(* Types.                                                                  *)
(***************************************************************************)
LEMMA StepShape ==
  ASSUME Shape, NEW c \in Call, Step(c)
  PROVE  Shape'
  <1> USE DEF Shape, GoTo, EndStep, SetState, Stores, JobState, PiiMode, bucketVars, otherVars,
              dbVars, stepVars
  <1>1. CASE Submission(c)  BY <1>1 DEF Submission, LiveLevel
  <1>2. CASE Submits(c)  BY <1>2 DEF Submits
  <1>3. CASE Judgement(c)  BY <1>3 DEF Judgement, LiveLevel
  <1>4. CASE Fetch(c)  BY <1>4 DEF Fetch, StoredText
  <1>5. CASE Hear(c)  BY <1>5 DEF Hear
  <1>6. CASE Judge(c)  BY <1>6 DEF Judge
  <1>7. CASE Swap(c)  BY <1>7 DEF Swap
  <1>8. CASE Finish(c)  BY <1>8 DEF Finish
  <1>9. CASE Raise(c)  BY <1>9 DEF Raise
  <1> QED BY <1>1, <1>2, <1>3, <1>4, <1>5, <1>6, <1>7, <1>8, <1>9 DEF Step

LEMMA LeftType ==
  ASSUME NEW r \in Purge, NEW l \in Rest
  PROVE  [r EXCEPT !.left = l] \in Purge
  BY DEF Purge

LEMMA PurgeShape ==
  ASSUME Shape, NEW p \in Purger, \/ PurgeStep(p) \/ PurgeLost(p)
                                 \/ \E S, late \in SUBSET Call : PurgeStarts(p, S, late)
  PROVE  Shape'
  <1> USE DEF Shape, bucketVars, dbVars, stepVars
  <1>0. Idle \in Purge
    BY DEF Idle, Rest, Purge
  <1>1. ASSUME NEW S \in SUBSET Call, NEW late \in SUBSET Call, PurgeStarts(p, S, late)
        PROVE  Shape'
    BY <1>0, <1>1 DEF PurgeStarts, Purge
  <1>2. ASSUME NEW c \in Call, PurgeCall(p, c) PROVE Shape'
    <2> DEFINE one == [purge[p] EXCEPT !.todo = @ \ {c}, !.at = {c}, !.left = Objects]
    <2>1. one \in Purge
      <3>1. purge[p] \in Purge
        OBVIOUS
      <3>2. {c} \subseteq Call /\ Objects \in Rest  BY DEF Rest
      <3> QED BY <3>1, <3>2 DEF Purge
    <2>2. purge' = [purge EXCEPT ![p] = one]  BY <1>2 DEF PurgeCall
    <2>3. purge' \in [Purger -> Purge]
      <3> HIDE DEF one
      <3> QED BY <2>1, <2>2
    <2>4. purged' \subseteq Call  BY <1>2 DEF PurgeCall
    <2>5. UNCHANGED <<dbVars, mode, bucketVars, stepVars, viewing, old, stray, losses>>
      BY <1>2 DEF PurgeCall
    <2> QED BY <2>3, <2>4, <2>5
  <1>3. CASE PurgeObject(p)
    <2>1. Tail(purge[p].left) \in Rest  BY <1>3, Tails DEF PurgeObject, Rest, Purge
    <2>2. html' \in [Call -> BOOLEAN]
      <3>1. \A c \in Call : (html[c] /\ ~Deletes(p, c, "report")) \in BOOLEAN  OBVIOUS
      <3> QED BY <1>3, <3>1 DEF PurgeObject
    <2>3. recording' \in [Call -> {"none", "original", "beeped"}]
      BY <1>3 DEF PurgeObject
    <2>4. text' \in [Call -> {"none", "raw", "redacted"}]
      BY <1>3 DEF PurgeObject
    <2>5. purge' \in [Purger -> Purge]
      <3> DEFINE one == [purge[p] EXCEPT !.left = Tail(@)]
      <3>1. one \in Purge  BY <2>1, LeftType
      <3>2. purge' = [purge EXCEPT ![p] = one]  BY <1>3 DEF PurgeObject
      <3> HIDE DEF one
      <3> QED BY <3>1, <3>2
    <2>6. UNCHANGED <<dbVars, mode, stepVars, viewing, old, purged, stray, losses>>
      BY <1>3 DEF PurgeObject
    <2> QED BY <2>2, <2>3, <2>4, <2>5, <2>6
  <1>4. CASE PurgeCommits(p)
    <2>1. purge' \in [Purger -> Purge]  BY <1>0, <1>4 DEF PurgeCommits
    <2>2. stray' \subseteq Call  BY <1>4 DEF PurgeCommits, Rows
    <2> QED BY <1>4, <2>1, <2>2 DEF PurgeCommits, DeleteRows
  <1>5. CASE PurgeLost(p)  BY <1>0, <1>5, ArtifactsAssumption DEF PurgeLost
  <1> QED BY <1>1, <1>2, <1>3, <1>4, <1>5 DEF PurgeStep

LEMMA NextShape ==
  ASSUME Shape, [Next]_vars
  PROVE  Shape'
  <1>1. CASE \E c \in Call : Step(c)  BY <1>1, StepShape
  <1>2. CASE \E p \in Purger : \/ PurgeStep(p) \/ PurgeLost(p)
                              \/ \E S, late \in SUBSET Call : PurgeStarts(p, S, late)
    BY <1>2, PurgeShape
  <1> USE DEF Shape, EndStep, GoTo, SetState, Stores, JobState, PiiMode, bucketVars, otherVars,
              dbVars, stepVars
  <1>3. ASSUME NEW c \in Call, StepLost(c) PROVE Shape'
    BY <1>3, ArtifactsAssumption DEF StepLost
  <1>4. ASSUME NEW c \in Call, ProviderAnswers(c) PROVE Shape'  BY <1>4 DEF ProviderAnswers
  <1>5. ASSUME NEW c \in Call, Ages(c) PROVE Shape'  BY <1>5 DEF Ages
  <1>6. ASSUME NEW v \in Viewer, NEW c \in Call, View(v, c) PROVE Shape'  BY <1>6 DEF View
  <1>7. ASSUME NEW v \in Viewer, NEW c \in Call, Export(v, c) PROVE Shape'
    BY <1>7 DEF Export
  <1>8. ASSUME NEW m \in Level \ {mode}, SetPiiMode(m) PROVE Shape'
    BY <1>8, ArtifactsAssumption DEF SetPiiMode
  <1>9. CASE DeletePortfolio  BY <1>9 DEF DeletePortfolio, DeleteRows, Rows
  <1>10. CASE UNCHANGED vars  BY <1>10 DEF vars
  <1> QED BY <1>1, <1>2, <1>3, <1>4, <1>5, <1>6, <1>7, <1>8, <1>9, <1>10 DEF Next

-----------------------------------------------------------------------------
(***************************************************************************)
(* What is stored stays until a deletion begins.                           *)
(***************************************************************************)
LEMMA NextUri ==
  ASSUME Shape, UriInv, PurgeInv, [Next]_vars
  PROVE  UriInv'
  <1> USE DEF Shape, UriInv, bucketVars, otherVars, dbVars, stepVars
  <1>1. ASSUME NEW d \in Call, Step(d) PROVE UriInv'
    <2> USE DEF EndStep, GoTo
    <2>1. CASE Submission(d)  BY <2>1 DEF Submission
    <2>2. CASE Submits(d)  BY <2>2 DEF Submits
    <2>3. CASE Judgement(d)  BY <2>3 DEF Judgement
    <2>4. CASE Fetch(d)  BY <2>4 DEF Fetch, StoredText
    <2>5. CASE Hear(d)  BY <2>5 DEF Hear
    <2>6. CASE Judge(d)  BY <2>6 DEF Judge
    <2>7. CASE Swap(d)  BY <2>7 DEF Swap
    <2>8. CASE Finish(d)  BY <2>8 DEF Finish
    <2>9. CASE Raise(d)  BY <2>9 DEF Raise
    <2> QED BY <1>1, <2>1, <2>2, <2>3, <2>4, <2>5, <2>6, <2>7, <2>8, <2>9 DEF Step
  <1>2. ASSUME NEW d \in Call, StepLost(d) PROVE UriInv'  BY <1>2 DEF StepLost, EndStep, GoTo
  <1>3. ASSUME NEW p \in Purger, PurgeStep(p) PROVE UriInv'
    <2>1. ASSUME NEW d \in Call, PurgeCall(p, d) PROVE UriInv'  BY <2>1 DEF PurgeCall
    <2>2. CASE PurgeObject(p)
      <3>1. \A c \in Call \ purged : c \notin purge[p].at  BY DEF PurgeInv
      <3>2. \A c \in Call \ purged : text'[c] = text[c]  BY <2>2, <3>1 DEF PurgeObject, Deletes
      <3> QED BY <2>2, <3>2 DEF PurgeObject
    <2>3. CASE PurgeCommits(p)  BY <2>3 DEF PurgeCommits, DeleteRows
    <2> QED BY <1>3, <2>1, <2>2, <2>3 DEF PurgeStep
  <1>4. CASE DeletePortfolio  BY <1>4 DEF DeletePortfolio, DeleteRows
  <1>5. ASSUME UNCHANGED <<uri, pc, text, purged>> PROVE UriInv'  BY <1>5
  <1>6. CASE \E v \in Viewer, c \in Call : View(v, c) \/ Export(v, c)
    BY <1>5, <1>6 DEF View, Export
  <1>7. CASE \/ \E c \in Call : ProviderAnswers(c) \/ Ages(c)
             \/ \E p \in Purger : \/ PurgeLost(p)
                                  \/ \E S, late \in SUBSET Call : PurgeStarts(p, S, late)
             \/ \E m \in Level \ {mode} : SetPiiMode(m)
             \/ UNCHANGED vars
    BY <1>5, <1>7 DEF ProviderAnswers, Ages, PurgeLost, PurgeStarts, SetPiiMode, vars
  <1> QED BY <1>1, <1>2, <1>3, <1>4, <1>6, <1>7 DEF Next

LEMMA NextHear ==
  ASSUME Shape, HearInv, [Next]_vars
  PROVE  HearInv'
  <1> USE DEF Shape, HearInv, bucketVars, otherVars, dbVars, stepVars
  <1>0. PendingTranscription # Done /\ PendingJudge # Done /\ AwaitingTranscript # Done
    BY DEF PendingTranscription, PendingJudge, AwaitingTranscript, Done
  <1>1. ASSUME NEW d \in Call, Step(d) PROVE HearInv'
    <2> USE <1>0 DEF EndStep, GoTo, SetState
    <2>1. CASE Submission(d)  BY <2>1 DEF Submission
    <2>2. CASE Submits(d)  BY <2>2 DEF Submits
    <2>3. CASE Judgement(d)  BY <2>3 DEF Judgement
    <2>4. CASE Fetch(d)  BY <2>4 DEF Fetch
    <2>5. CASE Hear(d)  BY <2>5 DEF Hear
    <2>6. CASE Judge(d)  BY <2>6 DEF Judge
    <2>7. CASE Swap(d)  BY <2>7 DEF Swap
    <2>8. CASE Finish(d)  BY <2>8 DEF Finish
    <2>9. CASE Raise(d)  BY <2>9 DEF Raise, MayRaise
    <2> QED BY <1>1, <2>1, <2>2, <2>3, <2>4, <2>5, <2>6, <2>7, <2>8, <2>9 DEF Step
  <1>2. ASSUME \/ \E d \in Call : StepLost(d)
               \/ \E p \in Purger : PurgeLost(p)
        PROVE HearInv'
    <2>1. losses' # 0  BY <1>2, ArtifactsAssumption DEF StepLost, PurgeLost
    <2> QED BY <2>1
  <1>3. ASSUME NEW d \in Call, ProviderAnswers(d) PROVE HearInv'
    BY <1>0, <1>3 DEF ProviderAnswers, SetState
  <1>4. ASSUME NEW p \in Purger, PurgeObject(p) PROVE HearInv'
    <2>1. \A c \in Call : recording'[c] \in {recording[c], "none"}  BY <1>4 DEF PurgeObject
    <2> QED BY <1>4, <2>1 DEF PurgeObject
  <1>5. ASSUME NEW p \in Purger, PurgeCommits(p) PROVE HearInv'
    <2>1. \A c \in Call : ~row[c] => ~row'[c]  BY <1>5 DEF PurgeCommits, DeleteRows
    <2> QED BY <1>5, <2>1 DEF PurgeCommits
  <1>6. CASE DeletePortfolio
    <2>1. \A c \in Call : ~row[c] => ~row'[c]  BY <1>6 DEF DeletePortfolio, DeleteRows
    <2> QED BY <1>6, <2>1 DEF DeletePortfolio
  <1>7. ASSUME UNCHANGED <<losses, heard, recording, pc, state, row>> PROVE HearInv'  BY <1>7
  <1>8. CASE \E v \in Viewer, c \in Call : View(v, c) \/ Export(v, c)
    BY <1>7, <1>8 DEF View, Export
  <1>9. CASE \/ \E c \in Call : Ages(c)
             \/ \E p \in Purger : \/ \E S, late \in SUBSET Call : PurgeStarts(p, S, late)
                                  \/ \E c \in Call : PurgeCall(p, c)
             \/ \E m \in Level \ {mode} : SetPiiMode(m)
             \/ UNCHANGED vars
    BY <1>7, <1>9 DEF Ages, PurgeCall, PurgeStarts, SetPiiMode, vars
  <1> QED BY <1>1, <1>2, <1>3, <1>4, <1>5, <1>6, <1>8, <1>9 DEF Next, PurgeStep

-----------------------------------------------------------------------------
(***************************************************************************)
(* A purge leaves nothing behind.                                          *)
(***************************************************************************)

\* Objects only go, other than of calls that become stray or that no purge has begun on.
Fewer ==
  /\ stray \subseteq stray' /\ purged \subseteq purged'
  /\ \A c \in Call \ stray' : c \in purged \/ ~row[c] =>
       /\ recording'[c] \in {recording[c], "none"}
       /\ text'[c] \in {text[c], "none"}
       /\ html'[c] => html[c]

LEMMA TakenStays ==
  ASSUME Shape, PurgeInv, Fewer, NEW p \in Purger, purge'[p] = purge[p]
  PROVE  /\ purge'[p].at \cup purge'[p].todo \subseteq purge'[p].calls
         /\ purge'[p].calls \ purge'[p].todo \subseteq purged'
         /\ purge'[p].at \subseteq purged'
         /\ \A c \in (purge'[p].calls \ purge'[p].todo) \ stray' : Taken(p, c)'
  <1>1. /\ purge[p].at \cup purge[p].todo \subseteq purge[p].calls
        /\ purge[p].calls \ purge[p].todo \subseteq purged
        /\ purge[p].at \subseteq purged
        /\ \A c \in (purge[p].calls \ purge[p].todo) \ stray : Taken(p, c)
    BY DEF PurgeInv
  <1>2. purged \subseteq Call /\ purged \subseteq purged' /\ stray \subseteq stray'
    BY DEF Shape, Fewer
  <1>3. ASSUME NEW c \in (purge[p].calls \ purge[p].todo) \ stray'
        PROVE  Taken(p, c)'
    <2>1. Taken(p, c) /\ c \in purged /\ c \in Call  BY <1>1, <1>2
    <2>2. /\ recording'[c] \in {recording[c], "none"} /\ text'[c] \in {text[c], "none"}
          /\ html'[c] => html[c]
      BY <2>1, <1>3 DEF Fewer
    <2> QED BY <2>1, <2>2 DEF Taken
  <1> QED BY <1>1, <1>2, <1>3

\* Every step but a deletion stores under the eyes of stray, or only takes objects.
LEMMA NextFewer ==
  ASSUME Shape, [Next]_vars
  PROVE  Fewer
  <1> USE DEF Shape, Fewer, bucketVars, otherVars, dbVars, stepVars
  <1>1. ASSUME NEW d \in Call, Step(d) PROVE Fewer
    <2>1. CASE \/ Submission(d) \/ Submits(d) \/ Judgement(d) \/ Hear(d) \/ Judge(d)
               \/ Finish(d) \/ Raise(d)
      BY <2>1 DEF Submission, Submits, Judgement, Hear, Judge, Finish, Raise
    <2>2. CASE Fetch(d)  BY <2>2 DEF Fetch, Stores
    <2>3. CASE Swap(d)  BY <2>3 DEF Swap, Stores
    <2> QED BY <1>1, <2>1, <2>2, <2>3 DEF Step
  <1>2. ASSUME NEW p \in Purger, PurgeObject(p) PROVE Fewer
    <2>1. \A c \in Call : /\ recording'[c] \in {recording[c], "none"}
                          /\ text'[c] \in {text[c], "none"}
                          /\ html'[c] => html[c]
      BY <1>2 DEF PurgeObject
    <2> QED BY <1>2, <2>1 DEF PurgeObject
  <1>3. ASSUME NEW p \in Purger, \/ PurgeCommits(p) \/ PurgeLost(p)
                                \/ \E c \in Call : PurgeCall(p, c)
                                \/ \E S, late \in SUBSET Call : PurgeStarts(p, S, late)
        PROVE  Fewer
    BY <1>3 DEF PurgeCommits, PurgeLost, PurgeCall, PurgeStarts
  <1>4. ASSUME NEW v \in Viewer, NEW c \in Call, View(v, c) \/ Export(v, c) PROVE Fewer
    BY <1>4 DEF View, Export, Stores
  <1>5. CASE DeletePortfolio  BY <1>5 DEF DeletePortfolio
  <1>6. CASE \/ \E c \in Call : ProviderAnswers(c) \/ Ages(c) \/ StepLost(c)
             \/ \E m \in Level \ {mode} : SetPiiMode(m)
             \/ UNCHANGED vars
    BY <1>6 DEF ProviderAnswers, Ages, StepLost, SetPiiMode, vars
  <1> QED BY <1>1, <1>2, <1>3, <1>4, <1>5, <1>6 DEF Next, PurgeStep

\* The purge that takes a step: what it has passed is still gone.
LEMMA OnePurge ==
  ASSUME Shape, PurgeInv, Fewer, NEW p \in Purger,
         PurgeStep(p) \/ PurgeLost(p) \/ \E S, late \in SUBSET Call : PurgeStarts(p, S, late)
  PROVE  /\ purge'[p].at \cup purge'[p].todo \subseteq purge'[p].calls
         /\ purge'[p].calls \ purge'[p].todo \subseteq purged'
         /\ purge'[p].at \subseteq purged'
         /\ \A c \in (purge'[p].calls \ purge'[p].todo) \ stray' : Taken(p, c)'
         /\ \A q \in Purger \ {p} : purge'[q] = purge[q]
  <1> DEFINE Good == /\ purge'[p].at \cup purge'[p].todo \subseteq purge'[p].calls
                     /\ purge'[p].calls \ purge'[p].todo \subseteq purged'
                     /\ purge'[p].at \subseteq purged'
                     /\ \A c \in (purge'[p].calls \ purge'[p].todo) \ stray' : Taken(p, c)'
                     /\ \A q \in Purger \ {p} : purge'[q] = purge[q]
  <1>1. /\ purge[p].at \cup purge[p].todo \subseteq purge[p].calls
        /\ purge[p].calls \ purge[p].todo \subseteq purged
        /\ purge[p].at \subseteq purged
        /\ \A c \in (purge[p].calls \ purge[p].todo) \ stray : Taken(p, c)
    BY DEF PurgeInv
  <1>2. purge \in [Purger -> Purge] /\ purge[p] \in Purge /\ purged \subseteq Call  BY DEF Shape
  <1>3. ASSUME NEW S \in SUBSET Call, NEW late \in SUBSET Call, PurgeStarts(p, S, late)
        PROVE  Good
    <2>1. /\ purge'[p].calls = S /\ purge'[p].todo = S /\ purge'[p].at = {}
          /\ \A q \in Purger \ {p} : purge'[q] = purge[q]
      BY <1>2, <1>3 DEF PurgeStarts, Idle
    <2> QED BY <2>1
  <1>4. ASSUME purge' = [purge EXCEPT ![p] = Idle] PROVE Good
    <2>1. /\ purge'[p].calls = {} /\ purge'[p].todo = {} /\ purge'[p].at = {}
          /\ \A q \in Purger \ {p} : purge'[q] = purge[q]
      BY <1>2, <1>4 DEF Idle
    <2> QED BY <2>1
  <1>5. ASSUME NEW d \in Call, PurgeCall(p, d) PROVE Good
    <2>1. /\ purge'[p].calls = purge[p].calls /\ purge'[p].todo = purge[p].todo \ {d}
          /\ purge'[p].at = {d} /\ purge'[p].left = Objects
          /\ \A q \in Purger \ {p} : purge'[q] = purge[q]
          /\ purged' = purged \cup {d} /\ d \in purge[p].todo /\ purge[p].left = <<>>
          /\ UNCHANGED <<recording, text, html, stray>>
      BY <1>2, <1>5 DEF PurgeCall, bucketVars, Purge
    <2>2. \A c \in (purge[p].calls \ purge[p].todo) \ stray :
            recording[c] = "none" /\ text[c] = "none" /\ ~html[c]
      BY <1>1, <2>1, Tails DEF Taken
    <2>3. Taken(p, d)'  BY <2>1, Tails DEF Taken
    <2>4. \A c \in (purge[p].calls \ purge[p].todo) \ stray : Taken(p, c)'
      BY <2>1, <2>2 DEF Taken
    <2>5. \A c \in (purge'[p].calls \ purge'[p].todo) \ stray' : Taken(p, c)'
      BY <2>1, <2>3, <2>4
    <2> QED BY <1>1, <2>1, <2>5
  <1>6. CASE PurgeObject(p)
    <2>1. /\ purge'[p].calls = purge[p].calls /\ purge'[p].todo = purge[p].todo
          /\ purge'[p].at = purge[p].at /\ purge'[p].left = Tail(purge[p].left)
          /\ \A q \in Purger \ {p} : purge'[q] = purge[q]
          /\ purged' = purged /\ stray' = stray /\ purge[p].left # <<>> /\ purge[p].left \in Rest
      BY <1>2, <1>6 DEF PurgeObject, Purge
    <2>2. ASSUME NEW c \in (purge[p].calls \ purge[p].todo) \ stray
          PROVE  Taken(p, c)'
      <3>1. Taken(p, c) /\ c \in Call  BY <1>1, <1>2
      <3>2. /\ recording'[c] = IF Deletes(p, c, "recording") THEN "none" ELSE recording[c]
            /\ text'[c] = IF Deletes(p, c, "transcript") THEN "none" ELSE text[c]
            /\ html'[c] = (html[c] /\ ~Deletes(p, c, "report"))
        BY <1>6, <3>1 DEF PurgeObject
      <3>3. /\ recording[c] # "none" => c \in purge[p].at /\ purge[p].left = Objects
            /\ text[c] # "none" => c \in purge[p].at /\ Len(purge[p].left) >= 2
            /\ html[c] => c \in purge[p].at /\ purge[p].left # <<>>
        BY <3>1 DEF Taken
      <3>4. /\ recording'[c] # "none" => recording[c] # "none" /\ ~Deletes(p, c, "recording")
            /\ text'[c] # "none" => text[c] # "none" /\ ~Deletes(p, c, "transcript")
            /\ html'[c] => html[c] /\ ~Deletes(p, c, "report")
        BY <3>2, Zenon
      <3>5. CASE purge[p].left = Objects
        <4>1. /\ Head(purge[p].left) = "recording" /\ Len(Tail(purge[p].left)) = 2
              /\ Tail(purge[p].left) # <<>>
          BY <3>5, Tails
        <4>2. recording'[c] = "none"  BY <3>3, <3>4, <4>1 DEF Deletes
        <4>3. text'[c] # "none" => c \in purge[p].at  BY <3>3, <3>4
        <4>4. html'[c] => c \in purge[p].at  BY <3>3, <3>4
        <4>5. purge'[p].left # <<>> /\ Len(purge'[p].left) = 2  BY <2>1, <4>1
        <4>6. purge'[p].at = purge[p].at  BY <2>1
        <4>7. Len(purge'[p].left) >= 2  BY <4>5
        <4> QED BY <4>2, <4>3, <4>4, <4>5, <4>6, <4>7 DEF Taken
      <3>6. CASE purge[p].left = <<"transcript", "report">>
        <4>1. /\ Head(purge[p].left) = "transcript" /\ Tail(purge[p].left) # <<>>
              /\ purge[p].left # Objects
          BY <3>6, Tails
        <4>2. recording'[c] = "none"  BY <3>3, <3>4, <4>1
        <4>3. text'[c] = "none"  BY <3>3, <3>4, <4>1 DEF Deletes
        <4>4. html'[c] => c \in purge[p].at  BY <3>3, <3>4
        <4> QED BY <2>1, <4>1, <4>2, <4>3, <4>4 DEF Taken
      <3>7. CASE purge[p].left = <<"report">>
        <4>1. /\ Head(purge[p].left) = "report" /\ purge[p].left # Objects
              /\ ~(Len(purge[p].left) >= 2)
          BY <3>7, Tails
        <4>2. recording'[c] = "none"  BY <3>3, <3>4, <4>1
        <4>3. text'[c] = "none"  BY <3>3, <3>4, <4>1
        <4>4. ~html'[c]  BY <3>3, <3>4, <4>1 DEF Deletes
        <4> QED BY <2>1, <4>2, <4>3, <4>4 DEF Taken
      <3> QED BY <2>1, <3>5, <3>6, <3>7 DEF Rest
    <2> QED BY <1>1, <2>1, <2>2
  <1>7. CASE PurgeCommits(p) \/ PurgeLost(p)  BY <1>4, <1>7 DEF PurgeCommits, PurgeLost
  <1> QED BY <1>3, <1>5, <1>6, <1>7 DEF PurgeStep

LEMMA NextPurge ==
  ASSUME Shape, PurgeInv, [Next]_vars
  PROVE  PurgeInv'
  <1>1. Fewer  BY NextFewer
  <1>2. CASE \E p \in Purger : \/ PurgeStep(p) \/ PurgeLost(p)
                              \/ \E S, late \in SUBSET Call : PurgeStarts(p, S, late)
    <2>1. PICK p \in Purger : \/ PurgeStep(p) \/ PurgeLost(p)
                              \/ \E S, late \in SUBSET Call : PurgeStarts(p, S, late)
      BY <1>2
    <2>2. \A q \in Purger \ {p} : purge'[q] = purge[q]  BY <1>1, <2>1, OnePurge
    <2>3. ASSUME NEW q \in Purger
          PROVE  /\ purge'[q].at \cup purge'[q].todo \subseteq purge'[q].calls
                 /\ purge'[q].calls \ purge'[q].todo \subseteq purged'
                 /\ purge'[q].at \subseteq purged'
                 /\ \A c \in (purge'[q].calls \ purge'[q].todo) \ stray' : Taken(q, c)'
      <3>1. CASE q = p  BY <1>1, <2>1, <3>1, OnePurge
      <3>2. CASE q # p  BY <1>1, <2>2, <3>2, TakenStays
      <3> QED BY <3>1, <3>2
    <2> QED BY <2>3 DEF PurgeInv
  <1>3. CASE purge' = purge  BY <1>1, <1>3, TakenStays DEF PurgeInv
  <1>4. CASE \/ \E c \in Call : Step(c) \/ StepLost(c) \/ ProviderAnswers(c) \/ Ages(c)
             \/ \E v \in Viewer, c \in Call : View(v, c) \/ Export(v, c)
             \/ \E m \in Level \ {mode} : SetPiiMode(m)
             \/ DeletePortfolio
             \/ UNCHANGED vars
    <2>1. purge' = purge
      BY <1>4 DEF Step, Submission, Submits, Judgement, Fetch, Hear, Judge, Swap, Finish, Raise,
        StepLost, ProviderAnswers, Ages, View, Export, SetPiiMode, DeletePortfolio, vars, otherVars
    <2> QED BY <1>3, <2>1
  <1> QED BY <1>2, <1>4 DEF Next

\* A row goes only by a purge that has taken its objects, or by a cascade.
LEMMA NextDeleted ==
  ASSUME Shape, PurgeInv, DeletedLeavesNothing, [Next]_vars
  PROVE  DeletedLeavesNothing'
  <1>1. Fewer  BY NextFewer
  <1>2. \A c \in Call \ stray' : ~row[c] => ~Stored(c)'
    <2> SUFFICES ASSUME NEW c \in Call \ stray', ~row[c] PROVE ~Stored(c)'
      OBVIOUS
    <2>1. ~Stored(c)  BY <1>1 DEF Fewer, DeletedLeavesNothing
    <2>2. /\ recording'[c] \in {recording[c], "none"} /\ text'[c] \in {text[c], "none"}
          /\ html'[c] => html[c]
      BY <1>1 DEF Fewer
    <2> QED BY <2>1, <2>2 DEF Stored
  <1>3. ASSUME NEW p \in Purger, PurgeCommits(p) PROVE DeletedLeavesNothing'
    <2>1. \A c \in purge[p].calls \ stray : Taken(p, c) /\ purge[p].left = <<>>
      BY <1>3 DEF PurgeCommits, PurgeInv
    <2>2. \A c \in purge[p].calls \ stray : ~Stored(c)  BY <2>1, Tails DEF Taken, Stored
    <2>3. UNCHANGED <<recording, text, html>> /\ stray' = stray \cup (purge[p].late \cap Rows)
      BY <1>3 DEF PurgeCommits, bucketVars
    <2>4. \A c \in Call : row[c] /\ ~row'[c] => c \in purge[p].calls \/ c \in stray'
      BY <1>3, <2>3 DEF PurgeCommits, DeleteRows, Rows
    <2>5. ASSUME NEW c \in Call \ stray', Stored(c)' PROVE row'[c]
      <3>1. Stored(c)  BY <2>3, <2>5 DEF Stored
      <3>2. row[c] /\ c \notin purge[p].calls  BY <1>2, <2>2, <2>3, <2>5, <3>1
      <3>3. row'[c] \in BOOLEAN  BY <1>3 DEF PurgeCommits, DeleteRows, Shape
      <3> QED BY <2>4, <3>2, <3>3
    <2> QED BY <2>5 DEF DeletedLeavesNothing
  <1>4. CASE DeletePortfolio
    <2>1. stray' = stray \cup Rows  BY <1>4 DEF DeletePortfolio
    <2> QED BY <1>2, <2>1 DEF DeletedLeavesNothing, Rows
  <1>5. CASE row' = row  BY <1>2, <1>5 DEF DeletedLeavesNothing
  <1>6. CASE \/ \E c \in Call : Step(c) \/ StepLost(c) \/ ProviderAnswers(c) \/ Ages(c)
             \/ \E p \in Purger : \/ PurgeLost(p) \/ PurgeObject(p)
                                  \/ \E c \in Call : PurgeCall(p, c)
                                  \/ \E S, late \in SUBSET Call : PurgeStarts(p, S, late)
             \/ \E v \in Viewer, c \in Call : View(v, c) \/ Export(v, c)
             \/ \E m \in Level \ {mode} : SetPiiMode(m)
             \/ UNCHANGED vars
    <2>1. row' = row
      BY <1>6 DEF Step, Submission, Submits, Judgement, Fetch, Hear, Judge, Swap, Finish, Raise,
        StepLost, ProviderAnswers, Ages, View, Export, SetPiiMode, PurgeLost, PurgeObject,
        PurgeCall, PurgeStarts, vars, dbVars
    <2> QED BY <1>5, <2>1
  <1> QED BY <1>3, <1>4, <1>6 DEF Next, PurgeStep

-----------------------------------------------------------------------------
LEMMA InitArtifacts ==
  ASSUME Init
  PROVE  ArtifactsInv
  <1> USE DEF Init
  <1>1. Idle \in Purge  BY DEF Idle, Rest, Purge
  <1>2. Shape
    BY <1>1, ArtifactsAssumption DEF Shape, JobState, PendingTranscription, PiiMode
  <1>3. UriInv  BY DEF UriInv
  <1>4. HearInv  BY DEF HearInv
  <1>5. PurgeInv
    <2>1. \A p \in Purger : /\ purge[p].at = {} /\ purge[p].todo = {} /\ purge[p].calls = {}
      BY DEF Idle
    <2> QED BY <2>1 DEF PurgeInv
  <1>6. DeletedLeavesNothing  BY DEF DeletedLeavesNothing
  <1> QED BY <1>2, <1>3, <1>4, <1>5, <1>6 DEF ArtifactsInv

LEMMA ArtifactsHold == Spec => []ArtifactsInv
  <1>1. Init => ArtifactsInv  BY InitArtifacts
  <1>2. ArtifactsInv /\ [Next]_vars => ArtifactsInv'
    BY NextShape, NextUri, NextHear, NextPurge, NextDeleted DEF ArtifactsInv
  <1> QED BY <1>1, <1>2, PTL DEF Spec

\* Every row, object, step and purge keeps its type, and what a purge still has to take
\* of a call is a suffix of the three kinds of object (delete_call, retention.run_once).
THEOREM ArtifactsTypeCorrect == Spec => []TypeOK
  <1>1. ArtifactsInv => TypeOK
    <2> SUFFICES ASSUME ArtifactsInv PROVE TypeOK
      OBVIOUS
    <2>1. \A p \in Purger : purge[p] \in Purge  BY DEF ArtifactsInv, Shape
    <2>2. \A p \in Purger : /\ purge[p].calls \cup purge[p].late \subseteq Call
                            /\ purge[p].todo \cup purge[p].at \subseteq purge[p].calls
      BY <2>1 DEF ArtifactsInv, PurgeInv, Purge
    <2>3. \A p \in Purger : \E n \in 0 .. 3 : purge[p].left = SubSeq(Objects, n + 1, 3)
      BY <2>1, RestIsSuffix DEF Purge
    <2> QED BY <2>2, <2>3 DEF ArtifactsInv, Shape, TypeOK
  <1> QED BY <1>1, ArtifactsHold, PTL

\* A transcript URI the database holds resolves, over retries, crashes, level changes and
\* purges of other calls (put_transcript and set_transcript_uri in handle_judge).
THEOREM UrisResolve == Spec => []UriResolves
  <1>1. ArtifactsInv => UriResolves  BY DEF ArtifactsInv, UriInv, UriResolves
  <1> QED BY <1>1, ArtifactsHold, PTL

\* A judge that is retried hears the original recording, unless a lost step has stored
\* the beeped one (_redact_stored_recording comes after everything that may raise).
THEOREM RetriesHearOriginal == Spec => []RetryHearsOriginal
  <1>1. ArtifactsInv => RetryHearsOriginal
    BY DEF ArtifactsInv, HearInv, RetryHearsOriginal
  <1> QED BY <1>1, ArtifactsHold, PTL

\* A call whose row is gone has left no object behind, however many deletions and sweeps
\* take the same calls and die half way (delete_call, delete_agent, retention.run_once).
THEOREM DeletionsComplete == Spec => []DeletedLeavesNothing
  <1>1. ArtifactsInv => DeletedLeavesNothing  BY DEF ArtifactsInv
  <1> QED BY <1>1, ArtifactsHold, PTL

\* The step that stores a raw transcript is one for which both the order and the live
\* level were OFF (the two gates of handle_judge).
THEOREM RawOnlyWhenOff == Spec => NoRawUnderRedaction
  <1> DEFINE P == \A c \in Call : text'[c] = "raw" /\ text[c] # "raw" =>
                    asked[c] = "OFF" /\ found[c] = "OFF"
  <1>1. ArtifactsInv /\ [Next]_vars => [P]_vars
    <2> SUFFICES ASSUME Shape, [Next]_vars PROVE P
      BY DEF ArtifactsInv
    <2>1. ASSUME NEW d \in Call, Fetch(d) PROVE P
      BY <2>1 DEF Fetch, Accepts, StoredText, RedactsTranscript, Shape
    <2>2. ASSUME NEW p \in Purger, PurgeObject(p) PROVE P
      BY <2>2 DEF PurgeObject, Shape
    <2>3. CASE text' = text  BY <2>3
    <2>4. CASE \/ \E c \in Call : \/ Submission(c) \/ Submits(c) \/ Judgement(c) \/ Hear(c)
                                  \/ Judge(c) \/ Swap(c) \/ Finish(c) \/ Raise(c)
                                  \/ StepLost(c) \/ ProviderAnswers(c) \/ Ages(c)
               \/ \E p \in Purger : \/ PurgeLost(p) \/ PurgeCommits(p)
                                    \/ \E c \in Call : PurgeCall(p, c)
                                    \/ \E S, late \in SUBSET Call : PurgeStarts(p, S, late)
               \/ \E v \in Viewer, c \in Call : View(v, c) \/ Export(v, c)
               \/ \E m \in Level \ {mode} : SetPiiMode(m)
               \/ DeletePortfolio
               \/ UNCHANGED vars
      <3>1. text' = text
        BY <2>4 DEF Submission, Submits, Judgement, Hear, Judge, Swap, Finish, Raise, StepLost,
          ProviderAnswers, Ages, View, Export, SetPiiMode, PurgeLost, PurgeCommits, PurgeCall,
          PurgeStarts, DeletePortfolio, vars, bucketVars
      <3> QED BY <2>3, <3>1
    <2> QED BY <2>1, <2>2, <2>4 DEF Next, Step, PurgeStep
  <1> QED BY <1>1, ArtifactsHold, PTL DEF Spec, NoRawUnderRedaction
=============================================================================
