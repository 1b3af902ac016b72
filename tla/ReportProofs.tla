---------------------------- MODULE ReportProofs ----------------------------
(***************************************************************************)
(* What people read of a report is what the judge said: the page, the CSV, *)
(* the HTML document and the summaries, for any number of calls, workers,  *)
(* editors and verifiers; and no call fails for want of a checklist.       *)
(*                                                                         *)
(* The theorems rest on what a report keeps of its pass (Told): its rows   *)
(* are those of the items the pass asked, routed from the verdicts the     *)
(* judge gave, whatever was edited since.                                  *)
(***************************************************************************)
EXTENDS ReviewProofs, SequenceTheorems

\* A pass under way is for a call that was registered.
Working(p) == p.on \in Call /\ call[p.on] # NoCall

\* What a report says follows from the verdicts of its pass.
Told(r) ==
  LET routed == Decide(Objective(Range(r.asked)), r.passes, r.forced)
  IN  /\ DOMAIN r.passes \subseteq Range(r.asked)
      /\ \A i \in DOMAIN r.passes : r.passes[i].answer \in Answer
      /\ r.rows = [i \in Range(r.asked) |-> Score(i, r.passes, routed)]
      /\ r.flagged = routed.flagged
      /\ r.option = "FULL" /\ (\E i \in DOMAIN r.passes : /\ i.key \in Compliance
                                                          /\ r.passes[i].answer = "FAIL")
           => r.prose

CallShape ==
  call \in [Call -> {NoCall} \cup [state : {"ready", "judged", "failed", "deleted"},
                                   option : Option, chosen : 0 .. MaxVersions]]

ReportInv ==
  /\ CallShape
  /\ \A w \in Worker : worker[w] # Idle => Working(worker[w])
  /\ \A c \in Reported : Told(report[c])
  /\ \A c \in Call : Len(reviews[c]) \in 0 .. MaxReviews
  /\ written \in 0 .. MaxReports
  /\ overrides \subseteq Item

\* Versions of one family are all defaults or none is, a new family is new, and a transaction
\* knows the family, the number and the flag its row still has.
FamilyInv ==
  /\ \A v, w \in DOMAIN versions :
       versions[v].family = versions[w].family => versions[v].default = versions[w].default
  /\ \A v \in DOMAIN versions : versions[v].family <= Len(versions)
  /\ \A e \in Editor : tab[e] # NoTab =>
       /\ tab[e].family = versions[tab[e].at].family
       /\ tab[e].number = versions[tab[e].at].number
       /\ tab[e].default = versions[tab[e].at].default

DefaultInv ==
  /\ FamilyInv
  /\ Defaults # {}
  /\ \A c \in Call : call[c].state # "failed"


-----------------------------------------------------------------------------
(***************************************************************************)
(* The default checklist.                                                  *)
(***************************************************************************)

\* A listed default none is newer than.
LEMMA Newest ==
  ASSUME NEW v
  PROVE  v \in Defaults <=>
           /\ v \in DOMAIN versions /\ versions[v].status = "active" /\ versions[v].default
           /\ \A w \in DOMAIN versions : versions[w].status = "active" /\ versions[w].default =>
                versions[w].number <= versions[v].number
  BY DEF Defaults, Listed

\* A step that leaves the status, the number, the family and the flag of every version.
LEMMA SameDefaults ==
  ASSUME DOMAIN versions' = DOMAIN versions,
         \A v \in DOMAIN versions :
           /\ versions'[v].status = versions[v].status
           /\ versions'[v].number = versions[v].number
           /\ versions'[v].default = versions[v].default,
         Defaults # {}
  PROVE  (Defaults # {})'
  <1>1. PICK v : v \in Defaults
    OBVIOUS
  <1>2. v \in Defaults'  BY <1>1 DEF Defaults, Listed
  <1> QED BY <1>2

LEMMA CreateDefault ==
  ASSUME BuilderInv, FamilyInv, Defaults # {}, NEW b \in Body, Create(b)
  PROVE  FamilyInv' /\ (Defaults # {})'
  <1> DEFINE n == Len(versions) + 1
             row == Saved(n, n, 1, FALSE, b)
  <1>0. ChecklistTypeOK /\ \A e \in Editor : tab[e] # NoTab => tab[e].at \in DOMAIN versions
    BY DEF BuilderInv
  <1>1. versions' = Append(versions, row) /\ tab' = tab  BY DEF Create
  <1>2. row.family = n /\ row.default = FALSE  BY DEF Saved
  <1> HIDE DEF row
  <1>3. versions \in Seq(Row)  BY <1>0 DEF ChecklistTypeOK
  <1>4. /\ DOMAIN versions' = DOMAIN versions \cup {n} /\ n \notin DOMAIN versions
        /\ Len(versions') = n /\ versions'[n] = row
        /\ \A v \in DOMAIN versions : versions'[v] = versions[v]
    BY <1>0, <1>1, <1>3, Content
  <1>5. \A v \in DOMAIN versions : versions[v].family <= Len(versions) /\ versions[v].family \in Nat
    BY <1>0, Content DEF FamilyInv
  <1>6. \A v \in DOMAIN versions : versions[v].family # n  BY <1>0, <1>5, Content
  <1>a. \A v, w \in DOMAIN versions' :
          versions'[v].family = versions'[w].family => versions'[v].default = versions'[w].default
    BY <1>2, <1>4, <1>6 DEF FamilyInv
  <1>b. \A v \in DOMAIN versions' : versions'[v].family <= Len(versions')
    BY <1>0, <1>2, <1>4, <1>5, Content
  <1>c. \A e \in Editor : tab'[e] # NoTab => versions'[tab'[e].at] = versions[tab[e].at]
    BY <1>0, <1>1, <1>4
  <1>7. FamilyInv'  BY <1>1, <1>a, <1>b, <1>c DEF FamilyInv
  <1>8. PICK v : v \in Defaults
    OBVIOUS
  <1>9. v \in Defaults'  BY <1>2, <1>4, <1>8 DEF Defaults, Listed
  <1> QED BY <1>7, <1>9

LEMMA LoadDefault ==
  ASSUME BuilderInv, FamilyInv, Defaults # {}, NEW e \in Editor, NEW v \in DOMAIN versions,
         NEW b, NEW used, Load(e, v, b, used)
  PROVE  FamilyInv' /\ (Defaults # {})'
  <1> DEFINE one == [at |-> v, body |-> b, used |-> used,
                     family |-> versions[v].family, number |-> versions[v].number,
                     default |-> versions[v].default, archived |-> versions[v].status = "archived",
                     swept |-> FALSE, sees |-> {}]
  <1>1. tab' = [tab EXCEPT ![e] = one] /\ versions' = versions  BY DEF Load
  <1>a. /\ one.at = v /\ one.family = versions[v].family /\ one.number = versions[v].number
        /\ one.default = versions[v].default
    OBVIOUS
  <1> HIDE DEF one
  <1>2. DOMAIN tab = Editor  BY DEF BuilderInv, ChecklistTypeOK
  <1>3. FamilyInv'  BY <1>1, <1>2, <1>a DEF FamilyInv
  <1> QED BY <1>1, <1>3 DEF Defaults, Listed

\* Nor does what a DELETE sees.
LEMMA SweepDefault ==
  ASSUME BuilderInv, FamilyInv, Defaults # {}, NEW e \in Editor, Sweep(e)
  PROVE  FamilyInv' /\ (Defaults # {})'
  <1> DEFINE one == [tab[e] EXCEPT !.swept = TRUE, !.sees = versions[tab[e].at].items]
  <1>1. tab' = [tab EXCEPT ![e] = one] /\ versions' = versions /\ tab[e] # NoTab
    BY DEF Sweep
  <1>2. tab \in [Editor -> Tab]  BY DEF BuilderInv, ChecklistTypeOK
  <1>a. /\ one.at = tab[e].at /\ one.family = tab[e].family /\ one.number = tab[e].number
        /\ one.default = tab[e].default
    BY <1>1, <1>2 DEF Tab
  <1> HIDE DEF one
  <1>3. FamilyInv'  BY <1>1, <1>2, <1>a DEF FamilyInv
  <1> QED BY <1>1, <1>3 DEF Defaults, Listed

\* An edit in place touches neither.
LEMMA ReviseDefault ==
  ASSUME BuilderInv, FamilyInv, Defaults # {}, NEW e \in Editor, NEW held, Revise(e, held)
  PROVE  FamilyInv' /\ (Defaults # {})'
  <1> DEFINE t == tab[e].at
             n == versions[t].edits + 1
             items == (versions[t].items \ tab[e].sees) \cup Written(t, n, tab[e].body)
             one == [versions[t] EXCEPT !.edits = n, !.items = items]
  <1>1. /\ tab' = [tab EXCEPT ![e] = NoTab] /\ tab[e] # NoTab
        /\ versions' = [versions EXCEPT ![t] = one]
    BY DEF Revise, InPlace
  <1>2. /\ DOMAIN tab = Editor
        /\ versions \in Seq(Row)
        /\ \A d \in Editor : tab[d] # NoTab => tab[d].at \in DOMAIN versions
    BY DEF BuilderInv, ChecklistTypeOK
  <1>3. t \in DOMAIN versions /\ versions[t] \in Row  BY <1>1, <1>2
  <1>a. /\ one.status = versions[t].status /\ one.number = versions[t].number
        /\ one.family = versions[t].family /\ one.default = versions[t].default
    <2> HIDE DEF n, items
    <2> QED BY <1>3 DEF Row
  <1> HIDE DEF one
  <1>4. /\ DOMAIN versions' = DOMAIN versions /\ Len(versions') = Len(versions)
        /\ \A v \in DOMAIN versions :
             /\ versions'[v].status = versions[v].status
             /\ versions'[v].number = versions[v].number
             /\ versions'[v].family = versions[v].family
             /\ versions'[v].default = versions[v].default
    BY <1>1, <1>2, <1>3, <1>a
  <1>5. \A d \in Editor : tab'[d] # NoTab => tab'[d] = tab[d] /\ tab[d].at \in DOMAIN versions
    BY <1>1, <1>2
  <1>6. FamilyInv'  BY <1>4, <1>5 DEF FamilyInv
  <1> QED BY <1>4, <1>6, SameDefaults

\* Only a family that is not a default is hidden.
LEMMA SoftDeleteDefault ==
  ASSUME BuilderInv, FamilyInv, Defaults # {}, NEW v \in DOMAIN versions, SoftDelete(v)
  PROVE  FamilyInv' /\ (Defaults # {})'
  <1>1. /\ ~versions[v].default /\ tab' = tab
        /\ versions' = [w \in DOMAIN versions |->
                          IF w \in Family(v) THEN [versions[w] EXCEPT !.status = "deleted"]
                          ELSE versions[w]]
    BY DEF SoftDelete
  <1>2. /\ versions \in Seq(Row) /\ Len(versions) \in Nat /\ DOMAIN versions = 1 .. Len(versions)
        /\ \A w \in DOMAIN versions : versions[w] \in Row /\ versions[w].number \in Nat
        /\ \A d \in Editor : tab[d] # NoTab => tab[d].at \in DOMAIN versions
    BY Content DEF BuilderInv, ChecklistTypeOK
  <1>3. /\ DOMAIN versions' = DOMAIN versions
        /\ \A w \in DOMAIN versions :
             /\ versions'[w].number = versions[w].number
             /\ versions'[w].family = versions[w].family
             /\ versions'[w].default = versions[w].default
             /\ versions'[w].status \in {versions[w].status, "deleted"}
             /\ versions[w].default => versions'[w].status = versions[w].status
    BY <1>1, <1>2 DEF FamilyInv, Family, Row
  <1>4. Len(versions') = Len(versions)  BY <1>1, <1>2
  <1>5. FamilyInv'  BY <1>1, <1>2, <1>3, <1>4 DEF FamilyInv
  <1>6. PICK d : d \in Defaults
    OBVIOUS
  <1>7. d \in Defaults'  BY <1>3, <1>6 DEF Defaults, Listed
  <1> QED BY <1>5, <1>7

\* The version that takes the place of a default is a default, and newer than it.
LEMMA PublishDefault ==
  ASSUME BuilderInv, FamilyInv, Defaults # {}, NEW e \in Editor, Publish(e)
  PROVE  FamilyInv' /\ (Defaults # {})'
  <1> DEFINE t == tab[e].at
             r == tab[e]
             n == Len(versions) + 1
             status == IF r.archived THEN versions[t].status ELSE "archived"
             old == [versions EXCEPT ![t] = [versions[t] EXCEPT !.status = status]]
             row == Saved(n, r.family, r.number + 1, r.default, r.body)
  <1>1. /\ tab[e] # NoTab /\ tab' = [tab EXCEPT ![e] = NoTab]
        /\ versions' = Append(old, row)
    BY DEF Publish
  <1>2. /\ versions \in Seq(Row) /\ Len(versions) \in Nat /\ DOMAIN versions = 1 .. Len(versions)
        /\ \A w \in DOMAIN versions : versions[w] \in Row /\ versions[w].number \in Nat
        /\ \A w \in DOMAIN versions : versions[w].family \in Nat
        /\ \A d \in Editor : tab[d] # NoTab => tab[d].at \in DOMAIN versions
        /\ DOMAIN tab = Editor
    BY Content DEF BuilderInv, ChecklistTypeOK
  <1>3. /\ t \in DOMAIN versions /\ r.family = versions[t].family
        /\ r.number = versions[t].number /\ r.default = versions[t].default
    BY <1>1, <1>2 DEF FamilyInv
  <1>4. /\ row.family = versions[t].family /\ row.number = versions[t].number + 1
        /\ row.default = versions[t].default /\ row.status = "active"
    BY <1>3 DEF Saved
  <1>5. /\ DOMAIN old = DOMAIN versions /\ Len(old) = Len(versions)
        /\ \A w \in DOMAIN versions :
             /\ old[w].number = versions[w].number
             /\ old[w].family = versions[w].family
             /\ old[w].default = versions[w].default
             /\ w # t => old[w].status = versions[w].status
             /\ old[w].status = "active" => versions[w].status = "active"
    BY <1>2, <1>3 DEF Row
  <1>a. old \in Seq(Row)
    <2>1. versions[t] \in Row  BY <1>2, <1>3
    <2>2. status \in {"active", "archived", "deleted"}  BY <2>1 DEF Row
    <2>3. [versions[t] EXCEPT !.status = status] \in Row  BY <2>1, <2>2 DEF Row
    <2> QED BY <1>2, <1>3, <2>3
  <1> HIDE DEF old, row
  <1>6. /\ DOMAIN versions' = DOMAIN versions \cup {n} /\ n \notin DOMAIN versions
        /\ Len(versions') = n /\ versions'[n] = row
        /\ \A w \in DOMAIN versions : versions'[w] = old[w]
    BY <1>1, <1>2, <1>5, <1>a
  <1>b. \A v, w \in DOMAIN versions' :
          versions'[v].family = versions'[w].family => versions'[v].default = versions'[w].default
    BY <1>3, <1>4, <1>5, <1>6 DEF FamilyInv
  <1>c. \A v \in DOMAIN versions' : versions'[v].family <= Len(versions')
    BY <1>2, <1>3, <1>4, <1>5, <1>6 DEF FamilyInv
  <1>d. \A d \in Editor : tab'[d] # NoTab => tab'[d] = tab[d] /\ tab[d].at \in DOMAIN versions
    BY <1>1, <1>2
  <1>7. FamilyInv'  BY <1>5, <1>6, <1>b, <1>c, <1>d DEF FamilyInv
  <1>8. PICK v : v \in Defaults
    OBVIOUS
  <1>9. /\ v \in DOMAIN versions /\ versions[v].status = "active" /\ versions[v].default
        /\ \A w \in DOMAIN versions : versions[w].status = "active" /\ versions[w].default =>
             versions[w].number <= versions[v].number
    BY <1>8, Newest
  <1>10. \A w \in DOMAIN versions : versions'[w].status = "active" /\ versions'[w].default =>
            versions'[w].number = versions[w].number /\ versions[w].number <= versions[v].number
    BY <1>5, <1>6, <1>9
  <1>11. CASE versions[t].default /\ versions[v].number <= row.number
    <2>1. versions'[n].status = "active" /\ versions'[n].default /\ versions'[n].number = row.number
      BY <1>4, <1>6, <1>11
    <2>2. \A w \in DOMAIN versions : versions'[w].status = "active" /\ versions'[w].default =>
            versions'[w].number <= row.number
      BY <1>2, <1>3, <1>4, <1>9, <1>10, <1>11
    <2>3. row.number \in Nat  BY <1>2, <1>3, <1>4
    <2>4. n \in Defaults'  BY <1>6, <2>1, <2>2, <2>3 DEF Defaults, Listed
    <2> QED BY <1>7, <2>4
  <1>12. CASE ~versions[t].default \/ versions[v].number > row.number
    <2>1. v # t  BY <1>2, <1>4, <1>9, <1>12
    <2>2. /\ versions'[v].status = "active" /\ versions'[v].default
          /\ versions'[v].number = versions[v].number
      BY <1>5, <1>6, <1>9, <2>1
    <2>3. versions'[n].default => versions'[n].number <= versions[v].number
      BY <1>2, <1>3, <1>4, <1>6, <1>9, <1>12
    <2>4. v \in Defaults'  BY <1>6, <1>9, <1>10, <2>2, <2>3 DEF Defaults, Listed
    <2> QED BY <1>7, <2>4
  <1> QED BY <1>2, <1>3, <1>4, <1>9, <1>11, <1>12


\* Whatever is edited, there is a default.
LEMMA EditDefault ==
  ASSUME BuilderInv, FamilyInv, Defaults # {}, Edit
  PROVE  FamilyInv' /\ (Defaults # {})'
  <1>1. CASE \E b \in Body : Create(b)  BY <1>1, CreateDefault
  <1>2. CASE \E e \in Editor, v \in DOMAIN versions, b \in Body : Load(e, v, b, Used(v))
    BY <1>2, LoadDefault
  <1>7. CASE \E e \in Editor : Sweep(e)  BY <1>7, SweepDefault
  <1>3. CASE \E e \in Editor : Revise(e, Held)  BY <1>3, ReviseDefault
  <1>4. CASE \E e \in Editor : Refuse(e, Held)
    <2>1. PICK e \in Editor : tab' = [tab EXCEPT ![e] = NoTab] /\ versions' = versions
      BY <1>4 DEF Refuse, InPlace
    <2>2. DOMAIN tab = Editor  BY DEF BuilderInv, ChecklistTypeOK
    <2> QED BY <2>1, <2>2 DEF FamilyInv, Defaults, Listed
  <1>5. CASE \E e \in Editor : Publish(e)  BY <1>5, PublishDefault
  <1>6. CASE \E v \in DOMAIN versions : SoftDelete(v)  BY <1>6, SoftDeleteDefault
  <1> QED BY <1>1, <1>2, <1>3, <1>4, <1>5, <1>6, <1>7 DEF Edit

\* With a default there is a checklist for every call, so no pass finds none.
LEMMA NoneFails ==
  ASSUME CallInv, Defaults # {}, \A c \in Call : call[c].state # "failed", [Next]_vars
  PROVE  \A c \in Call : call'[c].state # "failed"
  <1> DEFINE Calls == [state : State] \cup [state : State, option : Option, chosen : Nat]
  <1>1. call \in [Call -> Calls]  BY DEF CallInv
  <1>2. ASSUME NEW c, NEW s, s # "failed", call' = [call EXCEPT ![c].state = s]
        PROVE  \A d \in Call : call'[d].state # "failed"
    <2> SUFFICES ASSUME NEW d \in Call PROVE call'[d].state # "failed"
      OBVIOUS
    <2> DEFINE one == [call[d] EXCEPT !.state = s]
    <2>1. call[d] \in Calls  BY <1>1
    <2>2. one.state = s  BY <2>1
    <2>3. call'[d] \in {call[d], one}  BY <1>1, <1>2
    <2> QED BY <1>2, <2>2, <2>3
  <1>3. CASE UNCHANGED call  BY <1>3
  <1>4. CASE \E c \in Call : Delete(c)  BY <1>2, <1>4 DEF Delete
  <1>5. CASE \E c \in Call, o \in Option, v \in 0 .. MaxVersions : Register(c, o, v)
    BY <1>1, <1>5 DEF Register
  <1>6. CASE \E w \in Worker, c \in Call : Begin(w, c)
    <2>1. PICK w \in Worker, c \in Call : Begin(w, c)  BY <1>6
    <2>2. Resolved(c) # {}  BY DEF Resolved
    <2> QED BY <1>3, <2>1, <2>2 DEF Begin
  <1>7. CASE \E w \in Worker : \E verdicts \in Answers(w), prose \in BOOLEAN :
               Persist(w, verdicts, prose)
    BY <1>2, <1>7 DEF Persist, Finish
  <1>8. CASE \/ Edit \/ Recompute \/ UNCHANGED vars
             \/ \E w \in Worker : Fail(w)
             \/ \E u \in Verifier : (\E c \in Call : Open(u, c)) \/ \E j \in Judgement : Verify(u, j)
    <2>1. UNCHANGED call
      BY <1>8 DEF Edit, Recompute, Fail, Open, Verify, vars, reviewVars
    <2> QED BY <1>3, <2>1
  <1> QED BY <1>4, <1>5, <1>6, <1>7, <1>8 DEF Next

LEMMA NextDefault ==
  ASSUME HistoryInv, DefaultInv, [Next]_vars
  PROVE  DefaultInv'
  <1>1. BuilderInv /\ CallInv /\ FamilyInv /\ Defaults # {}
    BY DEF HistoryInv, DefaultInv
  <1>2. CASE Edit  BY <1>1, <1>2, EditDefault, NoneFails DEF DefaultInv
  <1>3. CASE UNCHANGED checklistVars
    <2>1. FamilyInv' /\ (Defaults # {})'
      BY <1>1, <1>3 DEF checklistVars, FamilyInv, Defaults, Listed
    <2> QED BY <1>1, <2>1, NoneFails DEF DefaultInv
  <1>4. Edit \/ UNCHANGED checklistVars
    BY DEF Next, Recompute, Fail, Open, Verify, Persist, Begin, Register, Delete, vars
  <1> QED BY <1>2, <1>3, <1>4

LEMMA InitDefault ==
  ASSUME Init
  PROVE  DefaultInv
  <1>1. versions = <<Saved(1, 1, 1, TRUE, Seed)>> /\ tab = [e \in Editor |-> NoTab]
    BY DEF Init, ChecklistInit
  <1>2. /\ DOMAIN versions = {1} /\ Len(versions) = 1
        /\ versions[1].family = 1 /\ versions[1].number = 1 /\ versions[1].default
        /\ versions[1].status = "active"
    BY <1>1 DEF Saved
  <1>3. 1 \in Defaults  BY <1>2 DEF Defaults, Listed
  <1>a. \A e \in Editor : tab[e] = NoTab  BY <1>1
  <1>b. \A v \in DOMAIN versions : v = 1  BY <1>2
  <1>4. FamilyInv  BY <1>2, <1>a, <1>b DEF FamilyInv
  <1>5. \A c \in Call : call[c].state # "failed"  BY DEF Init, NoCall
  <1> QED BY <1>3, <1>4, <1>5 DEF DefaultInv

\* There is always an active default, so no call fails for want of a checklist: a default is
\* never deleted, and one that is archived has a successor of the next number that takes the
\* flag its transaction read (checklists/service.py, api/checklists.py, judge/service.py).
THEOREM DefaultStays == Spec => []DefaultAvailable
  <1>1. Init => DefaultInv  BY InitDefault
  <1>2. HistoryInv /\ DefaultInv /\ [Next]_vars => DefaultInv'  BY NextDefault
  <1>3. DefaultInv => DefaultAvailable  BY DEF DefaultInv, DefaultAvailable
  <1> QED BY <1>1, <1>2, <1>3, HistoryHolds, PTL DEF Spec


-----------------------------------------------------------------------------
(***************************************************************************)
(* Calls and passes.                                                       *)
(***************************************************************************)

\* What a pass asks are items.
LEMMA AskedItems ==
  ASSUME NEW p, Asked(p)
  PROVE  /\ Range(p.asked) \subseteq Item
         /\ \A i \in Range(p.asked) : i.key \in Key
  <1>1. Range(p.asked) \subseteq Item
    <2>1. CASE p.asked = <<>>  BY <2>1 DEF Range
    <2>2. ASSUME NEW S \in SUBSET Item, Sound(p.version, S), p.asked = InOrder(S)
          PROVE  Range(p.asked) \subseteq Item
      BY <2>2, InOrderOf DEF Sound
    <2> QED BY <2>1, <2>2 DEF Asked
  <1> QED BY <1>1 DEF Item

\* What a report scores are items.
LEMMA HeldItems ==
  ASSUME HistoryInv
  PROVE  Held \subseteq Item
  <1> SUFFICES ASSUME NEW c \in Reported PROVE DOMAIN report[c].rows \subseteq Item
    BY DEF Held
  <1>1. Grounded(report[c])  BY DEF HistoryInv
  <1> QED BY <1>1 DEF Grounded, Sound, Ordered

Ends == {"judged", "failed", "deleted"}

\* What a step does to a call: it is registered, or one that was comes to an end.
CallMoves ==
  \/ UNCHANGED call
  \/ \E c \in Call, o \in Option, v \in {0} \cup DOMAIN versions :
       call' = [call EXCEPT ![c] = [state |-> "ready", option |-> o, chosen |-> v]]
  \/ \E c \in Call, s \in Ends : call[c] # NoCall /\ call' = [call EXCEPT ![c].state = s]

LEMMA CallsMove ==
  ASSUME ReportInv, [Next]_vars
  PROVE  CallMoves
  <1>1. CASE \/ Edit \/ Recompute \/ UNCHANGED vars
             \/ \E w \in Worker : Fail(w)
             \/ \E u \in Verifier : (\E c \in Call : Open(u, c)) \/ \E j \in Judgement : Verify(u, j)
    BY <1>1 DEF Edit, Recompute, Fail, Open, Verify, vars, reviewVars, CallMoves
  <1>2. CASE \E c \in Call : Delete(c)
    <2>1. PICK c \in Call : /\ call[c].state \in {"ready", "judged"}
                            /\ call' = [call EXCEPT ![c].state = "deleted"]
      BY <1>2 DEF Delete
    <2>2. call[c] # NoCall  BY <2>1 DEF NoCall
    <2> QED BY <2>1, <2>2 DEF CallMoves, Ends
  <1>3. CASE \E c \in Call, o \in Option, v \in 0 .. MaxVersions : Register(c, o, v)
    BY <1>3 DEF Register, CallMoves
  <1>4. CASE \E w \in Worker, c \in Call : Begin(w, c)
    <2>1. PICK c \in Call : /\ call[c].state = "ready"
                            /\ call' = call \/ call' = [call EXCEPT ![c].state = "failed"]
      BY <1>4 DEF Begin
    <2>2. call[c] # NoCall  BY <2>1 DEF NoCall
    <2> QED BY <2>1, <2>2 DEF CallMoves, Ends
  <1>5. CASE \E w \in Worker : \E verdicts \in Answers(w), prose \in BOOLEAN :
               Persist(w, verdicts, prose)
    <2>1. PICK w \in Worker : /\ worker[w] # Idle
                              /\ call' = [call EXCEPT ![worker[w].on].state = "judged"]
      BY <1>5 DEF Persist, Finish
    <2>2. worker[w].on \in Call /\ call[worker[w].on] # NoCall  BY <2>1 DEF ReportInv, Working
    <2> QED BY <2>1, <2>2 DEF CallMoves, Ends
  <1> QED BY <1>1, <1>2, <1>3, <1>4, <1>5 DEF Next

\* A call that was registered has a state, an option and a choice, for good.
LEMMA ShapeStays ==
  ASSUME BuilderInv, CallShape, CallMoves
  PROVE  CallShape' /\ \A c \in Call : call[c] # NoCall => call'[c] # NoCall
  <1> DEFINE Calls == [state : {"ready", "judged", "failed", "deleted"},
                       option : Option, chosen : 0 .. MaxVersions]
  <1>1. call \in [Call -> {NoCall} \cup Calls]  BY DEF CallShape
  <1>2. \A x \in Calls : x # NoCall  BY DEF NoCall
  <1>3. ASSUME NEW c \in Call, NEW x \in Calls, call' = [call EXCEPT ![c] = x]
        PROVE  CallShape' /\ \A d \in Call : call[d] # NoCall => call'[d] # NoCall
    <2> HIDE DEF Calls
    <2>1. call' \in [Call -> {NoCall} \cup Calls]  BY <1>1, <1>3
    <2>2. \A d \in Call : call'[d] \in {call[d], x}  BY <1>1, <1>3
    <2> QED BY <1>2, <2>1, <2>2 DEF CallShape, Calls
  <1>4. CASE UNCHANGED call  BY <1>4 DEF CallShape
  <1>5. ASSUME NEW c \in Call, NEW o \in Option, NEW v \in {0} \cup DOMAIN versions,
               call' = [call EXCEPT ![c] = [state |-> "ready", option |-> o, chosen |-> v]]
        PROVE  CallShape' /\ \A d \in Call : call[d] # NoCall => call'[d] # NoCall
    <2> DEFINE x == [state |-> "ready", option |-> o, chosen |-> v]
    <2>1. v \in 0 .. MaxVersions  BY Content, ChecklistAssumption DEF BuilderInv
    <2>2. x \in Calls  BY <2>1
    <2> HIDE DEF x, Calls
    <2> QED BY <1>3, <1>5, <2>2 DEF x
  <1>6. ASSUME NEW c \in Call, NEW s \in Ends, call[c] # NoCall,
               call' = [call EXCEPT ![c].state = s]
        PROVE  CallShape' /\ \A d \in Call : call[d] # NoCall => call'[d] # NoCall
    <2> DEFINE x == [call[c] EXCEPT !.state = s]
    <2>1. call[c] \in Calls  BY <1>1, <1>6
    <2>2. x \in Calls  BY <2>1 DEF Ends
    <2>3. call' = [call EXCEPT ![c] = x]  BY <1>6
    <2> HIDE DEF x, Calls
    <2> QED BY <1>3, <2>2, <2>3
  <1> QED BY <1>4, <1>5, <1>6 DEF CallMoves

\* A pass under way stays what it was.
LEMMA WorkingStays ==
  ASSUME \A c \in Call : call[c] # NoCall => call'[c] # NoCall, NEW p, Working(p)
  PROVE  Working(p)'
  BY DEF Working

\* A pass that begins is for a call that waits.
LEMMA BeginWorking ==
  ASSUME HistoryInv, NEW w \in Worker, NEW c \in Call, Begin(w, c)
  PROVE  \/ worker' = worker
         \/ \E p : Working(p)' /\ worker' = [worker EXCEPT ![w] = p]
  <1>1. call[c].state = "ready" /\ versions' = versions  BY DEF Begin, checklistVars
  <1>2. call[c] # NoCall  BY <1>1 DEF NoCall
  <1>3. CASE ~NeedsChecklist(call[c].option)
    <2>1. /\ worker' = [worker EXCEPT ![w] = [on |-> c, version |-> 0, asked |-> <<>>]]
          /\ call' = call
      BY <1>3 DEF Begin
    <2>2. Working([on |-> c, version |-> 0, asked |-> <<>>])'
      BY <1>2, <2>1 DEF Working
    <2> QED BY <2>1, <2>2
  <1>4. ASSUME NEW v \in Resolved(c), call' = call,
               worker' = [worker EXCEPT ![w] = [on |-> c, version |-> v, asked |-> Items(v)]]
        PROVE  \E p : Working(p)' /\ worker' = [worker EXCEPT ![w] = p]
    <2> DEFINE p == [on |-> c, version |-> v, asked |-> Items(v)]
    <2>1. \A q : q = p => Working(q)'  BY <1>2, <1>4 DEF Working
    <2> QED BY <1>4, <2>1
  <1>5. CASE worker' = worker  BY <1>5
  <1> QED BY <1>3, <1>4, <1>5 DEF Begin


-----------------------------------------------------------------------------
(***************************************************************************)
(* Reports.                                                                *)
(***************************************************************************)

\* The model answers for items it was asked, and in the words of a verdict.
LEMMA AnswersTyped ==
  ASSUME NEW w \in Worker, Asked(worker[w]), NEW verdicts \in Answers(w)
  PROVE  /\ worker[w] # Idle
         /\ DOMAIN verdicts \subseteq Range(worker[w].asked)
         /\ \A i \in DOMAIN verdicts : verdicts[i].answer \in Answer
  <1>1. worker[w] # Idle  BY DEF Answers
  <1>2. PICK some \in SUBSET Range(worker[w].asked) :
          /\ verdicts \in [some -> UNION {Verdicts[i.key] : i \in some}]
          /\ \A i \in some : verdicts[i] \in Verdicts[i.key]
    BY <1>1 DEF Answers
  <1>3. \A i \in some : i.key \in Key  BY AskedItems
  <1>4. \A i \in some : Verdicts[i.key] \subseteq Verdict  BY <1>3, ReviewAssumption
  <1>5. \A i \in some : verdicts[i] \in Verdict  BY <1>2, <1>4
  <1> QED BY <1>1, <1>2, <1>5 DEF Verdict

\* The row a pass writes says what the model answered.
LEMMA JudgedTold ==
  ASSUME NEW w \in Worker, Asked(worker[w]), NEW verdicts \in Answers(w),
         NEW prose \in BOOLEAN, NEW id, NEW c
  PROVE  Told(Judged(id, c, worker[w], verdicts, prose))
  <1> DEFINE r == Judged(id, c, worker[w], verdicts, prose)
             o == call[c].option
             items == Range(worker[w].asked)
             forced == Forced(items)
             routed == Decide(Objective(items), verdicts, forced)
  <1>1. /\ r.asked = worker[w].asked /\ r.passes = verdicts /\ r.forced = forced /\ r.option = o
        /\ r.rows = [i \in items |-> Score(i, verdicts, routed)]
        /\ r.flagged = routed.flagged
    BY DEF Judged
  <1>2. r.prose = Prose(o, verdicts, prose)  BY DEF Judged
  <1>3. DOMAIN verdicts \subseteq items /\ \A i \in DOMAIN verdicts : verdicts[i].answer \in Answer
    BY AnswersTyped
  <1>4. ASSUME o = "FULL",
               \E i \in DOMAIN verdicts : i.key \in Compliance /\ verdicts[i].answer = "FAIL"
        PROVE  r.prose
    <2>1. Prose(o, verdicts, prose)  BY <1>4 DEF Prose
    <2> HIDE DEF r
    <2> QED BY <1>2, <2>1
  <1> HIDE DEF r, forced, o
  <1>5. routed = Decide(Objective(Range(r.asked)), r.passes, r.forced)  BY <1>1
  <1>6. \A d : d = routed =>
          /\ r.rows = [i \in Range(r.asked) |-> Score(i, r.passes, d)]
          /\ r.flagged = d.flagged
    BY <1>1
  <1>7. /\ r.rows = [i \in Range(r.asked) |->
                      Score(i, r.passes, Decide(Objective(Range(r.asked)), r.passes, r.forced))]
        /\ r.flagged = Decide(Objective(Range(r.asked)), r.passes, r.forced).flagged
    BY <1>5, <1>6
  <1>8. /\ DOMAIN r.passes \subseteq Range(r.asked)
        /\ \A i \in DOMAIN r.passes : r.passes[i].answer \in Answer
    BY <1>1, <1>3
  <1>9. r.option = "FULL" /\ (\E i \in DOMAIN r.passes : /\ i.key \in Compliance
                                                        /\ r.passes[i].answer = "FAIL")
          => r.prose
    BY <1>1, <1>4
  <1>10. Told(r)  BY <1>7, <1>8, <1>9 DEF Told
  <1> QED BY <1>10 DEF r

\* A report stays as it was, or goes.
LEMMA ReportsStay ==
  ASSUME ReportInv, \A c \in Call : report'[c] \in {report[c], NoReport}
  PROVE  \A c \in Reported' : Told(report[c])'
  <1> SUFFICES ASSUME NEW c \in Reported' PROVE Told(report[c])'
    OBVIOUS
  <1>1. c \in Reported /\ report'[c] = report[c]  BY DEF Reported
  <1> QED BY <1>1 DEF ReportInv, Told

LEMMA PersistReports ==
  ASSUME HistoryInv, ReportInv, NEW w \in Worker, NEW verdicts \in Answers(w),
         NEW prose \in BOOLEAN, Persist(w, verdicts, prose)
  PROVE  \A c \in Reported' : Told(report[c])'
  <1> DEFINE new == Judged(written + 1, worker[w].on, worker[w], verdicts, prose)
  <1>1. worker[w] # Idle /\ report' = [report EXCEPT ![worker[w].on] = new]
    BY DEF Persist
  <1>2. Asked(worker[w]) /\ DOMAIN report = Call  BY <1>1 DEF HistoryInv, Domains
  <1>3. Told(new)  BY <1>2, JudgedTold
  <1> HIDE DEF new
  <1> SUFFICES ASSUME NEW c \in Reported' PROVE Told(report[c])'
    OBVIOUS
  <1>4. CASE report'[c] = new  BY <1>3, <1>4 DEF Told
  <1>5. CASE report'[c] = report[c]
    <2>1. Told(report[c])  BY <1>5 DEF Reported, ReportInv
    <2> QED BY <1>5, <2>1 DEF Told
  <1> QED BY <1>1, <1>2, <1>4, <1>5 DEF Reported

\* The learned overrides are for items.
LEMMA OverridesStay ==
  ASSUME HistoryInv, ReportInv, [Next]_vars
  PROVE  overrides' \subseteq Item
  <1>0. overrides \subseteq Item  BY DEF ReportInv
  <1>1. CASE Edit
    <2>1. overrides' \subseteq overrides  BY <1>1 DEF Edit
    <2> QED BY <1>0, <2>1
  <1>2. CASE Recompute
    <2>1. overrides' \subseteq Held  BY <1>2 DEF Recompute
    <2> QED BY <2>1, HeldItems
  <1>3. CASE UNCHANGED overrides  BY <1>0, <1>3
  <1>4. Edit \/ Recompute \/ UNCHANGED overrides
    BY DEF Next, Fail, Open, Verify, Persist, Begin, Register, Delete, vars, reviewVars
  <1> QED BY <1>1, <1>2, <1>3, <1>4

LEMMA ReviewsStay ==
  ASSUME HistoryInv, PageInv, ReportInv, [Next]_vars
  PROVE  \A c \in Call : Len(reviews'[c]) \in 0 .. MaxReviews
  <1>0. /\ \A c \in Call : Len(reviews[c]) \in 0 .. MaxReviews
        /\ DOMAIN reviews = Call
    BY DEF ReportInv, HistoryInv, Domains
  <1>1. ASSUME NEW d, reviews' = [reviews EXCEPT ![d] = <<>>]
        PROVE  \A c \in Call : Len(reviews'[c]) \in 0 .. MaxReviews
    <2>1. \A c \in Call : reviews'[c] \in {reviews[c], <<>>}  BY <1>0, <1>1
    <2>2. Len(<<>>) = 0  OBVIOUS
    <2> QED BY <1>0, <2>1, <2>2, ReviewAssumption
  <1>2. CASE \E c \in Call : Delete(c)  BY <1>1, <1>2 DEF Delete
  <1>3. CASE \E w \in Worker : \E verdicts \in Answers(w), prose \in BOOLEAN :
               Persist(w, verdicts, prose)
    BY <1>1, <1>3 DEF Persist
  <1>4. CASE \E u \in Verifier, j \in Judgement : Verify(u, j)
    <2>1. PICK u \in Verifier, j \in Judgement : Verify(u, j)  BY <1>4
    <2> DEFINE d == screen[u].of
               one == [judgement |-> j, by |-> u, page |-> screen[u].page]
    <2>2. CASE reviews' = reviews  BY <1>0, <2>2
    <2>3. CASE Len(reviews[d]) < MaxReviews /\ reviews' = [reviews EXCEPT ![d] = Append(@, one)]
      <3> SUFFICES ASSUME NEW c \in Call PROVE Len(reviews'[c]) \in 0 .. MaxReviews
        OBVIOUS
      <3>1. CASE c # d
        <4>1. reviews'[c] = reviews[c]  BY <1>0, <2>3, <3>1
        <4> QED BY <1>0, <4>1
      <3>2. CASE c = d
        <4>1. reviews'[c] = Append(reviews[c], one)  BY <1>0, <2>3, <3>2
        <4>2. reviews[c] \in Seq(Of(report[c]) \cup {one})
          <5>1. CASE reviews[c] = <<>>  BY <5>1
          <5>2. CASE reviews[c] # <<>>
            <6>1. reviews[c] \in Seq(Of(report[c]))  BY <5>2 DEF PageInv
            <6> QED BY <6>1
          <5> QED BY <5>1, <5>2
        <4>3. Len(Append(reviews[c], one)) = Len(reviews[c]) + 1  BY <4>2
        <4> QED BY <1>0, <2>3, <3>2, <4>1, <4>3, ReviewAssumption
      <3> QED BY <3>1, <3>2
    <2> QED BY <2>1, <2>2, <2>3 DEF Verify
  <1>5. CASE UNCHANGED reviews  BY <1>0, <1>5
  <1>6. \/ \E c \in Call : Delete(c)
        \/ \E w \in Worker : \E verdicts \in Answers(w), prose \in BOOLEAN :
             Persist(w, verdicts, prose)
        \/ \E u \in Verifier, j \in Judgement : Verify(u, j)
        \/ UNCHANGED reviews
    BY DEF Next, Edit, Recompute, Fail, Open, Begin, Register, vars, reviewVars
  <1> QED BY <1>2, <1>3, <1>4, <1>5, <1>6


LEMMA InitReport ==
  ASSUME Init
  PROVE  ReportInv
  <1>1. /\ call = [c \in Call |-> NoCall] /\ worker = [w \in Worker |-> Idle]
        /\ report = [c \in Call |-> NoReport] /\ reviews = [c \in Call |-> <<>>]
        /\ written = 0 /\ overrides = {}
    BY DEF Init
  <1>2. CallShape  BY <1>1 DEF CallShape
  <1>3. Reported = {}  BY <1>1 DEF Reported
  <1>4. Len(<<>>) = 0
    OBVIOUS
  <1> QED BY <1>1, <1>2, <1>3, <1>4, ReviewAssumption DEF ReportInv

LEMMA NextReport ==
  ASSUME HistoryInv, PageInv, ReportInv, [Next]_vars
  PROVE  ReportInv'
  <1>1. Kept /\ HistoryInv' /\ BuilderInv /\ Domains  BY NextHistory DEF HistoryInv
  <1>2. CallShape' /\ \A c \in Call : call[c] # NoCall => call'[c] # NoCall
    BY <1>1, CallsMove, ShapeStays DEF ReportInv
  <1>3. \A p : Working(p) => Working(p)'  BY <1>1, <1>2, WorkingStays
  <1>4. overrides' \subseteq Item  BY OverridesStay
  <1>5. \A c \in Call : Len(reviews'[c]) \in 0 .. MaxReviews  BY ReviewsStay
  <1>6. ASSUME \A w \in Worker : worker'[w] \in {worker[w], Idle}
        PROVE  \A w \in Worker : worker'[w] # Idle => Working(worker[w])'
    <2> SUFFICES ASSUME NEW w \in Worker, worker'[w] # Idle PROVE Working(worker[w])'
      OBVIOUS
    <2>1. worker'[w] = worker[w] /\ Working(worker[w])  BY <1>6 DEF ReportInv
    <2> QED BY <1>3, <2>1 DEF Working
  <1>7. CASE \E w \in Worker, c \in Call : Begin(w, c)
    <2>1. PICK w \in Worker, c \in Call : Begin(w, c)  BY <1>7
    <2>2. UNCHANGED <<report, written>>  BY <2>1 DEF Begin
    <2>3. \A d \in Reported' : Told(report[d])'
      BY <1>1, <2>2, ReportsStay
    <2>4. \A u \in Worker : worker'[u] # Idle => Working(worker[u])'
      <3>1. CASE worker' = worker  BY <1>6, <3>1
      <3>2. CASE \E p : Working(p)' /\ worker' = [worker EXCEPT ![w] = p]
        <4>1. PICK p : Working(p)' /\ worker' = [worker EXCEPT ![w] = p]  BY <3>2
        <4> SUFFICES ASSUME NEW u \in Worker, worker'[u] # Idle PROVE Working(worker[u])'
          OBVIOUS
        <4>2. CASE u = w
          <5>1. worker'[u] = p  BY <1>1, <4>1, <4>2 DEF Domains
          <5> QED BY <4>1, <5>1 DEF Working
        <4>3. CASE u # w
          <5>1. worker'[u] = worker[u]  BY <1>1, <4>1, <4>3 DEF Domains
          <5>2. Working(worker[u])  BY <4>3, <5>1 DEF ReportInv
          <5> QED BY <1>3, <5>1, <5>2 DEF Working
        <4> QED BY <4>2, <4>3
      <3> QED BY <2>1, <3>1, <3>2, BeginWorking
    <2> QED BY <1>2, <1>4, <1>5, <2>2, <2>3, <2>4 DEF ReportInv
  <1>8. CASE \E w \in Worker : \E verdicts \in Answers(w), prose \in BOOLEAN :
               Persist(w, verdicts, prose)
    <2>1. PICK w \in Worker : \E verdicts \in Answers(w), prose \in BOOLEAN :
                                Persist(w, verdicts, prose)
      BY <1>8
    <2>2. /\ written' = written + 1 /\ written < MaxReports
          /\ worker' = [worker EXCEPT ![w] = Idle]
      BY <2>1 DEF Persist, Finish
    <2>3. \A d \in Reported' : Told(report[d])'
      BY <2>1, PersistReports
    <2>4. \A u \in Worker : worker'[u] \in {worker[u], Idle}  BY <1>1, <2>2 DEF Domains
    <2>5. written' \in 0 .. MaxReports  BY <2>2, ReviewAssumption DEF ReportInv
    <2> QED BY <1>2, <1>4, <1>5, <1>6, <2>3, <2>4, <2>5 DEF ReportInv
  <1>9. CASE /\ written' = written
             /\ \A w \in Worker : worker'[w] \in {worker[w], Idle}
             /\ \A c \in Call : report'[c] \in {report[c], NoReport}
    <2>1. \A d \in Reported' : Told(report[d])'
      BY <1>1, <1>9, ReportsStay
    <2> QED BY <1>2, <1>4, <1>5, <1>6, <1>9, <2>1 DEF ReportInv
  <1>10. \/ \E w \in Worker, c \in Call : Begin(w, c)
         \/ \E w \in Worker : \E verdicts \in Answers(w), prose \in BOOLEAN :
              Persist(w, verdicts, prose)
         \/ /\ written' = written
            /\ \A w \in Worker : worker'[w] \in {worker[w], Idle}
            /\ \A c \in Call : report'[c] \in {report[c], NoReport}
    <2>1. CASE \/ Edit \/ Recompute \/ UNCHANGED vars
               \/ \E c \in Call, o \in Option, v \in 0 .. MaxVersions : Register(c, o, v)
               \/ \E u \in Verifier : (\E c \in Call : Open(u, c)) \/ \E j \in Judgement : Verify(u, j)
      BY <2>1 DEF Edit, Recompute, Register, Open, Verify, vars, reviewVars
    <2>2. CASE \E w \in Worker : Fail(w)  BY <1>1, <2>2 DEF Fail, Domains
    <2>3. CASE \E c \in Call : Delete(c)  BY <1>1, <2>3 DEF Delete, Domains
    <2> QED BY <2>1, <2>2, <2>3 DEF Next
  <1> QED BY <1>7, <1>8, <1>9, <1>10

\* What every report keeps of its pass, in every reachable state.
LEMMA ReportsHold == Spec => [](HistoryInv /\ PageInv /\ ReportInv)
  <1>1. Init => HistoryInv /\ PageInv /\ ReportInv
    BY InitHistory, InitReport DEF Init, PageInv
  <1>2. HistoryInv /\ PageInv /\ ReportInv /\ [Next]_vars => (HistoryInv /\ PageInv /\ ReportInv)'
    BY NextHistory, NextPages, NextReport
  <1> QED BY <1>1, <1>2, PTL DEF Spec


-----------------------------------------------------------------------------
(***************************************************************************)
(* What is read of a report.                                               *)
(***************************************************************************)

\* A report has a row for every item it asks, all of them are found, and they are in order.
LEMMA RowsOf ==
  ASSUME HistoryInv, ReportInv, NEW c \in Reported, NEW r, r = report[c]
  PROVE  /\ DOMAIN r.rows = Range(r.asked)
         /\ Ordered(Range(r.asked)) /\ r.asked = InOrder(Range(r.asked))
         /\ Joined(r) = Range(r.asked)
         /\ \A i \in Range(r.asked) : Stored(i) /\ i.of = r.version
         /\ r.version # 0 => r.version \in DOMAIN versions
         /\ r.version = 0 => Range(r.asked) = {}
  <1>1. BuilderInv /\ Grounded(r) /\ Told(r)  BY DEF HistoryInv, ReportInv
  <1>2. DOMAIN r.rows = Range(r.asked)  BY <1>1 DEF Told
  <1>3. CASE r.version = 0 /\ r.asked = <<>>
    <2>1. Range(r.asked) = {}  BY <1>3 DEF Range
    <2>2. IsFiniteSet({}) /\ Cardinality({}) = 0  BY FS_EmptySet
    <2>3. Ordered(Range(r.asked))  BY <2>1, <2>2 DEF Ordered
    <2>4. InOrder({}) = <<>>
      <3>1. Ordered({})  BY <2>1, <2>3
      <3>2. InOrder({}) \in Seq({}) /\ Len(InOrder({})) = 0  BY <2>2, <3>1, InOrderOf
      <3> QED BY <3>2
    <2> QED BY <1>2, <1>3, <2>1, <2>3, <2>4 DEF Joined
  <1>4. CASE /\ r.version \in DOMAIN versions
             /\ Sound(r.version, DOMAIN r.rows) /\ r.asked = InOrder(DOMAIN r.rows)
             /\ \A i \in DOMAIN r.rows : Stored(i)
    <2>1. r.version # 0  BY <1>1, <1>4, Content DEF BuilderInv
    <2>2. \A i \in Range(r.asked) : Stored(i)  BY <1>2, <1>4
    <2>3. Joined(r) = Range(r.asked)  BY <1>2, <2>2 DEF Joined
    <2>4. Ordered(Range(r.asked)) /\ \A i \in Range(r.asked) : i.of = r.version
      BY <1>2, <1>4 DEF Sound
    <2> QED BY <1>2, <1>4, <2>1, <2>2, <2>3, <2>4
  <1> QED BY <1>1, <1>3, <1>4 DEF Grounded

\* Every call, pass, report and verification is of its kind, and inside its bounds: what a
\* pass asks and what a report scores are items of the checklists, a report never names a
\* version there is none of, and verifications go with their report (models/__init__.py,
\* judge/service.py, api/calls.py).
THEOREM ReviewTypeCorrect == Spec => []TypeOK
  <1>1. ASSUME HistoryInv, PageInv, ReportInv
        PROVE  TypeOK
    <2>1. BuilderInv /\ ChecklistTypeOK /\ Domains /\ CallShape
      BY <1>1 DEF HistoryInv, BuilderInv, ReportInv
    <2>2. \A c \in Call :
            \/ call[c] = NoCall
            \/ call[c] \in [state : {"ready", "judged", "failed", "deleted"}, option : Option,
                            chosen : 0 .. MaxVersions]
      BY <2>1 DEF CallShape
    <2>3. ASSUME NEW c \in Call, report[c] # NoReport
          PROVE  /\ report[c].id \in 1 .. written /\ report[c].version \in 0 .. MaxVersions
                 /\ DOMAIN report[c].rows \subseteq Item
                 /\ \A i \in DOMAIN report[c].rows : report[c].rows[i] \in ReportRow
      <3> DEFINE r == report[c]
      <3>1. c \in Reported  BY <2>3 DEF Reported
      <3>2. Grounded(r) /\ Told(r)  BY <1>1, <3>1 DEF HistoryInv, ReportInv
      <3>3. r.id \in 1 .. written /\ r.version \in {0} \cup DOMAIN versions
        BY <3>2 DEF Grounded
      <3>4. r.version \in 0 .. MaxVersions
        BY <2>1, <3>3, Content, ChecklistAssumption
      <3>5. DOMAIN r.rows = Range(r.asked) /\ Range(r.asked) \subseteq Item
        BY <1>1, <3>1, RowsOf DEF Ordered
      <3>6. \A i \in Range(r.asked) : r.rows[i] \in ReportRow
        BY <3>2 DEF Told, Score, ReportRow
      <3> QED BY <3>3, <3>4, <3>5, <3>6
    <2>4. \A c \in Call : report[c] = NoReport => reviews[c] = <<>>
      BY <1>1 DEF PageInv, Reported
    <2>5. ASSUME NEW w \in Worker, worker[w] # Idle
          PROVE  worker[w].on \in Call /\ Range(worker[w].asked) \subseteq Item
      <3>1. Working(worker[w]) /\ Asked(worker[w])  BY <1>1, <2>5 DEF HistoryInv, ReportInv
      <3> QED BY <3>1, AskedItems DEF Working
    <2>6. \A u \in Verifier : screen[u] # NoPage => screen[u].of \in Call
      BY <1>1 DEF PageInv
    <2> QED BY <1>1, <2>1, <2>2, <2>3, <2>4, <2>5, <2>6 DEF TypeOK, ReportInv
  <1> QED BY <1>1, ReportsHold, PTL

\* The items of a report whose verdict calls for a person, and how they are routed.
LEMMA DueRouted ==
  ASSUME HistoryInv, ReportInv, NEW c \in Reported, NEW r, r = report[c]
  PROVE  /\ Due(r) \subseteq Joined(r)
         /\ \A i \in Due(r) : r.flagged \/ r.rows[i].review
         /\ \A i \in Due(r) : i.key \in Critical \cup Elevated => r.rows[i].review
         /\ Due(r) # {} => r.version # 0 /\ NeedsReview(r)
  <1> DEFINE items == Objective(DOMAIN r.rows)
             due == Raw(items, r.passes, r.forced)
             trips == Trips(items, due)
             kept == {i \in due : i.key \in Critical \cup Elevated}
  <1>1. Told(r)  BY DEF ReportInv
  <1>2. /\ DOMAIN r.rows = Range(r.asked) /\ Joined(r) = Range(r.asked)
        /\ r.version = 0 => Range(r.asked) = {}
    BY RowsOf
  <1>3. due \subseteq DOMAIN r.rows  BY DEF Raw, Objective
  <1>4. /\ r.rows = [i \in Range(r.asked) |->
                      Score(i, r.passes, Decide(Objective(Range(r.asked)), r.passes, r.forced))]
        /\ r.flagged = Decide(Objective(Range(r.asked)), r.passes, r.forced).flagged
    BY <1>1 DEF Told
  <1>5. Decide(items, r.passes, r.forced) =
          [flagged |-> trips, review |-> IF trips THEN kept ELSE due]
    BY DEF Decide
  <1>6. items = Objective(Range(r.asked)) /\ Due(r) = due  BY <1>2 DEF Due
  <1> HIDE DEF items, due, trips, kept
  <1>7. \A i \in due : r.rows[i].review = (i \in IF trips THEN kept ELSE due)
    BY <1>2, <1>3, <1>4, <1>5, <1>6 DEF Score
  <1>8. r.flagged = trips  BY <1>4, <1>5, <1>6
  <1>9. \A i \in due : i.key \in Critical \cup Elevated => i \in kept  BY DEF kept
  <1>10. \A i \in due : r.flagged \/ r.rows[i].review  BY <1>7, <1>8
  <1>11. \A i \in due : i.key \in Critical \cup Elevated => r.rows[i].review  BY <1>7, <1>9
  <1>12. ASSUME due # {}
         PROVE  r.version # 0 /\ NeedsReview(r)
    <2>1. PICK i \in due : TRUE  BY <1>12
    <2>2. i \in Joined(r)  BY <1>2, <1>3
    <2>3. r.version # 0  BY <1>2, <2>2
    <2>4. r.flagged \/ r.rows[i].review  BY <1>10
    <2> QED BY <2>2, <2>3, <2>4 DEF NeedsReview
  <1> QED BY <1>2, <1>3, <1>6, <1>10, <1>11, <1>12

\* Some of the reported calls are counted.
LEMMA Counted ==
  ASSUME NEW S, S \subseteq Call, NEW T \in SUBSET S
  PROVE  Cardinality(T) <= Cardinality(S)
  <1>1. IsFiniteSet(S)  BY ReviewAssumption, FS_Subset
  <1> QED BY <1>1, FS_Subset

\* A verdict that calls for a person reaches one, whatever was learned, edited or deleted
\* since: either the breaker leaves the item for review, or it trips and the whole call is
\* flagged, and the summary counts the call for review either way; the breaker never hides
\* an item of elevated or critical risk (judge/routing.py, reports/summary.py).
THEOREM EscalationsReachPeople == Spec => []EscalationsSurface
  <1>1. ASSUME HistoryInv, ReportInv
        PROVE  EscalationsSurface
    <2> DEFINE R == [d \in Reported |-> report[d]]
               due == {c \in Reported : Due(report[c]) # {}}
               scored == {c \in DOMAIN R : R[c].version # 0}
               counted == {c \in scored : NeedsReview(R[c])}
    <2>1. due \subseteq counted
      <3>1. \A c \in due : report[c].version # 0 /\ NeedsReview(report[c])  BY <1>1, DueRouted
      <3>2. DOMAIN R = Reported /\ \A c \in Reported : R[c] = report[c]
        OBVIOUS
      <3> HIDE DEF R
      <3> QED BY <3>1, <3>2
    <2>2. Summary(R).review = Cardinality(counted)  BY DEF Summary
    <2>3. counted \subseteq Call  BY DEF Reported
    <2> HIDE DEF counted, due, scored, R
    <2>4. Cardinality(due) <= Summary(R).review  BY <2>1, <2>2, <2>3, Counted
    <2>5. \A c \in Reported :
            LET r == report[c]
            IN  /\ Due(r) # {} => r.flagged \/ \E i \in Joined(r) : r.rows[i].review
                /\ \A i \in Due(r) : i.key \in Critical \cup Elevated => r.rows[i].review
      <3> SUFFICES ASSUME NEW c \in Reported, NEW r, r = report[c]
                   PROVE  /\ Due(r) # {} => r.flagged \/ \E i \in Joined(r) : r.rows[i].review
                          /\ \A i \in Due(r) : i.key \in Critical \cup Elevated => r.rows[i].review
        OBVIOUS
      <3> QED BY <1>1, DueRouted
    <2> QED BY <2>4, <2>5 DEF EscalationsSurface, due, R
  <1> QED BY <1>1, ReportsHold, PTL

LEMMA FirstOfTwo ==
  ASSUME NEW a, NEW b, NEW s \in {<<>>, <<a, b>>}, s # <<>>
  PROVE  s[1] = a
  OBVIOUS

\* The second block of a feedback report, whatever follows.
LEMMA SecondBlock ==
  ASSUME NEW a, NEW b, NEW c, NEW d, NEW e, NEW s \in {<<e>>, <<>>}
  PROVE  b \in Range(<<a, b, c, d>> \o s)
  <1> DEFINE S == {a, b, c, d, e}
  <1> HIDE DEF S
  <1>a. a \in S /\ b \in S /\ c \in S /\ d \in S /\ e \in S  BY DEF S
  <1> DEFINE four == <<a, b, c, d>>
  <1>1. four \in Seq(S) /\ Len(four) = 4 /\ four[2] = b  BY <1>a
  <1>b. <<e>> \in Seq(S) /\ <<>> \in Seq(S)  BY <1>a
  <1>2. s \in Seq(S)  BY <1>b
  <1> HIDE DEF four
  <1>4. Len(s) \in Nat  BY <1>2
  <1>3. /\ four \o s \in Seq(S) /\ Len(four \o s) = Len(four) + Len(s)
        /\ \A i \in 1 .. Len(four) + Len(s) :
             (four \o s)[i] = IF i <= Len(four) THEN four[i] ELSE s[i - Len(four)]
    BY <1>1, <1>2, ConcatProperties
  <1>c. 2 \in 1 .. Len(four) + Len(s) /\ 2 <= Len(four)  BY <1>1, <1>4
  <1>5. 2 \in DOMAIN (four \o s) /\ (four \o s)[2] = b  BY <1>1, <1>3, <1>c
  <1> QED BY <1>5 DEF Range, four

\* A report whose verdict of compliance is a FAIL has findings.
LEMMA FailedFinds ==
  ASSUME HistoryInv, ReportInv, NEW c \in Reported, NEW r, r = report[c],
         r.option = "FULL", Failed(r)
  PROVE  /\ Document(r, "whole").findings /\ Document(r, "feedback").findings
         /\ NeedsFeedback(r.option) /\ r.prose
  <1>1. Overall(r, TRUE) = "FAIL"
    <2>1. Document(r, "whole").pills \in {<<>>, <<Overall(r, TRUE), Overall(r, FALSE)>>}
      BY DEF Document
    <2> QED BY <2>1, FirstOfTwo DEF Failed
  <1>2. PICK i \in Joined(r) : i.key \in Compliance /\ r.rows[i].answer = "FAIL"
    BY <1>1 DEF Overall, Objective
  <1>3. Told(r)  BY DEF ReportInv
  <1>4. i \in Range(r.asked)  BY RowsOf
  <1>5. i \in DOMAIN r.passes /\ r.passes[i].answer = "FAIL"
    BY <1>2, <1>3, <1>4 DEF Told, Score, NoAnswer
  <1>6. r.prose  BY <1>2, <1>3, <1>5 DEF Told
  <1>7. NeedsFeedback(r.option)  BY DEF NeedsFeedback
  <1>8. [kind |-> "feedback", of |-> "compliance"] \in Range(Blocks(r))
    <2> DEFINE last == IF Joined(r) # {} THEN <<[kind |-> "checklist", of |-> "card"]>> ELSE <<>>
               four == <<[kind |-> "feedback", of |-> "coaching"],
                         [kind |-> "feedback", of |-> "compliance"],
                         [kind |-> "feedback", of |-> "development"],
                         [kind |-> "ideal", of |-> "conversation"]>>
    <2>1. Blocks(r) = four \o last  BY <1>7 DEF Blocks
    <2>2. last \in {<<[kind |-> "checklist", of |-> "card"]>>, <<>>}
      OBVIOUS
    <2> HIDE DEF last
    <2>3. [kind |-> "feedback", of |-> "compliance"] \in Range(four \o last)
      BY <2>2, SecondBlock
    <2> HIDE DEF four
    <2> QED BY <2>1, <2>3
  <1>9. Document(r, "whole").findings /\ Document(r, "feedback").findings
    <2> SUFFICES ASSUME NEW section \in {"whole", "feedback"}
                 PROVE  Document(r, section).findings
      OBVIOUS
    <2> DEFINE block == [kind |-> "feedback", of |-> "compliance"]
               shown == {b \in Range(Blocks(r)) : section \in {"whole", b.kind}}
    <2>1. block.kind = "feedback" /\ block.of = "compliance"
      OBVIOUS
    <2>2. block \in Range(Blocks(r))  BY <1>8
    <2> HIDE DEF block
    <2>3. block \in shown  BY <2>1, <2>2
    <2>4. \E b \in shown : b.of = "compliance"  BY <2>1, <2>3
    <2>5. Document(r, section).findings = (r.prose /\ \E b \in shown : b.of = "compliance")
      BY DEF Document
    <2> HIDE DEF shown
    <2>6. r.prose /\ \E b \in shown : b.of = "compliance"  BY <1>6, <2>4
    <2> QED BY <2>5, <2>6
  <1> QED BY <1>6, <1>7, <1>9

\* A full report does not contradict itself: a compliance item marked FAIL makes the prose of
\* its feedback, whatever the agent wrote, so the badge of the document, the verdict of its
\* template and its findings agree, and the summary of the batch counts at least as many
\* concerns as there are such reports (judge/service.py, reports/render.py,
\* reports/template.py, reports/summary.py).
THEOREM ReportsAgree == Spec => []NeverContradicts
  <1>1. ASSUME HistoryInv, ReportInv
        PROVE  NeverContradicts
    <2> DEFINE R == [d \in Reported |-> report[d]]
               failed == {c \in Reported : report[c].option = "FULL" /\ Failed(report[c])}
               briefed == {c \in DOMAIN R : NeedsFeedback(R[c].option)}
               concerns == {c \in briefed : R[c].prose}
    <2>1. \A c \in failed : /\ Document(report[c], "whole").findings
                            /\ Document(report[c], "feedback").findings
                            /\ NeedsFeedback(report[c].option) /\ report[c].prose
      BY <1>1, FailedFinds
    <2>2. failed \subseteq concerns
      <3>1. DOMAIN R = Reported /\ \A c \in Reported : R[c] = report[c]
        OBVIOUS
      <3> HIDE DEF R
      <3> QED BY <2>1, <3>1
    <2>3. FeedbackSummary(R).concerns = Cardinality(concerns)  BY DEF FeedbackSummary
    <2>4. concerns \subseteq Call  BY DEF Reported
    <2> HIDE DEF concerns, briefed, R
    <2>5. Cardinality(failed) <= FeedbackSummary(R).concerns  BY <2>2, <2>3, <2>4, Counted
    <2>6. \A c \in failed : \A section \in {"whole", "feedback"} :
            Document(report[c], section).findings
      BY <2>1
    <2> QED BY <2>5, <2>6 DEF NeverContradicts, R
  <1> QED BY <1>1, ReportsHold, PTL

-----------------------------------------------------------------------------
(***************************************************************************)
(* The items of a report in their order.                                   *)
(***************************************************************************)

\* Some of the items that have an order have one, and nothing is before the first of all.
LEMMA OrderedPart ==
  ASSUME NEW S, Ordered(S), NEW T \in SUBSET S
  PROVE  Ordered(T) /\ \A i : First(i, S) => First(i, T)
  <1>1. IsFiniteSet(T)  BY FS_Subset DEF Ordered
  <1> QED BY <1>1 DEF Ordered, First

\* The items of a report are a sequence: none comes twice, and none is before the first.
LEMMA AskedInOrder ==
  ASSUME HistoryInv, ReportInv, NEW c \in Reported, NEW r, r = report[c]
  PROVE  /\ Len(r.asked) \in Nat
         /\ DOMAIN r.asked = 1 .. Len(r.asked)
         /\ r.asked \in Seq(Item)
         /\ Cardinality(Range(r.asked)) = Len(r.asked)
         /\ \A m, n \in DOMAIN r.asked : r.asked[m] = r.asked[n] => m = n
         /\ r.asked # <<>> => /\ 1 \in DOMAIN r.asked /\ Range(r.asked) # {}
                              /\ First(r.asked[1], Range(r.asked))
  <1> DEFINE T == Range(r.asked)
             a == r.asked
             N == Cardinality(T)
  <1>1. Ordered(T) /\ a = InOrder(T)  BY RowsOf
  <1>2. T \in SUBSET Item  BY <1>1 DEF Ordered
  <1> HIDE DEF T
  <1>3. /\ N \in Nat /\ InOrder(T) \in Seq(T) /\ Len(InOrder(T)) = N
        /\ DOMAIN InOrder(T) = 1 .. N
        /\ \A m, n \in 1 .. N : InOrder(T)[m] = InOrder(T)[n] => m = n
        /\ T # {} => 1 \in 1 .. N /\ First(InOrder(T)[1], T)
    BY <1>1, InOrderOf
  <1> HIDE DEF N, a
  <1>4. /\ a \in Seq(T) /\ Len(a) = N /\ DOMAIN a = 1 .. N
        /\ \A m, n \in 1 .. N : a[m] = a[n] => m = n
        /\ T # {} => 1 \in 1 .. N /\ First(a[1], T)
    BY <1>1, <1>3
  <1>5. a \in Seq(Item)  BY <1>2, <1>4
  <1>6. a # <<>> => T # {}
    <2>1. a # <<>> => Len(a) # 0  BY <1>4
    <2>2. a # <<>> => 1 \in DOMAIN a  BY <1>3, <1>4, <2>1
    <2> QED BY <2>2 DEF T, Range, a
  <1> QED BY <1>3, <1>4, <1>5, <1>6 DEF N, T, a

\* Two tables, one after the other.
LEMMA Joining ==
  ASSUME NEW S, NEW p \in Seq(S), NEW q \in Seq(S)
  PROVE  /\ Len(p \o q) = Len(p) + Len(q)
         /\ Range(p \o q) = Range(p) \cup Range(q)
         /\ 1 <= Len(p) => p # <<>> /\ (p \o q)[1] = p[1]
  <1>1. Len(p) \in Nat /\ Len(q) \in Nat /\ DOMAIN p = 1 .. Len(p) /\ DOMAIN q = 1 .. Len(q)
    OBVIOUS
  <1>2. /\ p \o q \in Seq(S) /\ Len(p \o q) = Len(p) + Len(q)
        /\ \A i \in 1 .. Len(p) + Len(q) :
             (p \o q)[i] = IF i <= Len(p) THEN p[i] ELSE q[i - Len(p)]
    BY ConcatProperties
  <1>3. DOMAIN (p \o q) = 1 .. Len(p) + Len(q)  BY <1>2
  <1>4. ASSUME NEW i \in DOMAIN (p \o q)
        PROVE  (p \o q)[i] \in Range(p) \cup Range(q)
    <2>1. CASE i <= Len(p)
      <3>1. i \in DOMAIN p /\ (p \o q)[i] = p[i]  BY <1>1, <1>2, <1>3, <2>1
      <3> QED BY <3>1 DEF Range
    <2>2. CASE i > Len(p)
      <3>1. i - Len(p) \in DOMAIN q /\ (p \o q)[i] = q[i - Len(p)]  BY <1>1, <1>2, <1>3, <2>2
      <3> QED BY <3>1 DEF Range
    <2> QED BY <1>1, <1>3, <2>1, <2>2
  <1>5. ASSUME NEW i \in DOMAIN p
        PROVE  p[i] \in Range(p \o q)
    <2>1. i \in DOMAIN (p \o q) /\ (p \o q)[i] = p[i]  BY <1>1, <1>2, <1>3
    <2> QED BY <2>1 DEF Range
  <1>6. ASSUME NEW i \in DOMAIN q
        PROVE  q[i] \in Range(p \o q)
    <2>1. i + Len(p) \in DOMAIN (p \o q) /\ (p \o q)[i + Len(p)] = q[i]  BY <1>1, <1>2, <1>3
    <2> QED BY <2>1 DEF Range
  <1>7. Range(p \o q) = Range(p) \cup Range(q)  BY <1>4, <1>5, <1>6 DEF Range
  <1>8. 1 <= Len(p) => p # <<>> /\ (p \o q)[1] = p[1]  BY <1>1, <1>2
  <1> QED BY <1>2, <1>7, <1>8

\* One row of a table.
Shown(r, i) ==
  [item |-> i, status |-> Cell(i, r.rows[i].answer), review |-> r.rows[i].review]

Table(r, T) == [k \in DOMAIN InOrder(T) |-> Shown(r, InOrder(T)[k])]

Rows(r, T) == {Shown(r, i) : i \in T}

\* A table of some of the items of a report, in their order.
LEMMA TableOf ==
  ASSUME NEW r, NEW J, Ordered(J), NEW T \in SUBSET J
  PROVE  /\ Table(r, T) \in Seq(Rows(r, J)) /\ Len(Table(r, T)) = Cardinality(T)
         /\ \A k \in DOMAIN Table(r, T) : \E i \in T : Table(r, T)[k] = Shown(r, i)
         /\ \A i \in T : \E k \in DOMAIN Table(r, T) : Table(r, T)[k] = Shown(r, i)
         /\ \A i \in T : First(i, T) => 1 <= Len(Table(r, T)) /\ Table(r, T)[1] = Shown(r, i)
  <1> DEFINE rows == InOrder(T)
             table == Table(r, T)
             N == Cardinality(T)
             S == Rows(r, J)
  <1>a. Ordered(T)  BY OrderedPart
  <1>b. \A i \in T : Shown(r, i) \in S  BY DEF Rows
  <1>1. /\ N \in Nat /\ DOMAIN rows = 1 .. N
        /\ \A n \in 1 .. N : rows[n] \in T
        /\ \A i \in T : \E n \in 1 .. N : rows[n] = i
        /\ \A i \in T : First(i, T) => 1 \in 1 .. N /\ rows[1] = i
    <2>1. /\ N \in Nat /\ DOMAIN rows = 1 .. N /\ Range(rows) = T
          /\ \A i \in T : First(i, T) => 1 \in 1 .. N /\ rows[1] = i
      BY <1>a, InOrderOf
    <2> HIDE DEF rows, N
    <2> QED BY <2>1 DEF Range
  <1>2. table = [k \in DOMAIN rows |-> Shown(r, rows[k])]  BY DEF Table
  <1> HIDE DEF rows, N, table, S
  <1>3. table = [k \in 1 .. N |-> Shown(r, rows[k])]  BY <1>1, <1>2
  <1>4. \A k \in 1 .. N : Shown(r, rows[k]) \in S  BY <1>1, <1>b
  <1>5. table \in Seq(S) /\ Len(table) = N  BY <1>1, <1>3, <1>4
  <1>6. DOMAIN table = 1 .. N /\ \A k \in 1 .. N : table[k] = Shown(r, rows[k])  BY <1>3
  <1>7. \A k \in DOMAIN table : \E i \in T : table[k] = Shown(r, i)  BY <1>1, <1>6
  <1>8. \A i \in T : \E k \in DOMAIN table : table[k] = Shown(r, i)  BY <1>1, <1>6
  <1>9. \A i \in T : First(i, T) => 1 <= Len(table) /\ table[1] = Shown(r, i)
    BY <1>1, <1>5, <1>6
  <1> QED BY <1>5, <1>7, <1>8, <1>9 DEF N, table, S

AskedRows(r) == {Shown(r, r.asked[n]) : n \in DOMAIN r.asked}

\* The card of a report shows each of its items in one row, the first of them first.
LEMMA CardShows ==
  ASSUME HistoryInv, ReportInv, NEW c \in Reported, NEW r, r = report[c],
         NEW card, card = ReportCard(r)
  PROVE  /\ Len(card[1] \o card[2]) = Len(r.asked)
         /\ Range(card[1] \o card[2]) = AskedRows(r)
         /\ r.asked # <<>> => card[1] # <<>> /\ (card[1] \o card[2])[1] = Shown(r, r.asked[1])
  <1> DEFINE J == Joined(r)
             N == Len(r.asked)
             first == J # {} /\ InOrder(J)[1].key \in Compliance
             A == {i \in J : (i.key \in Compliance) = first}
             B == {i \in J : (i.key \in Compliance) = ~first}
             S == Rows(r, J)
  <1>1. /\ J = Range(r.asked) /\ N \in Nat /\ DOMAIN r.asked = 1 .. N
        /\ Ordered(J) /\ r.asked = InOrder(J) /\ Cardinality(J) = N
        /\ r.asked # <<>> => J # {} /\ r.asked[1] \in J /\ First(r.asked[1], J)
    <2>1. /\ Joined(r) = Range(r.asked) /\ Ordered(Range(r.asked))
          /\ r.asked = InOrder(Range(r.asked))
      BY RowsOf
    <2>2. /\ Len(r.asked) \in Nat /\ DOMAIN r.asked = 1 .. Len(r.asked)
          /\ Cardinality(Range(r.asked)) = Len(r.asked)
          /\ r.asked # <<>> => /\ 1 \in DOMAIN r.asked /\ Range(r.asked) # {}
                               /\ First(r.asked[1], Range(r.asked))
      BY AskedInOrder
    <2>3. \A n \in DOMAIN r.asked : r.asked[n] \in Range(r.asked)  BY DEF Range
    <2> QED BY <2>1, <2>2, <2>3
  <1>2. /\ \A n \in 1 .. N : r.asked[n] \in J
        /\ \A i \in J : \E n \in 1 .. N : i = r.asked[n]
    BY <1>1 DEF Range
  <1>5. first \in BOOLEAN /\ \A i \in J : (i.key \in Compliance) \in BOOLEAN
    OBVIOUS
  <1> DEFINE p == card[1]
             q == card[2]
  <1>6. p = Table(r, A) /\ q = Table(r, B)
    <2> DEFINE T(n) == {i \in J : (i.key \in Compliance) = IF n = 1 THEN first ELSE ~first}
    <2>1. card = [n \in 1 .. 2 |-> Table(r, T(n))]  BY DEF ReportCard, Shown, Table
    <2>2. T(1) = A /\ T(2) = B
      OBVIOUS
    <2> HIDE DEF T, A, B
    <2> QED BY <2>1, <2>2
  <1> HIDE DEF p, q
  <1> HIDE DEF J, N
  <1>3. r.asked # <<>> => first = (r.asked[1].key \in Compliance)  BY <1>1
  <1> HIDE DEF first
  <1>a. ASSUME r.asked # <<>>
        PROVE  r.asked[1] \in A /\ First(r.asked[1], A)
    <2>1. r.asked[1] \in A  BY <1>1, <1>3, <1>a
    <2>2. A \in SUBSET J
      OBVIOUS
    <2> HIDE DEF A
    <2> QED BY <1>1, <1>a, <2>1, <2>2, OrderedPart
  <1>7. A \cup B = J /\ A \cap B = {} /\ A \in SUBSET J /\ B \in SUBSET J  BY <1>5
  <1> HIDE DEF A, B
  <1>8. /\ IsFiniteSet(A) /\ IsFiniteSet(B)
        /\ Cardinality(A) \in Nat /\ Cardinality(B) \in Nat
    <2>1. IsFiniteSet(J)  BY <1>1 DEF Ordered
    <2> QED BY <1>7, <2>1, FS_Subset, FS_CardinalityType
  <1>9. Cardinality(A) + Cardinality(B) = N
    <2>1. Cardinality(A \cup B) = Cardinality(A) + Cardinality(B) - Cardinality(A \cap B)
      BY <1>8, FS_Union
    <2>2. Cardinality(A \cap B) = 0  BY <1>7, FS_EmptySet
    <2>3. Cardinality(A \cup B) = N  BY <1>1, <1>7
    <2> QED BY <1>8, <2>1, <2>2, <2>3
  <1>10. Ordered(J)  BY <1>1
  <1> HIDE DEF S
  <1>11. /\ p \in Seq(S) /\ Len(p) = Cardinality(A)
         /\ \A k \in DOMAIN p : \E i \in A : p[k] = Shown(r, i)
         /\ \A i \in A : \E k \in DOMAIN p : p[k] = Shown(r, i)
         /\ \A i \in A : First(i, A) => 1 <= Len(p) /\ p[1] = Shown(r, i)
    BY <1>6, <1>7, <1>10, TableOf DEF S
  <1>12. /\ q \in Seq(S) /\ Len(q) = Cardinality(B)
         /\ \A k \in DOMAIN q : \E i \in B : q[k] = Shown(r, i)
         /\ \A i \in B : \E k \in DOMAIN q : q[k] = Shown(r, i)
    BY <1>6, <1>7, <1>10, TableOf DEF S
  <1>13. /\ Len(p \o q) = Len(p) + Len(q)
         /\ Range(p \o q) = Range(p) \cup Range(q)
         /\ 1 <= Len(p) => p # <<>> /\ (p \o q)[1] = p[1]
    BY <1>11, <1>12, Joining
  <1>14. Len(p \o q) = N  BY <1>9, <1>11, <1>12, <1>13
  <1>15. ASSUME NEW x \in Range(p \o q)
         PROVE  \E n \in DOMAIN r.asked : x = Shown(r, r.asked[n])
    <2>1. \E i \in J : x = Shown(r, i)
      <3>1. CASE x \in Range(p)
        <4>1. \E i \in A : x = Shown(r, i)  BY <1>11, <3>1 DEF Range
        <4> QED BY <1>7, <4>1
      <3>2. CASE x \in Range(q)
        <4>1. \E i \in B : x = Shown(r, i)  BY <1>12, <3>2 DEF Range
        <4> QED BY <1>7, <4>1
      <3> QED BY <1>13, <3>1, <3>2
    <2> QED BY <1>1, <1>2, <2>1
  <1>16. ASSUME NEW n \in DOMAIN r.asked
         PROVE  Shown(r, r.asked[n]) \in Range(p \o q)
    <2> DEFINE i == r.asked[n]
    <2>1. i \in A \/ i \in B  BY <1>1, <1>2, <1>7
    <2> HIDE DEF i
    <2>2. CASE i \in A
      <3>1. \E k \in DOMAIN p : p[k] = Shown(r, i)  BY <1>11, <2>2
      <3>2. Shown(r, i) \in Range(p)  BY <3>1 DEF Range
      <3> QED BY <1>13, <3>2 DEF i
    <2>3. CASE i \in B
      <3>1. \E k \in DOMAIN q : q[k] = Shown(r, i)  BY <1>12, <2>3
      <3>2. Shown(r, i) \in Range(q)  BY <3>1 DEF Range
      <3> QED BY <1>13, <3>2 DEF i
    <2> QED BY <2>1, <2>2, <2>3
  <1>b. Range(p \o q) = AskedRows(r)  BY <1>15, <1>16 DEF AskedRows
  <1>18. r.asked # <<>> => p # <<>> /\ (p \o q)[1] = Shown(r, r.asked[1])
    BY <1>a, <1>11, <1>13
  <1> QED BY <1>14, <1>b, <1>18 DEF N, p, q

\* The last block of a report, whatever goes before.
LEMMA LastBlock ==
  ASSUME NEW a, NEW b, NEW c, NEW d, NEW e, NEW s \in {<<a, b, c, d>>, <<>>}
  PROVE  e \in Range(s \o <<e>>)
  <1> DEFINE S == {a, b, c, d, e}
             one == <<e>>
  <1> HIDE DEF S
  <1>1. a \in S /\ b \in S /\ c \in S /\ d \in S /\ e \in S  BY DEF S
  <1>2. <<a, b, c, d>> \in Seq(S) /\ <<>> \in Seq(S) /\ one \in Seq(S)  BY <1>1
  <1>3. s \in Seq(S)  BY <1>2
  <1>4. DOMAIN one = {1} /\ one[1] = e
    OBVIOUS
  <1>5. e \in Range(one)  BY <1>4 DEF Range
  <1> HIDE DEF one
  <1>6. Range(s \o one) = Range(s) \cup Range(one)  BY <1>2, <1>3, Joining
  <1> QED BY <1>5, <1>6 DEF one

\* The document, whole or its checklist alone, has the card of a report with items.
LEMMA CardOfDocument ==
  ASSUME NEW r, NEW section \in {"whole", "checklist"}, NEW card, card = Document(r, section).card
  PROVE  /\ card \in {ReportCard(r), <<<<>>, <<>>>>}
         /\ Joined(r) # {} => card = ReportCard(r)
  <1> DEFINE block == [kind |-> "checklist", of |-> "card"]
             shown == {b \in Range(Blocks(r)) : section \in {"whole", b.kind}}
             has == \E b \in shown : b.of = "card"
  <1>1. card = IF has THEN ReportCard(r) ELSE <<<<>>, <<>>>>  BY DEF Document
  <1>2. ASSUME Joined(r) # {}
        PROVE  has
    <2>1. block \in Range(Blocks(r))
      <3> DEFINE four == <<[kind |-> "feedback", of |-> "coaching"],
                           [kind |-> "feedback", of |-> "compliance"],
                           [kind |-> "feedback", of |-> "development"],
                           [kind |-> "ideal", of |-> "conversation"]>>
                 before == IF NeedsFeedback(r.option) THEN four ELSE <<>>
      <3>1. Blocks(r) = before \o <<block>>  BY <1>2 DEF Blocks
      <3>2. before \in {four, <<>>}
        OBVIOUS
      <3> HIDE DEF before, block
      <3>3. block \in Range(before \o <<block>>)  BY <3>2, LastBlock
      <3> QED BY <3>1, <3>3
    <2>2. block.kind = "checklist" /\ block.of = "card"
      OBVIOUS
    <2> HIDE DEF block
    <2> QED BY <2>1, <2>2
  <1> HIDE DEF has
  <1> QED BY <1>1, <1>2

\* What the page of a report says of its items is what the judge said of them, in the order
\* it was asked.
LEMMA PageResolves ==
  ASSUME HistoryInv, ReportInv, NEW c \in Reported, NEW r, r = report[c],
         NEW lines, lines = Page(r).items
  PROVE  /\ [n \in DOMAIN lines |-> <<lines[n].item, lines[n].score.answer>>] =
            [n \in DOMAIN r.asked |-> <<r.asked[n], Said(r, r.asked[n])>>]
         /\ \A n \in DOMAIN r.asked : /\ r.asked[n] \in Joined(r)
                                      /\ r.rows[r.asked[n]].answer = Said(r, r.asked[n])
  <1> DEFINE a == r.asked
  <1>1. Joined(r) = Range(a) /\ InOrder(Joined(r)) = a  BY RowsOf
  <1>2. r.rows = [i \in Range(a) |->
                    Score(i, r.passes, Decide(Objective(Range(a)), r.passes, r.forced))]
    BY DEF ReportInv, Told
  <1>3. lines = [n \in DOMAIN a |-> [item |-> a[n], score |-> r.rows[a[n]]]]
    <2>1. lines = [n \in DOMAIN InOrder(Joined(r)) |->
                     [item |-> InOrder(Joined(r))[n], score |-> r.rows[InOrder(Joined(r))[n]]]]
      BY DEF Page
    <2> HIDE DEF a
    <2> QED BY <1>1, <2>1
  <1> HIDE DEF a
  <1>4. \A n \in DOMAIN a : a[n] \in Range(a)  BY DEF Range
  <1>5. \A n \in DOMAIN a : r.rows[a[n]].answer = Said(r, a[n])
    BY <1>2, <1>4 DEF Score, Said
  <1>6. [n \in DOMAIN lines |-> <<lines[n].item, lines[n].score.answer>>] =
        [n \in DOMAIN a |-> <<a[n], Said(r, a[n])>>]
    <2>1. DOMAIN lines = DOMAIN a  BY <1>3
    <2>2. \A n \in DOMAIN a : lines[n].item = a[n] /\ lines[n].score.answer = Said(r, a[n])
      BY <1>3, <1>5
    <2> QED BY <2>1, <2>2
  <1> QED BY <1>1, <1>4, <1>5, <1>6 DEF a

\* What the document has to say of the item asked n-th, and of all of them.
ToldOf(r, n) == [item |-> r.asked[n], review |-> r.rows[r.asked[n]].review,
                 status |-> Cell(r.asked[n], Said(r, r.asked[n]))]

AllTold(r) == {ToldOf(r, n) : n \in DOMAIN r.asked}

\* The document, whole or its checklist alone, has each item of a report in one row, the
\* first of them first, with what the judge said of it.
LEMMA DocumentResolves ==
  ASSUME HistoryInv, ReportInv, NEW c \in Reported, NEW r, r = report[c],
         NEW section \in {"whole", "checklist"}, NEW card, card = Document(r, section).card
  PROVE  /\ Len(card[1] \o card[2]) = Len(r.asked)
         /\ Range(card[1] \o card[2]) = AllTold(r)
         /\ r.asked # <<>> => card[1] # <<>> /\ (card[1] \o card[2])[1] = ToldOf(r, 1)
  <1> DEFINE J == Joined(r)
             N == Len(r.asked)
  <1>1. \A n \in DOMAIN r.asked : r.asked[n] \in J /\ r.rows[r.asked[n]].answer = Said(r, r.asked[n])
    BY PageResolves
  <1>2. N \in Nat /\ DOMAIN r.asked = 1 .. N /\ (r.asked # <<>> => 1 \in DOMAIN r.asked)
    BY AskedInOrder
  <1>3. r.asked # <<>> => J # {}  BY <1>1, <1>2
  <1> HIDE DEF J, N
  <1>4. \A n \in DOMAIN r.asked : ToldOf(r, n) = Shown(r, r.asked[n])  BY <1>1 DEF Shown, ToldOf
  <1>5. CASE card = ReportCard(r)
    <2>1. /\ Len(card[1] \o card[2]) = N
          /\ Range(card[1] \o card[2]) = AskedRows(r)
          /\ r.asked # <<>> => card[1] # <<>> /\ (card[1] \o card[2])[1] = Shown(r, r.asked[1])
      BY <1>5, CardShows DEF N
    <2>2. AskedRows(r) = AllTold(r)  BY <1>4 DEF AskedRows, AllTold
    <2> QED BY <1>2, <1>4, <2>1, <2>2 DEF N
  <1>6. CASE card = <<<<>>, <<>>>> /\ J = {}
    <2>1. r.asked = <<>>  BY <1>3, <1>6
    <2>2. N = 0 /\ DOMAIN r.asked = {}  BY <1>2, <2>1 DEF N
    <2>3. card[1] \o card[2] = <<>>  BY <1>6
    <2>4. Len(<<>>) = 0 /\ Range(<<>>) = {}  BY DEF Range
    <2>5. AllTold(r) = {}  BY <2>2 DEF AllTold
    <2> QED BY <2>1, <2>2, <2>3, <2>4, <2>5 DEF N
  <1> QED BY <1>5, <1>6, CardOfDocument DEF J

\* The CSV of the version of a report has a column for each of its items, with what the judge
\* said of it where no other item of the report has its text.
LEMMA CsvResolves ==
  ASSUME HistoryInv, ReportInv, NEW c \in Reported, NEW r, r = report[c], r.version # 0,
         NEW n \in DOMAIN r.asked, NEW text, text = Text[r.asked[n].key]
  PROVE  /\ text \in Range(Columns(r.version))
         /\ AskedAs(r, text) = {n} =>
              CsvCells(r, text) = {Cell(r.asked[n], Said(r, r.asked[n]))}
  <1> DEFINE i == r.asked[n]
             items == versions[r.version].items
             order == Items(r.version)
             columns == Columns(r.version)
  <1>1. /\ Joined(r) = Range(r.asked) /\ i \in Joined(r) /\ r.rows[i].answer = Said(r, i)
    BY RowsOf, PageResolves
  <1>2. /\ r.version \in DOMAIN versions /\ Stored(i) /\ i.of = r.version
    BY <1>1, RowsOf
  <1>3. i \in items  BY <1>2 DEF Stored
  <1>4. Ordered(items)  BY <1>2 DEF HistoryInv, BuilderInv, Sound
  <1>5. order = InOrder(items)  BY DEF Items
  <1> HIDE DEF items, order, i
  <1>6. Range(order) = items  BY <1>4, <1>5, InOrderOf
  <1>7. PICK m \in DOMAIN order : order[m] = i  BY <1>3, <1>6 DEF Range
  <1>8. columns = [k \in DOMAIN order |-> Text[order[k].key]]  BY DEF Columns, order
  <1>9. text = Text[i.key]  BY DEF i
  <1> HIDE DEF columns
  <1>10. text \in Range(columns)
    <2>1. m \in DOMAIN columns /\ columns[m] = text  BY <1>7, <1>8, <1>9
    <2> QED BY <2>1 DEF Range
  <1>11. ASSUME AskedAs(r, text) = {n}
         PROVE  CsvCells(r, text) = {Cell(i, Said(r, i))}
    <2> DEFINE asked == {j \in Joined(r) : Text[j.key] = text}
    <2>1. ASSUME NEW j \in asked
          PROVE  j = i
      <3>1. PICK k \in DOMAIN r.asked : r.asked[k] = j  BY <1>1 DEF Range
      <3>2. k \in AskedAs(r, text)  BY <3>1 DEF AskedAs
      <3> QED BY <1>11, <3>1, <3>2 DEF i
    <2>2. asked = {i}  BY <1>1, <1>9, <2>1
    <2>3. CsvCells(r, text) =
            IF asked = {} THEN {""} ELSE {Cell(j, r.rows[j].answer) : j \in asked}
      BY DEF CsvCells
    <2> HIDE DEF asked
    <2> QED BY <1>1, <2>2, <2>3
  <1> QED BY <1>10, <1>11 DEF columns, i

\* History stays intact, however many people edit and however often a version asks the same:
\* whatever is edited, superseded or deleted after, the page of a report shows every item the
\* judge was asked, in the order it was asked, with the verdict the judge gave; its HTML
\* document has each in one row; and the CSV of its version has a column for each, with that
\* verdict where no other item has the same text (reports/service.py, reports/render.py,
\* api/checklists.py, checklists/service.py).
THEOREM HistoryStaysIntact == Spec => []HistoryResolves
  <1>1. ASSUME HistoryInv, ReportInv
        PROVE  HistoryResolves
    <2>1. ASSUME NEW c \in Reported, NEW r, r = report[c]
          PROVE  LET lines == Page(r).items
                 IN  [n \in DOMAIN lines |-> <<lines[n].item, lines[n].score.answer>>] =
                     [n \in DOMAIN r.asked |-> <<r.asked[n], Said(r, r.asked[n])>>]
      BY <1>1, <2>1, PageResolves
    <2>2. ASSUME NEW c \in Reported, NEW r, r = report[c], NEW section \in {"whole", "checklist"}
          PROVE  LET card == Document(r, section).card
                     rows == card[1] \o card[2]
                     told(n) == [item |-> r.asked[n], review |-> r.rows[r.asked[n]].review,
                                 status |-> Cell(r.asked[n], Said(r, r.asked[n]))]
                 IN  /\ Len(rows) = Len(r.asked)
                     /\ Range(rows) = {told(n) : n \in DOMAIN r.asked}
                     /\ r.asked # <<>> => card[1] # <<>> /\ rows[1] = told(1)
      <3> DEFINE card == Document(r, section).card
      <3>1. card = Document(r, section).card
        OBVIOUS
      <3> HIDE DEF card
      <3>2. /\ Len(card[1] \o card[2]) = Len(r.asked)
            /\ Range(card[1] \o card[2]) = AllTold(r)
            /\ r.asked # <<>> => card[1] # <<>> /\ (card[1] \o card[2])[1] = ToldOf(r, 1)
        BY <1>1, <2>2, <3>1, DocumentResolves
      <3> QED BY <3>2 DEF card, AllTold, ToldOf
    <2>3. ASSUME NEW c \in Reported, NEW r, r = report[c], r.version # 0, NEW n \in DOMAIN r.asked
          PROVE  LET text == Text[r.asked[n].key]
                     columns == IF r.version = 0 THEN {} ELSE Range(Columns(r.version))
                 IN  /\ text \in columns
                     /\ AskedAs(r, text) = {n} =>
                          CsvCells(r, text) = {Cell(r.asked[n], Said(r, r.asked[n]))}
      BY <1>1, <2>3, CsvResolves
    <2> QED BY <2>1, <2>2, <2>3 DEF HistoryResolves
  <1> QED BY <1>1, ReportsHold, PTL

=============================================================================
