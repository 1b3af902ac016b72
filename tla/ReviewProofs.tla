---------------------------- MODULE ReviewProofs ----------------------------
(***************************************************************************)
(* What the edits of checklists cannot do to a report, for any number of   *)
(* calls, workers, editors and verifiers.                                  *)
(*                                                                         *)
(* The theorems rest on what a step may do to a version (Kept): the items  *)
(* a report scores stay.  Items may join them, where two edits of one      *)
(* version meet; that a version is immutable needs edits that are apart.   *)
(***************************************************************************)
EXTENDS Review, FiniteSetTheorems, TLAPS

\* A set of items that has an order: of two, one comes before.
Ordered(S) ==
  /\ S \in SUBSET Item /\ IsFiniteSet(S)
  /\ \A i, j \in S : i # j => Before(i, j) \/ Before(j, i)

\* What a version may ask.
Sound(v, S) == Ordered(S) /\ S # {} /\ \A i \in S : i.of = v

\* The checklists, and that an editor's open transaction is on a row of the table.
BuilderInv ==
  /\ ChecklistTypeOK
  /\ \A v \in DOMAIN versions :
       Sound(v, versions[v].items) /\ \A i \in versions[v].items : i.edit <= versions[v].edits
  /\ \A e \in Editor : tab[e] # NoTab => tab[e].at \in DOMAIN versions

\* What a pass asks is what its version asked when it began.
Asked(p) ==
  \/ p.version = 0 /\ p.asked = <<>>
  \/ /\ p.version \in DOMAIN versions
     /\ \E S \in SUBSET Item : Sound(p.version, S) /\ p.asked = InOrder(S)

\* A report scores what its pass asked, and all of it is stored still.
Grounded(r) ==
  /\ r.id \in 1 .. written
  /\ \/ r.version = 0 /\ r.asked = <<>> /\ DOMAIN r.rows = {}
     \/ /\ r.version \in DOMAIN versions
        /\ Sound(r.version, DOMAIN r.rows) /\ r.asked = InOrder(DOMAIN r.rows)
        /\ \A i \in DOMAIN r.rows : Stored(i)

Domains ==
  /\ DOMAIN report = Call /\ DOMAIN worker = Worker /\ DOMAIN reviews = Call
  /\ DOMAIN screen = Verifier
  /\ written \in Nat

\* What a verification of the report r says, and what a verifier may have on the screen.
Of(r) == [judgement : Judgement, by : Verifier, page : {Page(r)}]

PageInv ==
  /\ \A c \in Call : reviews[c] # <<>> => c \in Reported /\ reviews[c] \in Seq(Of(report[c]))
  /\ \A u \in Verifier : screen[u] # NoPage =>
       /\ screen[u].of \in Call /\ screen[u].id \in 1 .. written
       /\ report[screen[u].of].id = screen[u].id => screen[u].page = Page(report[screen[u].of])

State == {"new", "ready", "judged", "failed", "deleted"}

\* The checklist chosen for a call that is still to be judged is there.
CallInv ==
  /\ call \in [Call -> [state : State] \cup [state : State, option : Option, chosen : Nat]]
  /\ \A c \in Call : call[c].state = "ready" => call[c].chosen \in {0} \cup DOMAIN versions

HistoryInv ==
  /\ BuilderInv
  /\ Domains
  /\ CallInv
  /\ \A w \in Worker : worker[w] # Idle => Asked(worker[w])
  /\ \A c \in Reported : Grounded(report[c])

\* What a DELETE saw is what its version still asks.
SweptInv ==
  \A e \in Editor : tab[e] # NoTab /\ tab[e].swept => tab[e].sees = versions[tab[e].at].items

\* What a step does to a version there is: the items that are scored stay.
Kept ==
  \A v \in DOMAIN versions :
    v \in DOMAIN versions' /\ versions[v].items \cap Held \subseteq versions'[v].items

\* Most steps leave all of them.
Same ==
  \A v \in DOMAIN versions : v \in DOMAIN versions' /\ versions'[v].items = versions[v].items

-----------------------------------------------------------------------------
(***************************************************************************)
(* Items in their order.                                                   *)
(***************************************************************************)

\* None of the set T comes before i.
First(i, T) == \A j \in T : ~Before(j, i)

\* Before is an order of items.
LEMMA Ordering ==
  /\ \A i \in Item : ~Before(i, i)
  /\ \A i, j, k \in Item : Before(i, j) /\ Before(j, k) => Before(i, k)
  <1>1. \A i \in Item : i.at \in Nat /\ i.edit \in Nat
    BY ChecklistAssumption DEF Item
  <1> QED BY <1>1 DEF Before

\* Items in their order: a sequence with each of them once, the first of them first.
LEMMA InOrderOf ==
  ASSUME NEW T, Ordered(T)
  PROVE  /\ Cardinality(T) \in Nat
         /\ InOrder(T) \in Seq(T) /\ Len(InOrder(T)) = Cardinality(T)
         /\ DOMAIN InOrder(T) = 1 .. Cardinality(T)
         /\ Range(InOrder(T)) = T
         /\ \A m, n \in 1 .. Cardinality(T) : InOrder(T)[m] = InOrder(T)[n] => m = n
         /\ \A i \in T : First(i, T) => 1 \in 1 .. Cardinality(T) /\ InOrder(T)[1] = i
         /\ T # {} => 1 \in 1 .. Cardinality(T) /\ First(InOrder(T)[1], T)
  <1> DEFINE C == Cardinality(T)
             before(i) == {j \in T : Before(j, i)}
             rank == [i \in T |-> Cardinality(before(i))]
  <1>0. /\ IsFiniteSet(T) /\ \A i \in T : i \in Item /\ ~Before(i, i)
        /\ \A i, j \in T : i # j => Before(i, j) \/ Before(j, i)
        /\ \A i, j, k \in T : Before(i, j) /\ Before(j, k) => Before(i, k)
    BY Ordering DEF Ordered
  <1>1. C \in Nat  BY <1>0, FS_CardinalityType
  <1>2. \A i \in T : /\ IsFiniteSet(before(i)) /\ IsFiniteSet(T \ {i})
                     /\ Cardinality(T \ {i}) = C - 1
                     /\ Cardinality(before(i)) \in Nat
                     /\ Cardinality(before(i)) <= C - 1
    <2> SUFFICES ASSUME NEW i \in T
                 PROVE  /\ IsFiniteSet(before(i)) /\ IsFiniteSet(T \ {i})
                        /\ Cardinality(T \ {i}) = C - 1
                        /\ Cardinality(before(i)) \in Nat
                        /\ Cardinality(before(i)) <= C - 1
      OBVIOUS
    <2>1. IsFiniteSet(T \ {i}) /\ Cardinality(T \ {i}) = C - 1  BY <1>0, FS_RemoveElement
    <2>2. before(i) \in SUBSET (T \ {i})  BY <1>0
    <2> HIDE DEF before
    <2>3. IsFiniteSet(before(i)) /\ Cardinality(before(i)) <= Cardinality(T \ {i})
      BY <2>1, <2>2, FS_Subset
    <2>4. Cardinality(before(i)) \in Nat  BY <2>3, FS_CardinalityType
    <2> QED BY <2>1, <2>3, <2>4
  <1>3. ASSUME NEW i \in T, NEW j \in T, Before(i, j)
        PROVE  Cardinality(before(i)) < Cardinality(before(j))
    <2>a. i \notin before(i)  BY <1>0
    <2>b. IsFiniteSet(before(i)) /\ Cardinality(before(i)) \in Nat
      <3> HIDE DEF before
      <3> QED BY <1>2
    <2>1. i \notin before(i) /\ IsFiniteSet(before(i)) /\ Cardinality(before(i)) \in Nat
      BY <2>a, <2>b
    <2>2. before(i) \cup {i} \in SUBSET before(j)  BY <1>0, <1>3
    <2>3. IsFiniteSet(before(j)) /\ Cardinality(before(j)) \in Nat  BY <1>2
    <2> HIDE DEF before
    <2>4. Cardinality(before(i) \cup {i}) = Cardinality(before(i)) + 1
      BY <2>1, FS_AddElement
    <2>5. Cardinality(before(i) \cup {i}) <= Cardinality(before(j))
      BY <2>2, <2>3, FS_Subset
    <2> QED BY <2>1, <2>3, <2>4, <2>5
  <1>4. \A i, j \in T : rank[i] = rank[j] => i = j
    <2> SUFFICES ASSUME NEW i \in T, NEW j \in T, i # j PROVE rank[i] # rank[j]
      OBVIOUS
    <2>1. Before(i, j) \/ Before(j, i)  BY <1>0
    <2>2. rank[i] = Cardinality(before(i)) /\ rank[j] = Cardinality(before(j))
      OBVIOUS
    <2>3. Cardinality(before(i)) \in Nat /\ Cardinality(before(j)) \in Nat  BY <1>2
    <2> HIDE DEF rank, before
    <2> QED BY <1>3, <2>1, <2>2, <2>3
  <1>5. rank \in [T -> 0 .. (C - 1)]
    <2>1. \A i \in T : Cardinality(before(i)) \in 0 .. (C - 1)
      <3> SUFFICES ASSUME NEW i \in T PROVE Cardinality(before(i)) \in 0 .. (C - 1)
        OBVIOUS
      <3>1. Cardinality(before(i)) \in Nat /\ Cardinality(before(i)) <= C - 1  BY <1>2
      <3> HIDE DEF before, C
      <3> QED BY <1>1, <3>1
    <2> HIDE DEF before
    <2> QED BY <2>1
  <1>6. \A m \in 0 .. (C - 1) : \E i \in T : rank[i] = m
    <2> HIDE DEF rank
    <2>1. rank \in Injection(T, 0 .. (C - 1))  BY <1>4, <1>5 DEF Injection, IsInjective
    <2>2. IsFiniteSet(0 .. (C - 1)) /\ Cardinality(0 .. (C - 1)) = C
      <3>1. 0 \in Int /\ C - 1 \in Int  BY <1>1
      <3>2. /\ IsFiniteSet(0 .. (C - 1))
            /\ Cardinality(0 .. (C - 1)) = IF 0 > C - 1 THEN 0 ELSE (C - 1) - 0 + 1
        BY <3>1, FS_Interval
      <3> QED BY <1>1, <3>2
    <2>3. rank \in Surjection(T, 0 .. (C - 1))  BY <2>1, <2>2, FS_Injection
    <2> QED BY <2>3 DEF Surjection
  <1>7. /\ DOMAIN InOrder(T) = 1 .. C
        /\ \A n \in 1 .. C : InOrder(T)[n] = CHOOSE i \in T : Cardinality(before(i)) = n - 1
    BY DEF InOrder
  <1>8. \A i \in T : rank[i] = Cardinality(before(i))
    OBVIOUS
  <1> HIDE DEF before, rank
  <1>9. ASSUME NEW n \in 1 .. C
        PROVE  InOrder(T)[n] \in T /\ rank[InOrder(T)[n]] = n - 1
    <2>1. n - 1 \in 0 .. (C - 1)  BY <1>1
    <2>2. \E i \in T : Cardinality(before(i)) = n - 1  BY <1>6, <1>8, <2>1
    <2>3. InOrder(T)[n] \in T /\ Cardinality(before(InOrder(T)[n])) = n - 1  BY <1>7, <2>2
    <2> QED BY <1>8, <2>3
  <1>10. ASSUME NEW i \in T
         PROVE  rank[i] + 1 \in 1 .. C /\ InOrder(T)[rank[i] + 1] = i
    <2>1. rank[i] \in 0 .. (C - 1)  BY <1>5
    <2>2. rank[i] + 1 \in 1 .. C /\ (rank[i] + 1) - 1 = rank[i]  BY <1>1, <2>1
    <2>3. InOrder(T)[rank[i] + 1] \in T /\ rank[InOrder(T)[rank[i] + 1]] = rank[i]
      BY <1>9, <2>2
    <2> QED BY <1>4, <2>2, <2>3
  <1>11. ASSUME NEW i \in T, First(i, T)
         PROVE  1 \in 1 .. C /\ InOrder(T)[1] = i
    <2>1. before(i) = {}  BY <1>11 DEF before, First
    <2>2. rank[i] = 0  BY <1>8, <2>1, FS_EmptySet
    <2> QED BY <1>10, <2>2
  <1>12. ASSUME T # {}
         PROVE  1 \in 1 .. C /\ First(InOrder(T)[1], T)
    <2>1. PICK i \in T : TRUE  BY <1>12
    <2>2. 1 \in 1 .. C  BY <1>1, <1>10, <2>1
    <2>3. InOrder(T)[1] \in T /\ rank[InOrder(T)[1]] = 0  BY <1>9, <2>2
    <2>4. IsFiniteSet(before(InOrder(T)[1])) /\ Cardinality(before(InOrder(T)[1])) = 0
      BY <1>2, <1>8, <2>3
    <2>5. before(InOrder(T)[1]) = {}  BY <2>4, FS_EmptySet
    <2> QED BY <2>2, <2>5 DEF before, First
  <1>13. InOrder(T) = [n \in 1 .. C |-> InOrder(T)[n]]
    <2> DEFINE which(n) == CHOOSE i \in T : Cardinality(before(i)) = n - 1
    <2>1. InOrder(T) = [n \in 1 .. C |-> which(n)]  BY DEF InOrder, before
    <2> HIDE DEF which
    <2> QED BY <2>1
  <1>14. InOrder(T) \in Seq(T) /\ Len(InOrder(T)) = C  BY <1>1, <1>9, <1>13
  <1>15. \A m, n \in 1 .. C : InOrder(T)[m] = InOrder(T)[n] => m = n
    <2> SUFFICES ASSUME NEW m \in 1 .. C, NEW n \in 1 .. C, InOrder(T)[m] = InOrder(T)[n]
                 PROVE  m = n
      OBVIOUS
    <2>1. m - 1 = n - 1  BY <1>9
    <2> QED BY <1>1, <2>1
  <1>16. Range(InOrder(T)) = T  BY <1>7, <1>9, <1>10 DEF Range
  <1> QED BY <1>1, <1>7, <1>11, <1>12, <1>14, <1>15, <1>16

-----------------------------------------------------------------------------
(***************************************************************************)
(* The checklists.                                                         *)
(***************************************************************************)

LEMMA Content ==
  ASSUME ChecklistTypeOK
  PROVE  /\ versions \in Seq(Row) /\ Len(versions) \in Nat \ {0} /\ Len(versions) <= MaxVersions
         /\ DOMAIN versions = 1 .. Len(versions)
         /\ \A v \in DOMAIN versions :
              /\ v \in 1 .. MaxVersions /\ v # 0
              /\ versions[v] \in Row
              /\ versions[v].edits \in Nat
              /\ versions[v].number \in Nat \ {0}
              /\ versions[v].family \in 1 .. MaxVersions
              /\ versions[v].default \in BOOLEAN
  <1>1. versions \in Seq(Row) /\ Len(versions) \in 1 .. MaxVersions  BY DEF ChecklistTypeOK
  <1>2. Len(versions) \in Nat \ {0} /\ Len(versions) <= MaxVersions  BY <1>1, ChecklistAssumption
  <1>3. DOMAIN versions = 1 .. Len(versions)  BY <1>1
  <1>4. \A v \in DOMAIN versions : versions[v] \in Row  BY <1>1
  <1>5. \A v \in DOMAIN versions : v \in 1 .. MaxVersions /\ v # 0
    BY <1>2, <1>3, ChecklistAssumption
  <1> QED BY <1>1, <1>2, <1>3, <1>4, <1>5, ChecklistAssumption DEF Row

\* The items a builder sends are a set a version may ask, all of one edit.
LEMMA WrittenSound ==
  ASSUME NEW v \in 1 .. MaxVersions, NEW n \in 0 .. MaxEdits, NEW b \in Body
  PROVE  /\ Sound(v, Written(v, n, b))
         /\ \A i \in Written(v, n, b) : i.edit = n
  <1> DEFINE item == [m \in DOMAIN b |-> [of |-> v, edit |-> n, at |-> m, key |-> b[m]]]
             S == Written(v, n, b)
  <1>1. /\ b \in Seq(Range(b)) /\ b # <<>>  BY ChecklistAssumption
  <1>2. DOMAIN b = 1 .. Len(b) /\ Len(b) \in Nat /\ 1 \in DOMAIN b
    <2>1. DOMAIN b = 1 .. Len(b) /\ Len(b) \in Nat  BY <1>1
    <2>2. Len(b) # 0  BY <1>1
    <2> QED BY <2>1, <2>2
  <1>3. \A m \in DOMAIN b : b[m] \in Key /\ m \in Nat \ {0}  BY <1>2 DEF Key, Range
  <1>4. \A m \in DOMAIN b : /\ item[m] \in Item /\ item[m].of = v /\ item[m].edit = n
                            /\ item[m].at = m
    BY <1>3 DEF Item
  <1>5. /\ \A m \in DOMAIN b : item[m] \in S
        /\ \A i \in S : \E m \in DOMAIN b : i = item[m]
    BY DEF Written
  <1>6. IsFiniteSet(S)
    <2> HIDE DEF S
    <2>1. item \in [DOMAIN b -> S]  BY <1>5
    <2>2. item \in Surjection(DOMAIN b, S)  BY <1>5, <2>1 DEF Surjection
    <2>3. IsFiniteSet(DOMAIN b)
      <3>1. 1 \in Int /\ Len(b) \in Int  BY <1>2
      <3> QED BY <1>2, <3>1, FS_Interval
    <2> QED BY <2>2, <2>3, FS_Surjection
  <1> HIDE DEF item, S
  <1>7. \A i, j \in S : i # j => Before(i, j) \/ Before(j, i)
    <2> SUFFICES ASSUME NEW i \in S, NEW j \in S, i # j PROVE Before(i, j) \/ Before(j, i)
      OBVIOUS
    <2>1. PICK k \in DOMAIN b : i = item[k]  BY <1>5
    <2>2. PICK m \in DOMAIN b : j = item[m]  BY <1>5
    <2>3. k # m /\ k \in Nat /\ m \in Nat  BY <1>3, <2>1, <2>2
    <2> QED BY <1>4, <2>1, <2>2, <2>3 DEF Before
  <1>8. S \in SUBSET Item /\ S # {} /\ \A i \in S : i.of = v /\ i.edit = n
    BY <1>2, <1>4, <1>5
  <1> QED BY <1>6, <1>7, <1>8 DEF Sound, Ordered, S

\* A version that is saved asks what was sent.
LEMMA SavedSound ==
  ASSUME NEW v \in 1 .. MaxVersions, NEW family \in 1 .. MaxVersions, NEW number \in Nat \ {0},
         NEW default \in BOOLEAN, NEW b \in Body, NEW row,
         row = Saved(v, family, number, default, b)
  PROVE  /\ row \in Row /\ Sound(v, row.items) /\ row.edits = 0 /\ \A i \in row.items : i.edit = 0
         /\ row.family = family /\ row.number = number /\ row.default = default
         /\ row.status = "active"
  <1>1. 0 \in 0 .. MaxEdits  BY ChecklistAssumption
  <1>2. Sound(v, Written(v, 0, b)) /\ \A i \in Written(v, 0, b) : i.edit = 0
    BY <1>1, WrittenSound
  <1>3. Written(v, 0, b) \in SUBSET Item  BY <1>2 DEF Sound, Ordered
  <1> HIDE DEF Written
  <1> QED BY <1>1, <1>2, <1>3 DEF Saved, Row

\* One row more: those before it keep what they ask.
LEMMA OneVersionMore ==
  ASSUME BuilderInv, NEW old, old \in Seq(Row), Len(old) = Len(versions),
         \A v \in DOMAIN versions : /\ old[v].items = versions[v].items
                                    /\ old[v].edits = versions[v].edits,
         NEW row \in Row, NEW new, new = Len(versions) + 1, new <= MaxVersions,
         Sound(new, row.items), row.edits = 0, \A i \in row.items : i.edit = 0,
         versions' = Append(old, row), NEW m, m = tab', m \in [Editor -> Tab],
         \A e \in Editor : m[e] # NoTab => m[e].at \in DOMAIN versions
  PROVE  BuilderInv' /\ Same
  <1>1. /\ Len(versions) \in Nat \ {0} /\ DOMAIN versions = 1 .. Len(versions)
        /\ DOMAIN old = DOMAIN versions
    BY Content DEF BuilderInv
  <1>2. /\ versions' \in Seq(Row) /\ Len(versions') = new
        /\ DOMAIN versions' = DOMAIN versions \cup {new}
        /\ \A v \in DOMAIN versions : versions'[v] = old[v]
        /\ versions'[new] = row
    BY <1>1
  <1>3. Len(versions') \in 1 .. MaxVersions  BY <1>1, <1>2, ChecklistAssumption
  <1>4. \A v \in DOMAIN versions' :
          Sound(v, versions'[v].items) /\ \A i \in versions'[v].items : i.edit <= versions'[v].edits
    BY <1>2 DEF BuilderInv
  <1>5. Same  BY <1>2 DEF Same
  <1> QED BY <1>2, <1>3, <1>4, <1>5 DEF BuilderInv, ChecklistTypeOK

\* The transaction of an editor is on a row, and has what it read and a body to save.
LEMMA OpenTab ==
  ASSUME BuilderInv, NEW e \in Editor, tab[e] # NoTab
  PROVE  /\ tab[e].at \in DOMAIN versions /\ tab[e].body \in Body
         /\ tab[e].family \in 1 .. MaxVersions /\ tab[e].number \in Nat \ {0}
         /\ tab[e].default \in BOOLEAN /\ tab[e].archived \in BOOLEAN
         /\ [tab EXCEPT ![e] = NoTab] \in [Editor -> Tab]
         /\ \A d \in Editor : [tab EXCEPT ![e] = NoTab][d] # NoTab => tab[d].at \in DOMAIN versions
  BY DEF BuilderInv, ChecklistTypeOK, Tab

LEMMA CreateKeeps ==
  ASSUME BuilderInv, NEW b \in Body, Create(b)
  PROVE  BuilderInv' /\ Same
  <1> DEFINE new == Len(versions) + 1
             default == FALSE
             row == Saved(new, new, 1, default, b)
  <1>1. versions' = Append(versions, row) /\ tab' = tab /\ Len(versions) < MaxVersions
    BY DEF Create
  <1>2. /\ versions \in Seq(Row) /\ new \in 1 .. MaxVersions /\ new <= MaxVersions
        /\ tab \in [Editor -> Tab]
        /\ \A e \in Editor : tab[e] # NoTab => tab[e].at \in DOMAIN versions
    BY <1>1, Content, ChecklistAssumption DEF BuilderInv, ChecklistTypeOK
  <1>3. row \in Row /\ Sound(new, row.items) /\ row.edits = 0 /\ \A i \in row.items : i.edit = 0
    <2>1. 1 \in Nat \ {0} /\ default \in BOOLEAN
      OBVIOUS
    <2> HIDE DEF new, default
    <2> QED BY <1>2, <2>1, SavedSound
  <1> HIDE DEF row
  <1> QED BY <1>1, <1>2, <1>3, OneVersionMore

LEMMA LoadKeeps ==
  ASSUME BuilderInv, NEW e \in Editor, NEW v \in DOMAIN versions, NEW b \in Body,
         NEW used \in BOOLEAN, Load(e, v, b, used)
  PROVE  BuilderInv' /\ Same
  <1> DEFINE one == [at |-> v, body |-> b, used |-> used,
                     family |-> versions[v].family, number |-> versions[v].number,
                     default |-> versions[v].default, archived |-> versions[v].status = "archived",
                     swept |-> FALSE, sees |-> {}]
  <1>1. tab' = [tab EXCEPT ![e] = one] /\ versions' = versions  BY DEF Load
  <1>2. /\ v \in 1 .. MaxVersions /\ versions[v].family \in 1 .. MaxVersions
        /\ versions[v].number \in Nat \ {0} /\ versions[v].default \in BOOLEAN
    BY Content DEF BuilderInv
  <1>3. one \in Tab /\ one.at = v  BY <1>2 DEF Tab
  <1> HIDE DEF one
  <1>4. tab' \in [Editor -> Tab] /\ \A d \in Editor : tab'[d] # NoTab => tab'[d].at \in DOMAIN versions
    BY <1>1, <1>3 DEF BuilderInv, ChecklistTypeOK
  <1> QED BY <1>1, <1>4 DEF BuilderInv, ChecklistTypeOK, Same

LEMMA SweepKeeps ==
  ASSUME BuilderInv, NEW e \in Editor, Sweep(e)
  PROVE  BuilderInv' /\ Same
  <1> DEFINE one == [tab[e] EXCEPT !.swept = TRUE, !.sees = versions[tab[e].at].items]
  <1>1. tab' = [tab EXCEPT ![e] = one] /\ versions' = versions /\ tab[e] # NoTab
    BY DEF Sweep
  <1>2. tab[e].at \in DOMAIN versions /\ tab[e] \in Tab  BY <1>1 DEF BuilderInv, ChecklistTypeOK
  <1>3. versions[tab[e].at].items \in SUBSET Item  BY <1>2 DEF BuilderInv, Sound, Ordered
  <1>4. one \in Tab /\ one.at = tab[e].at  BY <1>1, <1>2, <1>3 DEF Tab
  <1> HIDE DEF one
  <1>5. tab' \in [Editor -> Tab] /\ \A d \in Editor : tab'[d] # NoTab => tab'[d].at \in DOMAIN versions
    BY <1>1, <1>2, <1>4 DEF BuilderInv, ChecklistTypeOK
  <1> QED BY <1>1, <1>5 DEF BuilderInv, ChecklistTypeOK, Same

\* An edit in place leaves the versions it is not on, and the items that are scored.
LEMMA ReviseKeeps ==
  ASSUME BuilderInv, NEW e \in Editor, Revise(e, Held)
  PROVE  /\ BuilderInv' /\ Kept
         /\ \A u \in DOMAIN versions : u # tab[e].at => versions'[u] = versions[u]
  <1> DEFINE v == tab[e].at
             n == versions[v].edits + 1
             new == Written(v, n, tab[e].body)
             items == (versions[v].items \ tab[e].sees) \cup new
             one == [versions[v] EXCEPT !.edits = n, !.items = items]
  <1>1. tab[e] # NoTab /\ tab' = [tab EXCEPT ![e] = NoTab]  BY DEF Revise, InPlace
  <1>2. /\ v \in DOMAIN versions /\ tab[e].body \in Body
        /\ tab' \in [Editor -> Tab]
        /\ \A d \in Editor : tab'[d] # NoTab => tab'[d].at \in DOMAIN versions
    BY <1>1, OpenTab DEF BuilderInv, ChecklistTypeOK
  <1>3. /\ versions[v] \in Row /\ versions[v].edits \in Nat /\ v \in 1 .. MaxVersions
        /\ versions \in Seq(Row) /\ Len(versions) \in Nat
    BY <1>2, Content DEF BuilderInv
  <1>4. n \in 0 .. MaxEdits  BY <1>3, ChecklistAssumption DEF Revise
  <1>5. /\ Sound(v, versions[v].items)
        /\ \A i \in versions[v].items : i.edit <= versions[v].edits
    BY <1>2 DEF BuilderInv
  <1>6. Sound(v, new) /\ \A i \in new : i.edit = n  BY <1>2, <1>3, <1>4, WrittenSound
  <1>7. versions' = [versions EXCEPT ![v] = one]
    BY DEF Revise
  <1> HIDE DEF new
  <1>8. Sound(v, items) /\ \A i \in items : i.edit <= n
    <2>1. items \in SUBSET Item /\ items # {} /\ \A i \in items : i.of = v
      BY <1>5, <1>6 DEF Sound, Ordered
    <2>2. IsFiniteSet(items)
      <3>1. IsFiniteSet(versions[v].items \ tab[e].sees)
        <4>1. versions[v].items \ tab[e].sees \in SUBSET versions[v].items
          OBVIOUS
        <4> QED BY <1>5, <4>1, FS_Subset DEF Sound, Ordered
      <3> QED BY <1>6, <3>1, FS_Union DEF Sound, Ordered
    <2>3. \A i \in versions[v].items : i.edit \in Nat /\ i.edit < n
      BY <1>3, <1>5, ChecklistAssumption DEF Sound, Ordered, Item
    <2>4. \A i \in items : i.at \in Nat  BY <2>1 DEF Item
    <2>5. \A i, j \in items : i # j => Before(i, j) \/ Before(j, i)
      <3> SUFFICES ASSUME NEW i \in items, NEW j \in items, i # j
                   PROVE  Before(i, j) \/ Before(j, i)
        OBVIOUS
      <3>1. CASE i \in new /\ j \in new  BY <1>6, <3>1 DEF Sound, Ordered
      <3>2. CASE i \notin new /\ j \notin new  BY <1>5, <3>2 DEF Sound, Ordered
      <3>3. CASE i \in new /\ j \notin new
        <4>1. j.edit < i.edit  BY <1>6, <2>3, <3>3
        <4> QED BY <2>4, <4>1 DEF Before
      <3>4. CASE i \notin new /\ j \in new
        <4>1. i.edit < j.edit  BY <1>6, <2>3, <3>4
        <4> QED BY <2>4, <4>1 DEF Before
      <3> QED BY <3>1, <3>2, <3>3, <3>4
    <2>6. \A i \in items : i.edit <= n
      <3>1. n \in Nat  BY <1>3
      <3> HIDE DEF n
      <3> QED BY <1>6, <2>3, <3>1
    <2> QED BY <2>1, <2>2, <2>5, <2>6 DEF Sound, Ordered
  <1>9. one \in Row /\ one.items = items /\ one.edits = n
    <2>1. items \in SUBSET Item  BY <1>8 DEF Sound, Ordered
    <2> HIDE DEF items, n
    <2> QED BY <1>3, <1>4, <2>1 DEF Row
  <1> HIDE DEF one
  <1>10. /\ versions' \in Seq(Row) /\ Len(versions') = Len(versions)
         /\ DOMAIN versions' = DOMAIN versions /\ versions'[v] = one
         /\ \A u \in DOMAIN versions : u # v => versions'[u] = versions[u]
    BY <1>2, <1>3, <1>7, <1>9
  <1>11. BuilderInv'
    BY <1>2, <1>8, <1>9, <1>10 DEF BuilderInv, ChecklistTypeOK
  <1>12. Kept
    <2>1. tab[e].sees \cap versions[v].items \cap Held = {}  BY DEF Revise, Doomed
    <2> QED BY <1>9, <1>10, <2>1 DEF Kept
  <1> QED BY <1>10, <1>11, <1>12

LEMMA PublishKeeps ==
  ASSUME BuilderInv, NEW e \in Editor, Publish(e)
  PROVE  BuilderInv' /\ Same
  <1> DEFINE t == tab[e]
             v == t.at
             status == IF t.archived THEN versions[v].status ELSE "archived"
             one == [versions[v] EXCEPT !.status = status]
             old == [versions EXCEPT ![v] = one]
             new == Len(versions) + 1
             row == Saved(new, t.family, t.number + 1, t.default, t.body)
  <1>1. /\ tab[e] # NoTab /\ tab' = [tab EXCEPT ![e] = NoTab] /\ new <= MaxVersions
        /\ versions' = Append(old, row)
    BY DEF Publish
  <1>2. /\ v \in DOMAIN versions /\ t.body \in Body
        /\ t.family \in 1 .. MaxVersions /\ t.number \in Nat \ {0} /\ t.default \in BOOLEAN
        /\ tab' \in [Editor -> Tab]
        /\ \A d \in Editor : tab'[d] # NoTab => tab'[d].at \in DOMAIN versions
    BY <1>1, OpenTab DEF BuilderInv, ChecklistTypeOK
  <1>3. /\ versions \in Seq(Row) /\ Len(versions) \in Nat /\ versions[v] \in Row
        /\ DOMAIN versions = 1 .. Len(versions) /\ new \in 1 .. MaxVersions
    BY <1>1, <1>2, Content, ChecklistAssumption DEF BuilderInv
  <1>4. t.number + 1 \in Nat \ {0}  BY <1>2
  <1>5. row \in Row /\ Sound(new, row.items) /\ row.edits = 0 /\ \A i \in row.items : i.edit = 0
    <2> HIDE DEF t, new
    <2> QED BY <1>2, <1>3, <1>4, SavedSound
  <1>6. one \in Row /\ one.items = versions[v].items /\ one.edits = versions[v].edits
    <2>1. status \in {"active", "archived", "deleted"}  BY <1>3 DEF Row
    <2> HIDE DEF status
    <2> QED BY <1>3, <2>1 DEF Row
  <1> HIDE DEF one, row
  <1>7. /\ old \in Seq(Row) /\ Len(old) = Len(versions)
        /\ \A u \in DOMAIN versions : /\ old[u].items = versions[u].items
                                      /\ old[u].edits = versions[u].edits
    BY <1>2, <1>3, <1>6
  <1> HIDE DEF old, t, new
  <1> QED BY <1>1, <1>2, <1>5, <1>7, OneVersionMore DEF new

LEMMA SoftDeleteKeeps ==
  ASSUME BuilderInv, NEW v \in DOMAIN versions, SoftDelete(v)
  PROVE  BuilderInv' /\ Same
  <1>1. /\ \A u \in DOMAIN versions : versions[u] \in Row
        /\ versions \in Seq(Row) /\ Len(versions) \in 1 .. MaxVersions
    BY Content DEF BuilderInv, ChecklistTypeOK
  <1>2. /\ DOMAIN versions' = DOMAIN versions
        /\ \A u \in DOMAIN versions : /\ versions'[u] \in Row
                                      /\ versions'[u].items = versions[u].items
                                      /\ versions'[u].edits = versions[u].edits
    BY <1>1 DEF SoftDelete, Row
  <1>3. versions' \in [1 .. Len(versions) -> Row]
    BY <1>1, <1>2 DEF SoftDelete
  <1>4. versions' \in Seq(Row) /\ Len(versions') = Len(versions)
    BY <1>1, <1>3
  <1> QED BY <1>1, <1>2, <1>4 DEF BuilderInv, ChecklistTypeOK, SoftDelete, Same

\* A step that leaves the checklists alone.
LEMMA RestKeeps ==
  ASSUME BuilderInv, UNCHANGED checklistVars
  PROVE  BuilderInv' /\ Same /\ Kept
  BY DEF BuilderInv, ChecklistTypeOK, checklistVars, Same, Kept

\* An edit that gives up changes no version.
LEMMA RefuseKeeps ==
  ASSUME BuilderInv, NEW e \in Editor, Refuse(e, Held)
  PROVE  BuilderInv' /\ Same
  <1>1. tab[e] # NoTab /\ tab' = [tab EXCEPT ![e] = NoTab] /\ UNCHANGED versions
    BY DEF Refuse, InPlace
  <1> QED BY <1>1, OpenTab DEF BuilderInv, ChecklistTypeOK, Same

\* Whatever is edited, the items that a report scores stay; all of them do but for an edit
\* in place.
LEMMA EditKeeps ==
  ASSUME BuilderInv, Edit
  PROVE  /\ BuilderInv' /\ Kept
         /\ Same \/ \E e \in Editor : Revise(e, Held)
  <1>0. Same => Kept  BY DEF Same, Kept
  <1>1. CASE \E b \in Body : Create(b)  BY <1>0, <1>1, CreateKeeps
  <1>2. CASE \E e \in Editor, v \in DOMAIN versions, b \in Body : Load(e, v, b, Used(v))
    <2>1. \A v : Used(v) \in BOOLEAN  BY DEF Used
    <2> QED BY <1>0, <1>2, <2>1, LoadKeeps
  <1>3. CASE \E e \in Editor : Sweep(e)  BY <1>0, <1>3, SweepKeeps
  <1>4. CASE \E e \in Editor : Revise(e, Held)  BY <1>4, ReviseKeeps
  <1>5. CASE \E e \in Editor : Refuse(e, Held)  BY <1>0, <1>5, RefuseKeeps
  <1>6. CASE \E e \in Editor : Publish(e)  BY <1>0, <1>6, PublishKeeps
  <1>7. CASE \E v \in DOMAIN versions : SoftDelete(v)  BY <1>0, <1>7, SoftDeleteKeeps
  <1> QED BY <1>1, <1>2, <1>3, <1>4, <1>5, <1>6, <1>7 DEF Edit

-----------------------------------------------------------------------------
(***************************************************************************)
(* Passes and their reports.                                               *)
(***************************************************************************)

\* A scored item stays.
LEMMA StoredStays ==
  ASSUME Kept, NEW c \in Reported, NEW r, r = report[c], \A i \in DOMAIN r.rows : Stored(i)
  PROVE  \A i \in DOMAIN r.rows : Stored(i)'
  <1> SUFFICES ASSUME NEW i \in DOMAIN r.rows PROVE Stored(i)'
    OBVIOUS
  <1>1. i.of \in DOMAIN versions /\ i \in versions[i.of].items  BY DEF Stored
  <1>2. i \in Held  BY DEF Held
  <1> QED BY <1>1, <1>2 DEF Kept, Stored

LEMMA GroundedStays ==
  ASSUME Kept, NEW c \in Reported, Grounded(report[c]), Domains, Domains',
         written' >= written, NEW r, r = report[c]
  PROVE  Grounded(r)'
  <1>1. r.id \in 1 .. written'  BY DEF Grounded, Domains
  <1>2. (\A i \in DOMAIN r.rows : Stored(i)) => \A i \in DOMAIN r.rows : Stored(i)'
    BY StoredStays
  <1>3. DOMAIN versions \subseteq DOMAIN versions'  BY DEF Kept
  <1> QED BY <1>1, <1>2, <1>3 DEF Grounded

LEMMA AskedStays ==
  ASSUME Kept, NEW p, Asked(p)
  PROVE  Asked(p)'
  BY DEF Asked, Kept

LEMMA OneRow ==
  ASSUME NEW S, NEW x \in S
  PROVE  /\ <<x>> \in Seq(S) /\ Len(<<x>>) = 1
         /\ DOMAIN <<x>> = {1} /\ <<x>>[1] = x
  OBVIOUS

\* A call that leaves the queue has no choice to keep.
LEMMA CallStays ==
  ASSUME CallInv, DOMAIN versions \subseteq DOMAIN versions',
         \/ UNCHANGED call
         \/ \E c \in Call, s \in State \ {"ready"} : call' = [call EXCEPT ![c].state = s]
  PROVE  CallInv'
  <1>1. CASE UNCHANGED call  BY <1>1 DEF CallInv
  <1>2. ASSUME NEW c \in Call, NEW s \in State \ {"ready"},
               call' = [call EXCEPT ![c].state = s]
        PROVE  CallInv'
    <2> DEFINE one == [call[c] EXCEPT !.state = s]
               Calls == [state : State] \cup [state : State, option : Option, chosen : Nat]
    <2>1. call \in [Call -> Calls]  BY DEF CallInv
    <2>2. call[c] \in Calls  BY <2>1
    <2>3. one \in Calls /\ one.state = s  BY <2>2
    <2>4. call' = [call EXCEPT ![c] = one]  BY <1>2
    <2>5. call' \in [Call -> Calls]  BY <2>1, <2>3, <2>4
    <2>6. \A d \in Call : d # c => call'[d] = call[d]  BY <2>1, <2>4
    <2>7. call'[c].state # "ready"  BY <2>1, <2>3, <2>4
    <2> HIDE DEF one
    <2> QED BY <2>5, <2>6, <2>7 DEF CallInv
  <1> QED BY <1>1, <1>2

LEMMA OneMore ==
  ASSUME NEW S, NEW q \in Seq(S), NEW x \in S
  PROVE  Append(q, x) \in Seq(S)
  OBVIOUS

LEMMA InitHistory ==
  ASSUME Init
  PROVE  HistoryInv
  <1> DEFINE default == TRUE
             row == Saved(1, 1, 1, default, Seed)
  <1>a. versions = <<row>> /\ tab = [e \in Editor |-> NoTab]
    BY DEF Init, ChecklistInit
  <1>1. /\ row \in Row /\ Sound(1, row.items) /\ row.edits = 0
        /\ \A i \in row.items : i.edit = 0
    <2>1. 1 \in 1 .. MaxVersions /\ 1 \in Nat \ {0} /\ default \in BOOLEAN /\ Seed \in Body
      BY ChecklistAssumption
    <2> HIDE DEF default
    <2> QED BY <2>1, SavedSound
  <1> HIDE DEF row
  <1>b. /\ versions \in Seq(Row) /\ Len(versions) = 1
        /\ DOMAIN versions = {1} /\ versions[1] = row
    BY <1>1, <1>a, OneRow
  <1>c. tab \in [Editor -> Tab]  BY <1>a DEF Tab
  <1>d. Len(versions) \in 1 .. MaxVersions  BY <1>b, ChecklistAssumption
  <1>e. \A e \in Editor : tab[e] = NoTab  BY <1>a
  <1>f. \A v \in DOMAIN versions :
          Sound(v, versions[v].items) /\ \A i \in versions[v].items : i.edit <= versions[v].edits
    BY <1>1, <1>b
  <1>2. BuilderInv  BY <1>b, <1>c, <1>d, <1>e, <1>f DEF BuilderInv, ChecklistTypeOK
  <1>3. Domains  BY DEF Init, Domains
  <1>4. \A w \in Worker : worker[w] = Idle  BY DEF Init
  <1>5. Reported = {}  BY DEF Init, Reported
  <1>6. CallInv  BY DEF Init, CallInv, NoCall, State
  <1> QED BY <1>2, <1>3, <1>4, <1>5, <1>6 DEF HistoryInv

\* Most steps leave the reports and the passes that are under way alone.
LEMMA QuietKeeps ==
  ASSUME HistoryInv, BuilderInv', Kept, Domains', CallInv', written' = written,
         \A w \in Worker : worker'[w] \in {worker[w], Idle},
         \A c \in Call : report'[c] \in {report[c], NoReport}
  PROVE  HistoryInv'
  <1>1. \A w \in Worker : worker'[w] # Idle => Asked(worker[w])'
    <2> SUFFICES ASSUME NEW w \in Worker, worker'[w] # Idle PROVE Asked(worker[w])'
      OBVIOUS
    <2>1. Asked(worker[w]) /\ worker'[w] = worker[w]  BY DEF HistoryInv
    <2>2. \A p : Asked(p) => Asked(p)'  BY AskedStays DEF HistoryInv
    <2> QED BY <2>1, <2>2 DEF Asked
  <1>2. \A c \in Reported' : Grounded(report[c])'
    <2> SUFFICES ASSUME NEW c \in Reported' PROVE Grounded(report[c])'
      OBVIOUS
    <2>1. c \in Reported /\ report'[c] = report[c]  BY DEF Reported
    <2>2. \A r : r = report[c] => Grounded(r)'
      BY <2>1, GroundedStays DEF HistoryInv, Domains
    <2> QED BY <2>1, <2>2 DEF Grounded
  <1> QED BY <1>1, <1>2 DEF HistoryInv

\* A pass begins: what it asks is the version as it is now.
LEMMA BeginKeeps ==
  ASSUME HistoryInv, NEW w \in Worker, NEW c \in Call, Begin(w, c)
  PROVE  HistoryInv' /\ Kept
  <1>1. BuilderInv' /\ Kept  BY RestKeeps DEF HistoryInv, Begin
  <1>2. Domains' /\ written' = written /\ UNCHANGED <<report, versions>>
    BY DEF HistoryInv, Domains, Begin, checklistVars
  <1>3. CallInv'
    BY <1>2, CallStays DEF HistoryInv, Begin, State
  <1>4. CASE UNCHANGED worker
    BY <1>1, <1>2, <1>3, <1>4, QuietKeeps DEF HistoryInv, Domains
  <1>5. ASSUME NEW pass, worker' = [worker EXCEPT ![w] = pass], Asked(pass)
        PROVE  HistoryInv'
    <2>1. \A p : Asked(p) => Asked(p)'  BY <1>1, AskedStays DEF HistoryInv
    <2>2. \A u \in Worker : worker'[u] # Idle => Asked(worker'[u])
      BY <1>5 DEF HistoryInv, Domains
    <2>3. \A u \in Worker : worker'[u] # Idle => Asked(worker[u])'
      BY <2>1, <2>2 DEF Asked
    <2>4. \A d \in Reported' : Grounded(report[d])'
      BY <1>2 DEF HistoryInv, Reported, Grounded, Stored
    <2> QED BY <1>1, <1>2, <1>3, <2>3, <2>4 DEF HistoryInv
  <1>6. CASE /\ ~NeedsChecklist(call[c].option)
             /\ worker' = [worker EXCEPT ![w] = [on |-> c, version |-> 0, asked |-> <<>>]]
    <2>1. Asked([on |-> c, version |-> 0, asked |-> <<>>])  BY DEF Asked
    <2> QED BY <1>1, <1>5, <1>6, <2>1
  <1>7. ASSUME NEW v \in Resolved(c),
               worker' = [worker EXCEPT ![w] = [on |-> c, version |-> v, asked |-> Items(v)]]
        PROVE  HistoryInv'
    <2> DEFINE pass == [on |-> c, version |-> v, asked |-> Items(v)]
    <2>1. call[c].state = "ready"  BY DEF Begin
    <2>2. v \in DOMAIN versions
      BY <2>1 DEF HistoryInv, CallInv, Resolved, Defaults, Listed
    <2>3. Sound(v, versions[v].items) /\ versions[v].items \in SUBSET Item
      BY <2>2 DEF HistoryInv, BuilderInv, Sound, Ordered
    <2>4. pass.version = v /\ pass.asked = InOrder(versions[v].items)  BY DEF Items
    <2> HIDE DEF pass
    <2>5. Asked(pass)  BY <2>2, <2>3, <2>4 DEF Asked
    <2> QED BY <1>5, <1>7, <2>5 DEF pass
  <1> QED BY <1>1, <1>4, <1>6, <1>7 DEF Begin

\* A pass writes its report: the items it asked are stored, so its version was not edited.
LEMMA PersistKeeps ==
  ASSUME HistoryInv, NEW w \in Worker, NEW verdicts, NEW prose, Persist(w, verdicts, prose)
  PROVE  HistoryInv' /\ Kept
  <1> DEFINE c == worker[w].on
             pass == worker[w]
             new == Judged(written + 1, c, pass, verdicts, prose)
  <1>1. BuilderInv' /\ Kept  BY RestKeeps DEF HistoryInv, Persist
  <1>2. /\ report' = [report EXCEPT ![c] = new] /\ written' = written + 1
        /\ worker' = [worker EXCEPT ![w] = Idle]
        /\ call' = [call EXCEPT ![c].state = "judged"]
        /\ UNCHANGED <<versions, screen>> /\ reviews' = [reviews EXCEPT ![c] = <<>>]
        /\ worker[w] # Idle /\ \A i \in Range(worker[w].asked) : Stored(i)
    BY DEF Persist, Finish, checklistVars
  <1>3. Domains'  BY <1>2 DEF HistoryInv, Domains
  <1>4. CallInv'
    <2>1. CASE c \in Call  BY <1>2, <2>1, CallStays DEF HistoryInv, State
    <2>2. CASE c \notin Call
      <3>1. call' = call  BY <1>2, <2>2 DEF HistoryInv, CallInv
      <3> QED BY <1>2, <3>1, CallStays DEF HistoryInv
    <2> QED BY <2>1, <2>2
  <1>5. new.id = written + 1 /\ new.version = pass.version /\ DOMAIN new.rows = Range(pass.asked)
        /\ new.asked = pass.asked
    BY DEF Judged
  <1>6. ASSUME NEW r, r = new
        PROVE  Grounded(r)'
    <2>1. r.id \in 1 .. written'  BY <1>2, <1>5, <1>6 DEF HistoryInv, Domains
    <2>2. Asked(pass)  BY <1>2 DEF HistoryInv
    <2>3. CASE pass.version = 0 /\ pass.asked = <<>>
      <3>1. Range(pass.asked) = {}  BY <2>3 DEF Range
      <3>2. r.version = 0 /\ r.asked = <<>> /\ DOMAIN r.rows = {}  BY <1>5, <1>6, <2>3, <3>1
      <3> QED BY <2>1, <3>2 DEF Grounded
    <2>4. ASSUME pass.version \in DOMAIN versions,
                 NEW S \in SUBSET Item, Sound(pass.version, S), pass.asked = InOrder(S)
          PROVE  Grounded(r)'
      <3>1. Range(pass.asked) = S  BY <2>4, InOrderOf DEF Sound
      <3>2. /\ r.version = pass.version /\ r.asked = InOrder(DOMAIN r.rows) /\ DOMAIN r.rows = S
            /\ \A i \in S : Stored(i)
        BY <1>2, <1>5, <1>6, <2>4, <3>1
      <3> HIDE DEF pass, new
      <3> QED BY <1>2, <2>1, <2>4, <3>2 DEF Grounded, Stored
    <2> QED BY <2>2, <2>3, <2>4 DEF Asked
  <1>7. \A d \in Reported' : Grounded(report[d])'
    <2> SUFFICES ASSUME NEW d \in Reported' PROVE Grounded(report[d])'
      OBVIOUS
    <2>1. d \in Call /\ DOMAIN report = Call  BY DEF Reported, HistoryInv, Domains
    <2> HIDE DEF new
    <2>2. CASE d = c
      <3>1. report'[d] = new  BY <1>2, <2>1, <2>2
      <3>2. \A r : r = new => Grounded(r)'  BY <1>6
      <3> QED BY <3>1, <3>2 DEF Grounded
    <2>3. CASE d # c
      <3>1. report'[d] = report[d] /\ d \in Reported  BY <1>2, <2>1, <2>3 DEF Reported
      <3>2. written' >= written  BY <1>2 DEF HistoryInv, Domains
      <3>3. \A r : r = report[d] => Grounded(r)'
        BY <1>1, <1>3, <3>1, <3>2, GroundedStays DEF HistoryInv
      <3> QED BY <3>1, <3>3 DEF Grounded
    <2> QED BY <2>2, <2>3
  <1>8. \A u \in Worker : worker'[u] # Idle => Asked(worker[u])'
    <2>1. \A p : Asked(p) => Asked(p)'  BY <1>1, AskedStays DEF HistoryInv
    <2>2. \A u \in Worker : worker'[u] # Idle => worker'[u] = worker[u] /\ Asked(worker[u])
      BY <1>2 DEF HistoryInv, Domains
    <2> QED BY <2>1, <2>2 DEF Asked
  <1> QED BY <1>1, <1>3, <1>4, <1>7, <1>8 DEF HistoryInv

LEMMA DeleteKeeps ==
  ASSUME HistoryInv, NEW c \in Call, Delete(c)
  PROVE  HistoryInv' /\ Kept
  <1>1. BuilderInv' /\ Kept  BY RestKeeps DEF HistoryInv, Delete
  <1>2. CallInv'  BY CallStays DEF HistoryInv, Delete, State, checklistVars
  <1>3. Domains'  BY DEF HistoryInv, Domains, Delete
  <1>4. /\ written' = written /\ worker' = worker
        /\ \A d \in Call : report'[d] \in {report[d], NoReport}
    BY DEF HistoryInv, Domains, Delete
  <1> QED BY <1>1, <1>2, <1>3, <1>4, QuietKeeps DEF HistoryInv

\* A call is registered with a checklist there is.
LEMMA RegisterKeeps ==
  ASSUME HistoryInv, NEW c \in Call, NEW o \in Option, NEW v, Register(c, o, v)
  PROVE  HistoryInv' /\ Kept
  <1>1. BuilderInv' /\ Kept  BY RestKeeps DEF HistoryInv, Register
  <1>2. v \in {0} \cup DOMAIN versions /\ v \in Nat
    BY DEF Register, HistoryInv, BuilderInv, ChecklistTypeOK
  <1>3. CallInv'
    <2> DEFINE one == [state |-> "ready", option |-> o, chosen |-> v]
               Calls == [state : State] \cup [state : State, option : Option, chosen : Nat]
    <2>1. call' = [call EXCEPT ![c] = one] /\ versions' = versions
      BY DEF Register, checklistVars
    <2>2. one \in Calls /\ one.chosen = v  BY <1>2 DEF State
    <2> HIDE DEF one
    <2>3. call' \in [Call -> Calls]  BY <2>1, <2>2 DEF HistoryInv, CallInv
    <2>4. \A d \in Call : call'[d].state = "ready" => call'[d].chosen \in {0} \cup DOMAIN versions
      BY <1>2, <2>1, <2>2 DEF HistoryInv, CallInv
    <2> QED BY <2>1, <2>3, <2>4 DEF CallInv
  <1>4. Domains'  BY DEF HistoryInv, Domains, Register
  <1>5. written' = written /\ worker' = worker /\ report' = report  BY DEF Register
  <1> QED BY <1>1, <1>3, <1>4, <1>5, QuietKeeps DEF HistoryInv

\* A step that changes neither the checklists nor the calls, and ends a pass at most.
LEMMA ReadKeeps ==
  ASSUME HistoryInv, UNCHANGED <<checklistVars, call, report, written>>, Domains',
         \A w \in Worker : worker'[w] \in {worker[w], Idle}
  PROVE  HistoryInv' /\ Kept
  <1>1. BuilderInv' /\ Kept  BY RestKeeps DEF HistoryInv
  <1>2. CallInv'  BY CallStays DEF HistoryInv, checklistVars
  <1> QED BY <1>1, <1>2, QuietKeeps DEF HistoryInv

LEMMA NextHistory ==
  ASSUME HistoryInv, [Next]_vars
  PROVE  HistoryInv' /\ Kept
  <1>1. CASE Edit
    <2>1. BuilderInv' /\ Kept  BY <1>1, EditKeeps DEF HistoryInv
    <2>2. UNCHANGED <<call, worker, report, written, reviews, screen>>  BY <1>1 DEF Edit
    <2>3. Domains'  BY <2>2 DEF HistoryInv, Domains
    <2>4. CallInv'  BY <2>1, <2>2, CallStays DEF HistoryInv, Kept
    <2> QED BY <2>1, <2>2, <2>3, <2>4, QuietKeeps DEF HistoryInv
  <1>2. CASE \E c \in Call : Delete(c)  BY <1>2, DeleteKeeps
  <1>3. CASE \E c \in Call, o \in Option, v \in 0 .. MaxVersions : Register(c, o, v)
    BY <1>3, RegisterKeeps
  <1>4. CASE \E w \in Worker : Fail(w)
    <2>1. Domains' /\ \A w \in Worker : worker'[w] \in {worker[w], Idle}
      BY <1>4 DEF Fail, HistoryInv, Domains
    <2> QED BY <1>4, <2>1, ReadKeeps DEF Fail
  <1>5. CASE \E w \in Worker, c \in Call : Begin(w, c)  BY <1>5, BeginKeeps
  <1>6. CASE \E w \in Worker : \E verdicts \in Answers(w), prose \in BOOLEAN :
               Persist(w, verdicts, prose)
    BY <1>6, PersistKeeps
  <1>7. CASE \E u \in Verifier, c \in Call : Open(u, c)
    <2>1. Domains'  BY <1>7 DEF Open, HistoryInv, Domains
    <2> QED BY <1>7, <2>1, ReadKeeps DEF Open
  <1>8. CASE \E u \in Verifier, j \in Judgement : Verify(u, j)
    <2>1. Domains'  BY <1>8 DEF Verify, HistoryInv, Domains
    <2> QED BY <1>8, <2>1, ReadKeeps DEF Verify
  <1>9. CASE Recompute
    <2>1. Domains'  BY <1>9 DEF Recompute, HistoryInv, Domains
    <2> QED BY <1>9, <2>1, ReadKeeps DEF Recompute
  <1>10. CASE UNCHANGED vars
    <2>1. Domains'  BY <1>10 DEF vars, reviewVars, HistoryInv, Domains
    <2> QED BY <1>10, <2>1, ReadKeeps DEF vars, reviewVars
  <1> QED BY <1>1, <1>2, <1>3, <1>4, <1>5, <1>6, <1>7, <1>8, <1>9, <1>10 DEF Next

-----------------------------------------------------------------------------
\* Every report scores exactly what its pass asked, in its order, and all of it is stored
\* still: a pass under way asks what its version asked when it began, and is not written when
\* any of that is gone (judge/service.py, checklists/service.py, models/__init__.py).
THEOREM HistoryHolds == Spec => []HistoryInv
  <1>1. Init => HistoryInv  BY InitHistory
  <1>2. HistoryInv /\ [Next]_vars => HistoryInv'  BY NextHistory
  <1> QED BY <1>1, <1>2, PTL DEF Spec

-----------------------------------------------------------------------------
(***************************************************************************)
(* Immutable versions.                                                     *)
(***************************************************************************)

\* Who changes what a version asks is about to commit an edit in place of it.
LEMMA WhoChanges ==
  ASSUME HistoryInv, [Next]_vars, ~Same
  PROVE  \E e \in Editor :
           /\ Revise(e, Held) /\ UNCHANGED report
           /\ \A u \in DOMAIN versions : u # tab[e].at => versions'[u] = versions[u]
  <1>1. CASE Edit
    <2>1. PICK e \in Editor : Revise(e, Held)  BY <1>1, EditKeeps DEF HistoryInv
    <2> QED BY <1>1, <2>1, ReviseKeeps DEF HistoryInv, Edit
  <1>2. CASE UNCHANGED checklistVars  BY <1>2, RestKeeps DEF HistoryInv
  <1>3. Edit \/ UNCHANGED checklistVars
    BY DEF Next, Recompute, Fail, Open, Verify, Persist, Begin, Register, Delete, vars
  <1> QED BY <1>1, <1>2, <1>3

\* A transaction that has begun its DELETE has just begun it, or had before the step.
LEMMA WhoSweeps ==
  ASSUME HistoryInv, [Next]_vars, NEW e \in Editor, tab'[e] # NoTab, tab'[e].swept
  PROVE  \/ tab'[e] = tab[e]
         \/ /\ versions' = versions /\ tab'[e].at \in DOMAIN versions
            /\ tab'[e].sees = versions[tab'[e].at].items
  <1>0. /\ DOMAIN tab = Editor
        /\ \A d \in Editor : tab[d] # NoTab => tab[d] \in Tab /\ tab[d].at \in DOMAIN versions
    BY DEF HistoryInv, BuilderInv, ChecklistTypeOK
  <1>1. CASE UNCHANGED tab  BY <1>1
  <1>2. CASE \E d \in Editor : tab' = [tab EXCEPT ![d] = NoTab]  BY <1>0, <1>2
  <1>3. CASE \E d \in Editor, v \in DOMAIN versions, b \in Body : Load(d, v, b, Used(v))
    <2>1. PICK d \in Editor : /\ \A c \in Editor \ {d} : tab'[c] = tab[c]
                              /\ tab'[d].swept = FALSE
      BY <1>0, <1>3 DEF Load
    <2> QED BY <2>1
  <1>4. CASE \E d \in Editor : Sweep(d)
    <2>1. PICK d \in Editor : Sweep(d)  BY <1>4
    <2>2. CASE e # d  BY <1>0, <2>1, <2>2 DEF Sweep
    <2>3. CASE e = d
      <3> DEFINE one == [tab[e] EXCEPT !.swept = TRUE, !.sees = versions[tab[e].at].items]
      <3>1. tab[e] # NoTab /\ versions' = versions /\ tab' = [tab EXCEPT ![e] = one]
        BY <2>1, <2>3 DEF Sweep
      <3>2. tab[e] \in Tab \ {NoTab} /\ tab[e].at \in DOMAIN versions  BY <1>0, <3>1
      <3>3. one.at = tab[e].at /\ one.sees = versions[tab[e].at].items
        BY <3>2 DEF Tab
      <3> HIDE DEF one
      <3> QED BY <1>0, <3>1, <3>2, <3>3
    <2> QED BY <2>2, <2>3
  <1>5. CASE Edit
    <2>1. CASE \/ \E b \in Body : Create(b)
               \/ \E v \in DOMAIN versions : SoftDelete(v)
      BY <1>1, <2>1 DEF Create, SoftDelete
    <2>2. CASE \E d \in Editor : Revise(d, Held) \/ Refuse(d, Held) \/ Publish(d)
      BY <1>2, <2>2 DEF Revise, Refuse, InPlace, Publish
    <2> QED BY <1>3, <1>4, <1>5, <2>1, <2>2 DEF Edit
  <1>6. Edit \/ UNCHANGED tab
    BY DEF Next, Recompute, Fail, Open, Verify, Persist, Begin, Register, Delete, vars,
           checklistVars
  <1> QED BY <1>1, <1>5, <1>6

\* While edits of one version are apart, nobody changes what a DELETE saw.
LEMMA NextSwept ==
  ASSUME HistoryInv, SweptInv, EditsApart, [Next]_vars
  PROVE  SweptInv'
  <1> SUFFICES ASSUME NEW e \in Editor, tab'[e] # NoTab, tab'[e].swept
               PROVE  tab'[e].sees = versions'[tab'[e].at].items
    BY DEF SweptInv
  <1>1. CASE versions' = versions /\ tab'[e].sees = versions[tab'[e].at].items  BY <1>1
  <1>2. CASE tab'[e] = tab[e]
    <2>1. tab[e].sees = versions[tab[e].at].items /\ tab[e].at \in DOMAIN versions
      BY <1>2 DEF SweptInv, HistoryInv, BuilderInv
    <2>2. CASE Same  BY <1>2, <2>1, <2>2 DEF Same
    <2>3. CASE ~Same
      <3>1. PICK d \in Editor :
              /\ Revise(d, Held)
              /\ \A u \in DOMAIN versions : u # tab[d].at => versions'[u] = versions[u]
        BY <2>3, WhoChanges
      <3>2. tab[d] # NoTab /\ tab[d].swept /\ tab' = [tab EXCEPT ![d] = NoTab]
        BY <3>1 DEF Revise, InPlace
      <3>3. d # e  BY <3>2 DEF HistoryInv, BuilderInv, ChecklistTypeOK
      <3>4. tab[d].at # tab[e].at  BY <1>2, <3>2, <3>3 DEF EditsApart
      <3> QED BY <1>2, <2>1, <3>1, <3>4
    <2> QED BY <2>2, <2>3
  <1> QED BY <1>1, <1>2, WhoSweeps

\* A report keeps its version from an edit in place that saw all the version asks.
LEMMA ScoredRefuses ==
  ASSUME HistoryInv, SweptInv, [Next]_vars, NEW c \in Reported, report[c].version # 0
  PROVE  versions'[report[c].version].items = versions[report[c].version].items
  <1> DEFINE v == report[c].version
             S == DOMAIN report[c].rows
  <1>1. v \in DOMAIN versions /\ Sound(v, S) /\ \A i \in S : Stored(i)
    BY DEF HistoryInv, Grounded
  <1>2. PICK i \in S : i \in versions[v].items
    BY <1>1 DEF Sound, Stored
  <1>3. i \in Held  BY DEF Held
  <1>4. CASE Same  BY <1>1, <1>4 DEF Same
  <1>5. ASSUME NEW e \in Editor, Revise(e, Held),
               \A u \in DOMAIN versions : u # tab[e].at => versions'[u] = versions[u]
        PROVE  versions'[v].items = versions[v].items
    <2>1. tab[e] # NoTab /\ tab[e].swept /\ Doomed(e) \cap Held = {}
      BY <1>5 DEF Revise, InPlace
    <2>2. Doomed(e) = versions[tab[e].at].items  BY <2>1 DEF Doomed, SweptInv
    <2>3. tab[e].at # v  BY <1>2, <1>3, <2>1, <2>2
    <2> QED BY <1>1, <1>5, <2>3
  <1> QED BY <1>4, <1>5, WhoChanges

\* A version is immutable once used by a report, whatever editors, judges and deletions do,
\* while no two edits of it are between DELETE and commit at once: update_checklist decides on
\* what it read, and the foreign key of report_items settles the race with a pass that commits
\* in between.  Without that assumption it fails (checklists/service.py).
THEOREM VersionsImmutable == Spec /\ []EditsApart => Immutable
  <1>1. Init => SweptInv  BY DEF Init, ChecklistInit, SweptInv
  <1>2. HistoryInv /\ SweptInv /\ EditsApart /\ [Next]_vars => SweptInv'  BY NextSwept
  <1>3. HistoryInv /\ SweptInv /\ [Next]_vars =>
          [\A c \in Reported :
             report[c].version # 0 /\ report'[c] = report[c] =>
               versions'[report[c].version].items = versions[report[c].version].items]_vars
    BY ScoredRefuses
  <1> QED BY <1>1, <1>2, <1>3, HistoryHolds, PTL DEF Spec, Immutable

\* One editor at a time is enough for that.
THEOREM OneEditorImmutable ==
  ASSUME \A d, e \in Editor : d = e
  PROVE  Spec => Immutable
  <1>1. EditsApart  BY DEF EditsApart
  <1> QED BY <1>1, VersionsImmutable, PTL

-----------------------------------------------------------------------------
(***************************************************************************)
(* What a verifier read.                                                   *)
(***************************************************************************)

\* The page of a report reads the same for as long as the report is there.
LEMMA PageStays ==
  ASSUME Kept, NEW c \in Reported, Grounded(report[c]), NEW r, r = report[c]
  PROVE  Page(r)' = Page(r)
  <1>1. \A i \in DOMAIN r.rows : Stored(i)  BY DEF Grounded
  <1>2. \A i \in DOMAIN r.rows : Stored(i)'  BY <1>1, StoredStays
  <1>3. Joined(r)' = Joined(r)  BY <1>1, <1>2 DEF Joined
  <1> QED BY <1>3 DEF Page

\* So do the verifications of a report that stays.
LEMMA OfStays ==
  ASSUME HistoryInv, Kept, NEW c \in Reported, NEW r, r = report[c]
  PROVE  Of(r)' = Of(r)
  <1>1. Page(r)' = Page(r)  BY PageStays DEF HistoryInv
  <1> QED BY <1>1 DEF Of

\* Reports that stay or go, and screens that are closed at most.
LEMMA ReadersKeep ==
  ASSUME HistoryInv, HistoryInv', PageInv, Kept,
         \A c \in Call : \/ report'[c] = report[c] /\ reviews'[c] = reviews[c]
                         \/ report'[c] = NoReport /\ reviews'[c] = <<>>,
         \A u \in Verifier : screen'[u] \in {screen[u], NoPage},
         written' = written
  PROVE  PageInv'
  <1>1. ASSUME NEW c \in Call, reviews'[c] # <<>>
        PROVE  c \in Reported' /\ reviews'[c] \in Seq(Of(report[c]))'
    <2>1. /\ report'[c] = report[c] /\ reviews'[c] = reviews[c] /\ c \in Reported
          /\ reviews[c] \in Seq(Of(report[c]))
      BY <1>1 DEF PageInv
    <2>2. \A r : r = report[c] => Of(r)' = Of(r)  BY <2>1, OfStays
    <2>3. Of(report[c])' = Of(report[c])  BY <2>1, <2>2 DEF Of
    <2> QED BY <2>1, <2>3 DEF Reported
  <1>2. ASSUME NEW u \in Verifier, screen'[u] # NoPage
        PROVE  /\ screen'[u].of \in Call /\ screen'[u].id \in 1 .. written'
               /\ report'[screen'[u].of].id = screen'[u].id =>
                    screen'[u].page = Page(report[screen[u].of])'
    <2>1. screen'[u] = screen[u] /\ screen[u].of \in Call /\ screen[u].id \in 1 .. written
      BY <1>2 DEF PageInv
    <2>2. ASSUME report'[screen[u].of].id = screen[u].id
          PROVE  screen[u].page = Page(report[screen[u].of])'
      <3> DEFINE c == screen[u].of
      <3>1. c \in Call  BY <2>1
      <3>2. 0 \notin 1 .. written  BY DEF HistoryInv, Domains
      <3>3. report'[c] # NoReport  BY <2>1, <2>2, <3>2 DEF NoReport
      <3>4. report'[c] = report[c] /\ c \in Reported  BY <3>1, <3>3 DEF Reported
      <3>5. screen[u].page = Page(report[c])
        BY <2>1, <2>2, <3>4, <1>2 DEF PageInv
      <3>6. \A r : r = report[c] => Page(r)' = Page(r)  BY <3>4, PageStays DEF HistoryInv
      <3>7. report'[screen'[u].of] = report[c]  BY <2>1, <3>4
      <3>8. Page(report[screen[u].of])' = Page(report[c])  BY <3>6, <3>7 DEF Page
      <3> QED BY <3>5, <3>8
    <2> QED BY <2>1, <2>2
  <1> QED BY <1>1, <1>2 DEF PageInv

LEMMA SamePages ==
  ASSUME versions' = versions, NEW r
  PROVE  Page(r)' = Page(r) /\ Of(r)' = Of(r)
  BY DEF Page, Of, Joined, Stored

\* A verifier opens a report: what is on the screen is the report as it reads.
LEMMA OpenKeeps ==
  ASSUME HistoryInv, PageInv, NEW u \in Verifier, NEW c \in Call, Open(u, c)
  PROVE  PageInv'
  <1> DEFINE one == [of |-> c, id |-> report[c].id, page |-> Page(report[c])]
  <1>1. /\ c \in Reported /\ screen' = [screen EXCEPT ![u] = one]
        /\ UNCHANGED <<versions, report, reviews, written>>
    BY DEF Open, checklistVars
  <1>2. one.id \in 1 .. written /\ one.of = c /\ one.page = Page(report[c]) /\ one.id = report[c].id
    BY <1>1 DEF HistoryInv, Grounded
  <1>3. \A r : Page(r)' = Page(r) /\ Of(r)' = Of(r)
    BY <1>1 DEF Page, Of, Joined, Stored
  <1>4. \A d \in Call : reviews'[d] # <<>> => d \in Reported' /\ reviews'[d] \in Seq(Of(report[d]))
    BY <1>1 DEF PageInv, Reported
  <1>5. \A d \in Call : Of(report[d])' = Of(report[d]) /\ Page(report[d])' = Page(report[d])
    BY <1>1, <1>3 DEF Of, Page, Joined, Stored
  <1> HIDE DEF one
  <1>6. \A w \in Verifier : screen'[w] # NoPage =>
          /\ screen'[w].of \in Call /\ screen'[w].id \in 1 .. written'
          /\ report'[screen'[w].of].id = screen'[w].id =>
               screen'[w].page = Page(report[screen'[w].of])
    BY <1>1, <1>2 DEF PageInv, HistoryInv, Domains
  <1>7. \A w \in Verifier : screen'[w] # NoPage => Page(report[screen[w].of])' = Page(report'[screen'[w].of])
    BY <1>1 DEF Page, Joined, Stored
  <1> QED BY <1>1, <1>4, <1>5, <1>6, <1>7 DEF PageInv

\* A verification is stored for the report that was on the screen, if it is there still.
LEMMA VerifyKeeps ==
  ASSUME HistoryInv, PageInv, NEW u \in Verifier, NEW j \in Judgement, Verify(u, j)
  PROVE  PageInv'
  <1> DEFINE s == screen[u]
             c == s.of
             one == [judgement |-> j, by |-> u, page |-> s.page]
  <1>1. /\ s # NoPage /\ screen' = [screen EXCEPT ![u] = NoPage]
        /\ UNCHANGED <<versions, report, written>>
        /\ \/ reviews' = reviews
           \/ report[c].id = s.id /\ reviews' = [reviews EXCEPT ![c] = Append(@, one)]
    BY DEF Verify, checklistVars
  <1>2. c \in Call /\ s.id \in 1 .. written /\ (report[c].id = s.id => s.page = Page(report[c]))
    BY <1>1 DEF PageInv
  <1>3. ASSUME NEW d \in Call, reviews'[d] # <<>>
        PROVE  d \in Reported /\ reviews'[d] \in Seq(Of(report[d]))
    <2>1. CASE reviews'[d] = reviews[d]  BY <1>3, <2>1 DEF PageInv
    <2>2. CASE d = c /\ report[c].id = s.id /\ reviews' = [reviews EXCEPT ![c] = Append(@, one)]
      <3>1. c \in Reported
        BY <1>2, <2>2 DEF Reported, NoReport, HistoryInv, Domains
      <3>2. one \in Of(report[c])  BY <1>2, <2>2 DEF Of
      <3>3. reviews[c] \in Seq(Of(report[c]))
        <4>1. CASE reviews[c] = <<>>  BY <4>1
        <4>2. CASE reviews[c] # <<>>  BY <1>2, <4>2 DEF PageInv
        <4> QED BY <4>1, <4>2
      <3>4. reviews'[c] = Append(reviews[c], one)  BY <1>2, <2>2 DEF HistoryInv, Domains
      <3>5. Append(reviews[c], one) \in Seq(Of(report[c]))  BY <3>2, <3>3, OneMore
      <3>6. reviews'[d] = Append(reviews[c], one) /\ report[d] = report[c]  BY <2>2, <3>4
      <3> QED BY <2>2, <3>1, <3>5, <3>6
    <2>3. DOMAIN reviews = Call  BY DEF HistoryInv, Domains
    <2>4. CASE d # c  BY <1>1, <2>1, <2>3, <2>4
    <2>5. CASE d = c /\ ~(report[c].id = s.id /\ reviews' = [reviews EXCEPT ![c] = Append(@, one)])
      BY <1>1, <2>1, <2>5
    <2> QED BY <2>2, <2>4, <2>5
  <1>4. \A d \in Call : Of(report[d])' = Of(report[d])
    BY <1>1 DEF Of, Page, Joined, Stored
  <1>5. \A w \in Verifier : screen'[w] # NoPage =>
          /\ screen'[w] = screen[w]
          /\ Page(report[screen[w].of])' = Page(report[screen[w].of])
    <2> SUFFICES ASSUME NEW w \in Verifier, screen'[w] # NoPage
                 PROVE  /\ screen'[w] = screen[w]
                        /\ Page(report[screen[w].of])' = Page(report[screen[w].of])
      OBVIOUS
    <2>1. screen'[w] = screen[w]  BY <1>1 DEF HistoryInv, Domains
    <2>2. \A r : Page(r)' = Page(r)  BY <1>1, SamePages
    <2>3. report'[screen'[w].of] = report[screen[w].of]  BY <1>1, <2>1
    <2> QED BY <2>1, <2>2, <2>3 DEF Page
  <1> QED BY <1>1, <1>3, <1>4, <1>5 DEF PageInv, Reported

\* A new report has a new id: no screen shows it, and no verification is of it.
LEMMA PersistPages ==
  ASSUME HistoryInv, HistoryInv', PageInv, Kept,
         NEW w \in Worker, NEW verdicts, NEW prose, Persist(w, verdicts, prose)
  PROVE  PageInv'
  <1> DEFINE c == worker[w].on
             new == Judged(written + 1, c, worker[w], verdicts, prose)
  <1>1. /\ report' = [report EXCEPT ![c] = new] /\ written' = written + 1
        /\ reviews' = [reviews EXCEPT ![c] = <<>>] /\ screen' = screen /\ versions' = versions
    BY DEF Persist, checklistVars
  <1>2. new.id = written + 1  BY DEF Judged
  <1> HIDE DEF new
  <1>3. \A d \in Call : reviews'[d] # <<>> =>
          d # c /\ report'[d] = report[d] /\ reviews'[d] = reviews[d]
    BY <1>1 DEF HistoryInv, Domains
  <1>4. \A d \in Call : reviews'[d] # <<>> => Of(report[d])' = Of(report[d])
    <2> SUFFICES ASSUME NEW d \in Call, reviews'[d] # <<>> PROVE Of(report[d])' = Of(report[d])
      OBVIOUS
    <2>1. report'[d] = report[d]  BY <1>3
    <2>2. \A r : Of(r)' = Of(r)  BY <1>1, SamePages
    <2> QED BY <2>1, <2>2 DEF Of
  <1>5. \A d \in Call : reviews'[d] # <<>> => d \in Reported' /\ reviews'[d] \in Seq(Of(report[d]))'
    BY <1>3, <1>4 DEF PageInv, Reported
  <1>6. ASSUME NEW u \in Verifier, screen'[u] # NoPage
        PROVE  /\ screen'[u].of \in Call /\ screen'[u].id \in 1 .. written'
               /\ report'[screen'[u].of].id = screen'[u].id =>
                    screen'[u].page = Page(report[screen[u].of])'
    <2>1. /\ screen'[u] = screen[u] /\ screen[u].of \in Call /\ screen[u].id \in 1 .. written
          /\ written \in Nat
      BY <1>1, <1>6 DEF PageInv, HistoryInv, Domains
    <2>2. screen[u].of = c => report'[screen[u].of].id # screen[u].id
      BY <1>1, <1>2, <2>1 DEF HistoryInv, Domains
    <2>3. screen[u].of # c => report'[screen[u].of] = report[screen[u].of]  BY <1>1, <2>1 DEF HistoryInv, Domains
    <2>4. screen[u].of # c => Page(report[screen[u].of])' = Page(report[screen[u].of])
      BY <1>1, <2>1, <2>3 DEF Page, Joined, Stored
    <2> QED BY <1>1, <1>6, <2>1, <2>2, <2>3, <2>4 DEF PageInv
  <1> QED BY <1>5, <1>6 DEF PageInv

LEMMA NextPages ==
  ASSUME HistoryInv, PageInv, [Next]_vars
  PROVE  PageInv'
  <1>0. HistoryInv' /\ Kept  BY NextHistory
  <1>1. CASE \/ Edit \/ Recompute \/ UNCHANGED vars
             \/ \E w \in Worker : Fail(w) \/ \E c \in Call : Begin(w, c)
             \/ \E c \in Call, o \in Option, v \in 0 .. MaxVersions : Register(c, o, v)
    <2>1. UNCHANGED <<report, reviews, screen, written>>
      BY <1>1 DEF Edit, Recompute, Fail, Begin, Register, vars, reviewVars
    <2> QED BY <1>0, <2>1, ReadersKeep
  <1>2. CASE \E c \in Call : Delete(c)
    <2>1. PICK c \in Call : Delete(c)  BY <1>2
    <2>2. \A d \in Call : \/ report'[d] = report[d] /\ reviews'[d] = reviews[d]
                          \/ report'[d] = NoReport /\ reviews'[d] = <<>>
      BY <2>1 DEF Delete, HistoryInv, Domains
    <2>3. UNCHANGED <<screen, written>>  BY <2>1 DEF Delete
    <2> QED BY <1>0, <2>2, <2>3, ReadersKeep
  <1>3. CASE \E w \in Worker : \E verdicts \in Answers(w), prose \in BOOLEAN :
               Persist(w, verdicts, prose)
    BY <1>0, <1>3, PersistPages
  <1>4. CASE \E u \in Verifier, c \in Call : Open(u, c)  BY <1>4, OpenKeeps
  <1>5. CASE \E u \in Verifier, j \in Judgement : Verify(u, j)  BY <1>5, VerifyKeeps
  <1> QED BY <1>1, <1>2, <1>3, <1>4, <1>5 DEF Next

\* A verification stands beside the report its verifier read, as it reads now: a report that
\* is written anew has a new id and none of the verifications of the old one, and the edits
\* of its version never reach what a report reads (api/verification.py, judge/service.py).
THEOREM VerifiedAsRead == Spec => []ReviewsWhatWasRead
  <1>1. Init => PageInv
    BY DEF Init, PageInv
  <1>2. HistoryInv /\ PageInv /\ [Next]_vars => PageInv'  BY NextPages
  <1>3. PageInv => ReviewsWhatWasRead
    <2> SUFFICES ASSUME PageInv, NEW c \in Call, NEW n \in DOMAIN reviews[c]
                 PROVE  c \in Reported /\ reviews[c][n].page = Page(report[c])
      BY DEF ReviewsWhatWasRead
    <2>1. reviews[c] # <<>>
      OBVIOUS
    <2>2. c \in Reported /\ reviews[c] \in Seq(Of(report[c]))  BY <2>1 DEF PageInv
    <2>3. reviews[c][n] \in Of(report[c])  BY <2>2
    <2> QED BY <2>2, <2>3 DEF Of
  <1> QED BY <1>1, <1>2, <1>3, HistoryHolds, PTL DEF Spec
=============================================================================
