--------------------------- MODULE TemplateProofs ---------------------------
(***************************************************************************)
(* Proofs about Templates, for ScopedConfig: a template the upload accepts *)
(* loses no reference.  validate_template and render_template are folds    *)
(* over the tags; both are unfolded into runs, one state for each number   *)
(* of tags read, and an invariant relates the two runs.                    *)
(***************************************************************************)
EXTENDS Workspace, FiniteSetTheorems, SequenceTheorems, WellFoundedInduction, TLAPS

-----------------------------------------------------------------------------
(***************************************************************************)
(* The two folds as runs.                                                  *)
(***************************************************************************)

\* Induction over the natural numbers, for a set of them.
LEMMA Induction ==
  ASSUME NEW T, 0 \in T, \A n \in Nat : n \in T => n + 1 \in T
  PROVE  \A n \in Nat : n \in T
<1> DEFINE B == Nat \ T
<1>1. SUFFICES ASSUME B # {} PROVE FALSE
  OBVIOUS
<1>2. PICK m \in B : \A n \in B : ~(<<n, m>> \in OpToRel(<, Nat))
  BY <1>1, NatLessThanWellFounded, WFMin, B \subseteq Nat
<1>3. m # 0 /\ m - 1 \in Nat
  OBVIOUS
<1>4. m - 1 \in T
  <2>1. m - 1 < m /\ m \in Nat
    BY <1>3
  <2>2. <<m - 1, m>> \in OpToRel(<, Nat)
    BY <1>3, <2>1 DEF OpToRel
  <2> QED BY <1>2, <1>3, <2>2
<1>5. m = (m - 1) + 1
  BY <1>3
<1> QED BY <1>3, <1>4, <1>5

LEMMA MaxOf ==
  ASSUME NEW m \in Nat, NEW s, s \subseteq 1 .. m, m \in s
  PROVE  Max(s) = m
<1>1. \A y \in s : m >= y
  OBVIOUS
<1>2. Max(s) \in s /\ \A y \in s : Max(s) >= y
  BY <1>1 DEF Max
<1> DEFINE x == Max(s)
<1>3. x \in 1 .. m /\ x >= m
  BY <1>2
<1> HIDE DEF x
<1>4. x = m
  BY <1>3
<1> QED BY <1>4 DEF x

\* What the two folds compute on the sets of the first m indices, side by side.
Turn(p, tag) == <<Check(p[1], tag), Render(p[2], tag)>>

Iterates(h, t, base, m) ==
  h = [s \in SUBSET (1 .. m) |->
         IF s = {} THEN base ELSE Turn(h[s \ {Max(s)}], t[Max(s)])]

LEMMA OneMore ==
  ASSUME NEW t, NEW base, NEW m \in Nat, NEW h, Iterates(h, t, base, m)
  PROVE  \E g : Iterates(g, t, base, m + 1)
<1> DEFINE n == m + 1
           g == [s \in SUBSET (1 .. n) |->
                   IF n \in s THEN Turn(h[s \ {n}], t[n]) ELSE h[s]]
           F(s) == IF s = {} THEN base ELSE Turn(g[s \ {Max(s)}], t[Max(s)])
<1>1. ASSUME NEW s \in SUBSET (1 .. n), n \in s
      PROVE  g[s] = F(s)
  <2>1. s \ {n} \in SUBSET (1 .. m) /\ s \ {n} \in SUBSET (1 .. n) /\ n \notin s \ {n}
    OBVIOUS
  <2>2. Max(s) = n
    <3>1. n \in Nat /\ s \subseteq 1 .. n
      OBVIOUS
    <3> HIDE DEF n
    <3> QED BY <1>1, <3>1, MaxOf
  <2>3. g[s \ {n}] = h[s \ {n}]
    BY <2>1
  <2> QED BY <1>1, <2>2, <2>3
<1>2. ASSUME NEW s \in SUBSET (1 .. n), n \notin s
      PROVE  g[s] = F(s)
  <2>1. \A i \in 1 .. n : i # n => i \in 1 .. m
    OBVIOUS
  <2>2. s \in SUBSET (1 .. m) /\ s \ {Max(s)} \in SUBSET (1 .. n) /\ n \notin s \ {Max(s)}
    <3> HIDE DEF n
    <3> QED BY <1>2, <2>1
  <2>3. g[s \ {Max(s)}] = h[s \ {Max(s)}] /\ g[s] = h[s]
    BY <1>2, <2>2
  <2>4. h[s] = IF s = {} THEN base ELSE Turn(h[s \ {Max(s)}], t[Max(s)])
    BY <2>2 DEF Iterates
  <2> QED BY <2>3, <2>4
<1>3. g = [s \in SUBSET (1 .. n) |-> F(s)]
  <2>1. \A s \in SUBSET (1 .. n) : g[s] = F(s)
    BY <1>1, <1>2
  <2> HIDE DEF F
  <2> QED BY <2>1
<1>4. Iterates(g, t, base, n)
  BY <1>3 DEF Iterates
<1> QED BY <1>4

LEMMA SomeIterate ==
  ASSUME NEW t, NEW base, NEW n \in Nat
  PROVE  \E h : Iterates(h, t, base, n)
<1> DEFINE T == {m \in Nat : \E h : Iterates(h, t, base, m)}
<1>1. 0 \in T
  <2>1. SUBSET (1 .. 0) = {{}}
    OBVIOUS
  <2> DEFINE h == [s \in SUBSET (1 .. 0) |-> base]
  <2>2. Iterates(h, t, base, 0)
    BY <2>1 DEF Iterates
  <2> QED BY <2>2
<1>2. \A m \in Nat : m \in T => m + 1 \in T
  BY OneMore
<1>3. \A m \in Nat : m \in T
  <2> HIDE DEF T
  <2> QED BY <1>1, <1>2, Induction
<1> QED BY <1>3

\* FoldLeft takes any function that iterates its operator: each has one.
LEMMA CheckFold ==
  ASSUME NEW t, NEW c, NEW n \in Nat, DOMAIN t = 1 .. n
  PROVE  \E h : /\ h = [s \in SUBSET (1 .. n) |->
                          IF s = {} THEN c ELSE Check(h[s \ {Max(s)}], t[Max(s)])]
               /\ FoldLeft(Check, c, t) = h[1 .. n]
<1> DEFINE P(h) == h = [s \in SUBSET (1 .. n) |->
                          IF s = {} THEN c ELSE Check(h[s \ {Max(s)}], t[Max(s)])]
<1>1. PICK h : Iterates(h, t, <<c, c>>, n)
  BY SomeIterate
<1>2. P([s \in SUBSET (1 .. n) |-> h[s][1]])
  <2>1. \A s \in SUBSET (1 .. n) :
          h[s] = IF s = {} THEN <<c, c>> ELSE Turn(h[s \ {Max(s)}], t[Max(s)])
    BY <1>1 DEF Iterates
  <2>2. \A s \in SUBSET (1 .. n) : s \ {Max(s)} \in SUBSET (1 .. n)
    OBVIOUS
  <2>3. \A s \in SUBSET (1 .. n) :
          h[s][1] = IF s = {} THEN c ELSE Check(h[s \ {Max(s)}][1], t[Max(s)])
    <3>1. ASSUME NEW s \in SUBSET (1 .. n), s = {} PROVE h[s][1] = c
      <4>1. h[s] = <<c, c>>
        BY <2>1, <3>1
      <4> QED BY <4>1
    <3>2. ASSUME NEW s \in SUBSET (1 .. n), s # {}
          PROVE  h[s][1] = Check(h[s \ {Max(s)}][1], t[Max(s)])
      <4>1. h[s] = Turn(h[s \ {Max(s)}], t[Max(s)])
        BY <2>1, <3>2
      <4> QED BY <4>1 DEF Turn
    <3> QED BY <3>1, <3>2
  <2> QED BY <2>2, <2>3
<1>3. P(CHOOSE g : P(g))
  <2> HIDE DEF P
  <2> QED BY <1>2
<1>4. FoldLeft(Check, c, t) = (CHOOSE g : P(g))[1 .. n]
  BY DEF FoldLeft, MapThenFoldSet
<1> QED BY <1>3, <1>4

LEMMA RenderFold ==
  ASSUME NEW t, NEW r, NEW n \in Nat, DOMAIN t = 1 .. n
  PROVE  \E h : /\ h = [s \in SUBSET (1 .. n) |->
                          IF s = {} THEN r ELSE Render(h[s \ {Max(s)}], t[Max(s)])]
               /\ FoldLeft(Render, r, t) = h[1 .. n]
<1> DEFINE P(h) == h = [s \in SUBSET (1 .. n) |->
                          IF s = {} THEN r ELSE Render(h[s \ {Max(s)}], t[Max(s)])]
<1>1. PICK h : Iterates(h, t, <<r, r>>, n)
  BY SomeIterate
<1>2. P([s \in SUBSET (1 .. n) |-> h[s][2]])
  <2>1. \A s \in SUBSET (1 .. n) :
          h[s] = IF s = {} THEN <<r, r>> ELSE Turn(h[s \ {Max(s)}], t[Max(s)])
    BY <1>1 DEF Iterates
  <2>2. \A s \in SUBSET (1 .. n) : s \ {Max(s)} \in SUBSET (1 .. n)
    OBVIOUS
  <2>3. \A s \in SUBSET (1 .. n) :
          h[s][2] = IF s = {} THEN r ELSE Render(h[s \ {Max(s)}][2], t[Max(s)])
    <3>1. ASSUME NEW s \in SUBSET (1 .. n), s = {} PROVE h[s][2] = r
      <4>1. h[s] = <<r, r>>
        BY <2>1, <3>1
      <4> QED BY <4>1
    <3>2. ASSUME NEW s \in SUBSET (1 .. n), s # {}
          PROVE  h[s][2] = Render(h[s \ {Max(s)}][2], t[Max(s)])
      <4>1. h[s] = Turn(h[s \ {Max(s)}], t[Max(s)])
        BY <2>1, <3>2
      <4> QED BY <4>1 DEF Turn
    <3> QED BY <3>1, <3>2
  <2> QED BY <2>2, <2>3
<1>3. P(CHOOSE g : P(g))
  <2> HIDE DEF P
  <2> QED BY <1>2
<1>4. FoldLeft(Render, r, t) = (CHOOSE g : P(g))[1 .. n]
  BY DEF FoldLeft, MapThenFoldSet
<1> QED BY <1>3, <1>4

\* The sets of the first k indices follow one another.
LEMMA FirstIndices ==
  ASSUME NEW n \in Nat, NEW k \in 1 .. n
  PROVE  /\ 1 .. k \in SUBSET (1 .. n) /\ 1 .. k # {}
         /\ Max(1 .. k) = k /\ (1 .. k) \ {Max(1 .. k)} = 1 .. (k - 1)
<1>1. 1 .. k \in SUBSET (1 .. n) /\ k \in 1 .. k /\ k \in Nat
  OBVIOUS
<1>2. Max(1 .. k) = k
  <2> DEFINE s == 1 .. k
  <2>1. s \subseteq 1 .. k
    OBVIOUS
  <2> HIDE DEF s
  <2>2. k \in s
    BY <1>1 DEF s
  <2>3. Max(s) = k
    BY <1>1, <2>1, <2>2, MaxOf
  <2> QED BY <2>3 DEF s
<1>3. (1 .. k) \ {k} = 1 .. (k - 1)
  OBVIOUS
<1> QED BY <1>1, <1>2, <1>3

\* The state of each fold after k tags.
CheckAll(c, t) == FoldLeft(Check, c, t)
RenderAll(r, t) == FoldLeft(Render, r, t)

LEMMA CheckRun ==
  ASSUME NEW t, NEW c, NEW n \in Nat, DOMAIN t = 1 .. n
  PROVE  \E run : /\ run[0] = c /\ run[n] = CheckAll(c, t)
                  /\ \A k \in 1 .. n : run[k] = Check(run[k - 1], t[k])
<1>1. PICK h : /\ h = [s \in SUBSET (1 .. n) |->
                         IF s = {} THEN c ELSE Check(h[s \ {Max(s)}], t[Max(s)])]
               /\ FoldLeft(Check, c, t) = h[1 .. n]
  BY CheckFold
<1> DEFINE run == [k \in 0 .. n |-> h[1 .. k]]
<1>2. \A s \in SUBSET (1 .. n) :
        h[s] = IF s = {} THEN c ELSE Check(h[s \ {Max(s)}], t[Max(s)])
  BY <1>1
<1>3. run[0] = c
  <2>1. 1 .. 0 = {} /\ {} \in SUBSET (1 .. n) /\ 0 \in 0 .. n
    OBVIOUS
  <2> QED BY <1>2, <2>1
<1>4. run[n] = h[1 .. n]
  OBVIOUS
<1>5. ASSUME NEW k \in 1 .. n
      PROVE  run[k] = Check(run[k - 1], t[k])
  <2>1. k - 1 \in 0 .. n /\ k \in 0 .. n
    OBVIOUS
  <2>2. h[1 .. k] = Check(h[1 .. (k - 1)], t[k])
    BY <1>2, FirstIndices
  <2> QED BY <2>1, <2>2
<1> HIDE DEF run
<1> QED BY <1>1, <1>3, <1>4, <1>5 DEF CheckAll

LEMMA RenderRun ==
  ASSUME NEW t, NEW r, NEW n \in Nat, DOMAIN t = 1 .. n
  PROVE  \E run : /\ run[0] = r /\ run[n] = RenderAll(r, t)
                  /\ \A k \in 1 .. n : run[k] = Render(run[k - 1], t[k])
<1>1. PICK h : /\ h = [s \in SUBSET (1 .. n) |->
                         IF s = {} THEN r ELSE Render(h[s \ {Max(s)}], t[Max(s)])]
               /\ FoldLeft(Render, r, t) = h[1 .. n]
  BY RenderFold
<1> DEFINE run == [k \in 0 .. n |-> h[1 .. k]]
<1>2. \A s \in SUBSET (1 .. n) :
        h[s] = IF s = {} THEN r ELSE Render(h[s \ {Max(s)}], t[Max(s)])
  BY <1>1
<1>3. run[0] = r
  <2>1. 1 .. 0 = {} /\ {} \in SUBSET (1 .. n) /\ 0 \in 0 .. n
    OBVIOUS
  <2> QED BY <1>2, <2>1
<1>4. run[n] = h[1 .. n]
  OBVIOUS
<1>5. ASSUME NEW k \in 1 .. n
      PROVE  run[k] = Render(run[k - 1], t[k])
  <2>1. k - 1 \in 0 .. n /\ k \in 0 .. n
    OBVIOUS
  <2>2. h[1 .. k] = Render(h[1 .. (k - 1)], t[k])
    BY <1>2, FirstIndices
  <2> QED BY <2>1, <2>2
<1> HIDE DEF run
<1> QED BY <1>1, <1>3, <1>4, <1>5 DEF RenderAll


-----------------------------------------------------------------------------
(***************************************************************************)
(* Sequences of whatever elements.                                         *)
(***************************************************************************)
IsSeq(s) == \E S : s \in Seq(S)

LEMMA Lengths ==
  ASSUME NEW s, IsSeq(s)
  PROVE  Len(s) \in Nat /\ DOMAIN s = 1 .. Len(s) /\ (s = <<>> <=> Len(s) = 0)
<1>1. PICK S : s \in Seq(S)
  BY DEF IsSeq
<1> QED BY <1>1, EmptySeq, LenProperties

LEMMA Appended ==
  ASSUME NEW s, IsSeq(s), NEW x
  PROVE  /\ IsSeq(Append(s, x)) /\ Append(s, x) # <<>> /\ Len(Append(s, x)) = Len(s) + 1
         /\ \A i \in 1 .. Len(s) : Append(s, x)[i] = s[i]
         /\ Append(s, x)[Len(s) + 1] = x /\ Last(Append(s, x)) = x
<1>1. PICK S : s \in Seq(S)
  BY DEF IsSeq
<1> DEFINE A == S \cup {x}
<1>2. s \in Seq(A) /\ x \in A
  BY <1>1, SeqMonotonic
<1> HIDE DEF A
<1>3. /\ Append(s, x) \in Seq(A) /\ Append(s, x) # <<>> /\ Len(Append(s, x)) = Len(s) + 1
      /\ \A i \in 1 .. Len(s) : Append(s, x)[i] = s[i]
      /\ Append(s, x)[Len(s) + 1] = x
  BY <1>2, AppendProperties
<1> QED BY <1>3 DEF IsSeq, Last

LEMMA Fronted ==
  ASSUME NEW s, IsSeq(s), s # <<>>
  PROVE  /\ IsSeq(Front(s)) /\ Len(Front(s)) = Len(s) - 1
         /\ \A i \in 1 .. Len(s) - 1 : Front(s)[i] = s[i]
<1>1. PICK S : s \in Seq(S)
  BY DEF IsSeq
<1>2. Len(s) \in Nat /\ Len(s) # 0 /\ \A i \in 1 .. Len(s) - 1 : s[i] \in S
  BY <1>1, Lengths DEF IsSeq
<1>3. /\ SubSeq(s, 1, Len(s) - 1) \in Seq(S) /\ Len(SubSeq(s, 1, Len(s) - 1)) = Len(s) - 1
      /\ \A i \in 1 .. Len(s) - 1 : SubSeq(s, 1, Len(s) - 1)[i] = s[i]
  <2> DEFINE n == Len(s) - 1
  <2>1. n \in Nat /\ n \in Int /\ 1 \in Int
    BY <1>2
  <2> HIDE DEF n
  <2>2. \A i \in 1 .. n : s[i] \in S
    BY <1>2 DEF n
  <2>3. /\ SubSeq(s, 1, n) \in Seq(S) /\ Len(SubSeq(s, 1, n)) = IF 1 <= n THEN n - 1 + 1 ELSE 0
        /\ \A i \in 1 .. n - 1 + 1 : SubSeq(s, 1, n)[i] = s[1 + i - 1]
    BY <2>1, <2>2, SubSeqProperties
  <2>4. \A i \in 1 .. n : i \in 1 .. n - 1 + 1 /\ 1 + i - 1 = i
    BY <2>1
  <2>5. Len(SubSeq(s, 1, n)) = n /\ \A i \in 1 .. n : SubSeq(s, 1, n)[i] = s[i]
    BY <2>1, <2>3, <2>4
  <2> QED BY <2>3, <2>5 DEF n
<1> QED BY <1>3 DEF IsSeq, Front

LEMMA MaxIn ==
  ASSUME NEW n \in Nat, NEW A, A \subseteq 1 .. n, A # {}
  PROVE  Max(A) \in A
<1> DEFINE T == {m \in Nat : \A B \in SUBSET (1 .. m) : B # {} => \E x \in B : \A y \in B : x >= y}
<1>1. 0 \in T
  <2>1. SUBSET (1 .. 0) = {{}}
    OBVIOUS
  <2> QED BY <2>1
<1>2. ASSUME NEW m \in Nat, m \in T PROVE m + 1 \in T
  <2>1. ASSUME NEW B \in SUBSET (1 .. m + 1), B # {}
        PROVE  \E x \in B : \A y \in B : x >= y
    <3>1. CASE m + 1 \in B
      <4>1. \A y \in B : m + 1 >= y
        OBVIOUS
      <4> QED BY <3>1, <4>1
    <3>2. CASE m + 1 \notin B
      <4>1. \A y \in 1 .. m + 1 : y # m + 1 => y \in 1 .. m
        OBVIOUS
      <4>2. B \in SUBSET (1 .. m)
        BY <3>2, <4>1
      <4> QED BY <1>2, <2>1, <4>2
    <3> QED BY <3>1, <3>2
  <2> QED BY <2>1
<1>3. n \in T
  <2> HIDE DEF T
  <2> QED BY <1>1, <1>2, Induction
<1> QED BY <1>3 DEF Max


-----------------------------------------------------------------------------
(***************************************************************************)
(* What the checker knows of the names in scope is true of the renderer.   *)
(***************************************************************************)

\* A value is what a field of the dictionary says of it.
Plain(v, node) ==
  \/ node = Scalar /\ v = Text
  \/ node = Bool /\ \E b \in BOOLEAN : v = Flag(b)

\* An element of a list, or what stands for a block without one.
Fits(x, fields) ==
  \/ fields = Empty /\ x = Text
  \/ \E f : /\ x = Fields(f) /\ DOMAIN f = DOMAIN fields
            /\ \A h \in DOMAIN fields : h # "." /\ Plain(f[h], fields[h])

Conforms(v, node, h) ==
  \/ Plain(v, node)
  \/ h = "extra" /\ node = Dynamic
  \/ \E fields, e : /\ node = ListOf(fields) /\ v = Values(e)
                    /\ \A i \in DOMAIN e : Fits(e[i], fields)

Named(stack, k, h) == {i \in 1 .. k : h \in DOMAIN stack[i].of}
Held(s, h) == {i \in DOMAIN s : s[i].kind = "dict" /\ h \in DOMAIN s[i].of}

\* In the contexts s every name finds the value that the first k sections promise.
Agrees(stack, k, s) ==
  /\ IsSeq(s) /\ s # <<>> /\ Last(s) # Absent
  /\ \A i \in 1 .. k : stack[i] # Dynamic
  /\ \A h : Named(stack, k, h) # {} =>
       /\ h # "." /\ Held(s, h) # {}
       /\ Conforms(s[Max(Held(s, h))].of[h], stack[Max(Named(stack, k, h))].of[h], h)

LEMMA Kinds ==
  /\ DOMAIN Empty = {}
  /\ Scalar # Dynamic /\ Scalar # Nothing /\ Bool # Dynamic /\ Bool # Nothing /\ Scalar # Bool
  /\ Dynamic # Nothing
  /\ \A f : ListOf(f) # Dynamic /\ ListOf(f) # Nothing /\ ListOf(f) # Scalar /\ ListOf(f) # Bool
  /\ \A f : ListOf(f).of = f /\ Fields(f).of = f /\ Values(f).of = f
  /\ \A f : Fields(f).kind = "dict" /\ Values(f).kind = "list"
  /\ Text.kind = "scalar" /\ Text.of = TRUE /\ Scalar.of = Empty /\ Bool.of = Empty
  /\ \A b \in BOOLEAN : Flag(b).kind = "bool" /\ Flag(b).of = b /\ Flag(b) # Absent
  /\ Text # Absent /\ \A f : Fields(f) # Absent /\ Values(f) # Absent
<1>1. DOMAIN Empty = {}
  BY DEF Empty
<1> QED BY <1>1 DEF Scalar, Bool, Dynamic, Nothing, ListOf, Fields, Values, Text, Flag, Absent

\* The names of a stack are those of its first sections, however it goes on.
LEMMA SameScope ==
  ASSUME NEW stack, NEW other, NEW k \in Nat, \A i \in 1 .. k : stack[i] = other[i],
         NEW s, Agrees(stack, k, s)
  PROVE  Agrees(other, k, s)
<1>1. \A i \in 1 .. k : other[i] # Dynamic
  BY DEF Agrees
<1>2. ASSUME NEW h, Named(other, k, h) # {}
      PROVE  /\ h # "." /\ Held(s, h) # {}
             /\ Conforms(s[Max(Held(s, h))].of[h], other[Max(Named(other, k, h))].of[h], h)
  <2>1. Named(other, k, h) = Named(stack, k, h)
    BY DEF Named
  <2>2. Max(Named(stack, k, h)) \in 1 .. k
    <3>1. Named(stack, k, h) \subseteq 1 .. k
      BY DEF Named
    <3> QED BY <1>2, <2>1, <3>1, MaxIn
  <2>3. other[Max(Named(other, k, h))] = stack[Max(Named(stack, k, h))]
    BY <2>1, <2>2
  <2> QED BY <1>2, <2>1, <2>3 DEF Agrees
<1> QED BY <1>1, <1>2 DEF Agrees

\* A block whose section has fields, and whose context has their values.
LEMMA Pushed ==
  ASSUME NEW stack, IsSeq(stack), NEW s, Agrees(stack, Len(stack), s),
         NEW fields, NEW x, Fits(x, fields)
  PROVE  Agrees(Append(stack, ListOf(fields)), Len(stack) + 1, Append(s, x))
<1> DEFINE k == Len(stack)
           n == Len(s)
           types == Append(stack, ListOf(fields))
           values == Append(s, x)
<1>1. /\ k \in Nat /\ (\A i \in 1 .. k : types[i] = stack[i]) /\ types[k + 1] = ListOf(fields)
  BY Lengths, Appended
<1>2. IsSeq(s) /\ s # <<>> /\ \A i \in 1 .. k : stack[i] # Dynamic
  BY DEF Agrees
<1>3. /\ IsSeq(values) /\ values # <<>> /\ Len(values) = n + 1 /\ Last(values) = x
      /\ (\A i \in 1 .. n : values[i] = s[i]) /\ values[n + 1] = x
  BY <1>2, Appended
<1>4. n \in Nat /\ DOMAIN s = 1 .. n /\ DOMAIN values = 1 .. n + 1
  BY <1>2, <1>3, Lengths
<1>5. x # Absent
  BY Kinds DEF Fits
<1> HIDE DEF k, n, types, values
<1>6. \A i \in 1 .. k + 1 : types[i] # Dynamic
  <2>1. \A i \in 1 .. k + 1 : i = k + 1 \/ i \in 1 .. k
    BY <1>1
  <2> QED BY <1>1, <1>2, <2>1, Kinds
<1>7. ASSUME NEW h, Named(types, k + 1, h) # {}
      PROVE  /\ h # "." /\ Held(values, h) # {}
             /\ Conforms(values[Max(Held(values, h))].of[h],
                         types[Max(Named(types, k + 1, h))].of[h], h)
  <2>1. ListOf(fields).of = fields
    BY Kinds
  <2>2. CASE h \in DOMAIN fields
    <3>1. PICK f : /\ x = Fields(f) /\ DOMAIN f = DOMAIN fields
                   /\ \A g \in DOMAIN fields : g # "." /\ Plain(f[g], fields[g])
      BY <2>2, Kinds DEF Fits
    <3>2. k + 1 \in Named(types, k + 1, h) /\ Named(types, k + 1, h) \subseteq 1 .. k + 1
      BY <1>1, <2>1, <2>2 DEF Named
    <3>3. n + 1 \in Held(values, h) /\ Held(values, h) \subseteq 1 .. n + 1
      BY <1>3, <1>4, <2>2, <3>1, Kinds DEF Held
    <3>4. k + 1 \in Nat /\ n + 1 \in Nat
      BY <1>1, <1>4
    <3>5. Max(Named(types, k + 1, h)) = k + 1
      BY <3>2, <3>4, MaxOf
    <3>6. Max(Held(values, h)) = n + 1
      BY <3>3, <3>4, MaxOf
    <3>7. /\ values[Max(Held(values, h))].of[h] = f[h]
          /\ types[Max(Named(types, k + 1, h))].of[h] = fields[h]
      BY <1>1, <1>3, <2>1, <3>1, <3>5, <3>6, Kinds
    <3> QED BY <2>2, <3>1, <3>3, <3>7 DEF Conforms
  <2>3. CASE h \notin DOMAIN fields
    <3>1. Named(types, k + 1, h) = Named(stack, k, h)
      <4>1. \A i : i \in 1 .. k + 1 <=> i = k + 1 \/ i \in 1 .. k
        BY <1>1
      <4> QED BY <1>1, <2>1, <2>3, <4>1 DEF Named
    <3>2. Max(Named(stack, k, h)) \in 1 .. k
      <4>1. Named(stack, k, h) \subseteq 1 .. k
        BY DEF Named
      <4> QED BY <1>1, <1>7, <3>1, <4>1, MaxIn
    <3>3. /\ h # "." /\ Held(s, h) # {}
          /\ Conforms(s[Max(Held(s, h))].of[h], stack[Max(Named(stack, k, h))].of[h], h)
      BY <1>7, <3>1 DEF Agrees, k
    <3>4. Held(values, h) = Held(s, h)
      <4>1. \A i : i \in 1 .. n + 1 <=> i = n + 1 \/ i \in 1 .. n
        BY <1>4
      <4>2. ~(x.kind = "dict" /\ h \in DOMAIN x.of)
        BY <2>3, Kinds DEF Fits
      <4> QED BY <1>3, <1>4, <4>1, <4>2 DEF Held
    <3>5. Max(Held(s, h)) \in 1 .. n
      <4>1. Held(s, h) \subseteq 1 .. n
        BY <1>4 DEF Held
      <4> QED BY <1>4, <3>3, <4>1, MaxIn
    <3> QED BY <1>1, <1>3, <3>1, <3>2, <3>3, <3>4, <3>5
  <2> QED BY <2>2, <2>3
<1>8. Agrees(types, k + 1, values)
  BY <1>3, <1>5, <1>6, <1>7 DEF Agrees
<1> QED BY <1>8 DEF k, types, values

\* A block whose section names nothing is rendered in the contexts around it.
LEMMA Padded ==
  ASSUME NEW stack, IsSeq(stack), NEW s, Agrees(stack, Len(stack), s)
  PROVE  Agrees(Append(stack, ListOf(Empty)), Len(stack) + 1, s)
<1> DEFINE k == Len(stack)
           types == Append(stack, ListOf(Empty))
<1>1. /\ k \in Nat /\ (\A i \in 1 .. k : types[i] = stack[i]) /\ types[k + 1] = ListOf(Empty)
  BY Lengths, Appended
<1>2. \A i \in 1 .. k : stack[i] # Dynamic
  BY DEF Agrees
<1>3. Agrees(stack, k, s)
  OBVIOUS
<1> HIDE DEF k, types
<1>4. \A i : i \in 1 .. k + 1 <=> i = k + 1 \/ i \in 1 .. k
  BY <1>1
<1>5. \A i \in 1 .. k + 1 : types[i] # Dynamic
  BY <1>1, <1>2, <1>4, Kinds
<1>6. ASSUME NEW h PROVE Named(types, k + 1, h) = Named(types, k, h)
  BY <1>1, <1>4, Kinds DEF Named
<1>7. Agrees(types, k, s)
  BY <1>1, <1>3, SameScope
<1>8. Agrees(types, k + 1, s)
  BY <1>5, <1>6, <1>7 DEF Agrees
<1> QED BY <1>8 DEF k, types

\* A name that the checker resolves is found, and is what its field says.
LEMMA Found ==
  ASSUME NEW stack, IsSeq(stack), NEW s, Agrees(stack, Len(stack), s), NEW name,
         Resolve(name, stack) # Nothing, Head(name) # "extra"
  PROVE  /\ name # <<".">> /\ Resolve(name, stack) # Dynamic
         /\ Conforms(Lookup(name, s), Resolve(name, stack), "")
<1> DEFINE k == Len(stack)
           h == Head(name)
           at == {i \in DOMAIN stack : stack[i] = Dynamic \/ h \in DOMAIN stack[i].of}
           node == stack[Max(at)].of[h]
           v == s[Max(Held(s, h))].of[h]
<1>1. k \in Nat /\ DOMAIN stack = 1 .. k
  BY Lengths
<1>2. \A i \in 1 .. k : stack[i] # Dynamic
  BY DEF Agrees
<1>3. at = Named(stack, k, h)
  BY <1>1, <1>2 DEF Named
<1>4. at # {} /\ (stack[Max(at)] # Dynamic /\ node # Dynamic => Len(name) = 1 /\ Resolve(name, stack) = node)
  BY DEF Resolve
<1>5. Max(at) \in 1 .. k
  <2>1. at \subseteq 1 .. k
    BY <1>1
  <2> HIDE DEF at
  <2> QED BY <1>1, <1>4, <2>1, MaxIn
<1>6. h # "." /\ Held(s, h) # {} /\ Conforms(v, node, h)
  BY <1>3, <1>4 DEF Agrees
<1> HIDE DEF h
<1>7. node # Dynamic
  <2> HIDE DEF node, v
  <2> QED BY <1>6, Kinds DEF Conforms, Plain, h
<1>8. Conforms(v, node, "")
  <2> HIDE DEF node, v
  <2> QED BY <1>6, <1>7 DEF Conforms
<1>9. Len(name) = 1 /\ Resolve(name, stack) = node
  BY <1>2, <1>4, <1>5, <1>7
<1>10. name # <<".">>
  BY <1>6 DEF h
<1>11. Lookup(name, s) = v
  BY <1>6, <1>9, <1>10 DEF Lookup, Held, h
<1> QED BY <1>7, <1>8, <1>9, <1>10, <1>11


-----------------------------------------------------------------------------
(***************************************************************************)
(* Checker and renderer side by side.                                      *)
(***************************************************************************)

\* A block is beside the point, or each of its contexts agrees with the sections open there.
Fine(stack, level, k) ==
  /\ level.beside \in BOOLEAN
  /\ ~level.beside => \A s \in level.stacks : Agrees(stack, k, s)

\* As long as the checker has accepted, the renderer has lost nothing.
Sound(acc, out) ==
  /\ acc = [ok |-> acc.ok, open |-> acc.open, stack |-> acc.stack] /\ acc.ok \in BOOLEAN
  /\ acc.ok =>
       /\ out = [levels |-> out.levels, lost |-> {}]
       /\ IsSeq(acc.open) /\ IsSeq(acc.stack) /\ IsSeq(out.levels)
       /\ Len(acc.stack) = Len(acc.open) + 1 /\ Len(out.levels) = Len(acc.stack)
       /\ \A k \in 1 .. Len(acc.stack) : Fine(acc.stack, out.levels[k], k)

LEMMA FineStays ==
  ASSUME NEW stack, NEW other, NEW k \in Nat, \A i \in 1 .. k : stack[i] = other[i],
         NEW level, Fine(stack, level, k)
  PROVE  Fine(other, level, k)
  BY SameScope DEF Fine

\* The contexts of the block after a # tag.
LEMMA EnteredAgree ==
  ASSUME NEW stack, IsSeq(stack), NEW s, Agrees(stack, Len(stack), s), NEW name,
         Resolve(name, stack) # Nothing, Head(name) # "extra", NEW c \in Entered(name, s)
  PROVE  Agrees(Append(stack, ListOf(Resolve(name, stack).of)), Len(stack) + 1, c)
<1> DEFINE node == Resolve(name, stack)
           v == Lookup(name, s)
<1>1. Conforms(v, node, "")
  BY Found
<1>2. c \in IF v.kind = "list" THEN {Append(s, v.of[i]) : i \in DOMAIN v.of}
            ELSE IF Truthy(v) THEN {Append(s, IF v.kind = "dict" THEN v ELSE Fields(Empty))}
            ELSE {}
  BY DEF Entered
<1> HIDE DEF node, v
<1>3. CASE Plain(v, node)
  <2>1. node.of = Empty /\ v.kind # "list" /\ v.kind # "dict"
    BY <1>3, Kinds DEF Plain
  <2>2. c = Append(s, Fields(Empty))
    BY <1>2, <2>1
  <2>3. Fits(Fields(Empty), Empty)
    BY Kinds DEF Fits
  <2> QED BY <2>1, <2>2, <2>3, Pushed DEF node
<1>4. CASE ~Plain(v, node)
  <2>1. PICK fields, e : /\ node = ListOf(fields) /\ v = Values(e)
                         /\ \A i \in DOMAIN e : Fits(e[i], fields)
    BY <1>1, <1>4 DEF Conforms
  <2>2. PICK i \in DOMAIN e : c = Append(s, e[i])
    BY <1>2, <2>1, Kinds
  <2>3. node.of = fields /\ Fits(e[i], fields)
    BY <2>1, Kinds
  <2> QED BY <2>2, <2>3, Pushed DEF node
<1> QED BY <1>3, <1>4

\* The contexts of the block after a ^ tag on what is no list.
LEMMA SkippedAgree ==
  ASSUME NEW stack, IsSeq(stack), NEW s, Agrees(stack, Len(stack), s), NEW name,
         Resolve(name, stack) # Nothing, Head(name) # "extra", Lookup(name, s).kind # "list"
  PROVE  Agrees(Append(stack, ListOf(Resolve(name, stack).of)), Len(stack) + 1, s)
<1>1. Conforms(Lookup(name, s), Resolve(name, stack), "")
  BY Found
<1>2. Plain(Lookup(name, s), Resolve(name, stack))
  BY <1>1, Kinds DEF Conforms
<1>3. Resolve(name, stack).of = Empty
  BY <1>2, Kinds DEF Plain
<1> QED BY <1>3, Padded

LEMMA LevelsChange ==
  ASSUME NEW out, NEW old, out = [levels |-> old, lost |-> {}], NEW new
  PROVE  [out EXCEPT !.levels = new] = [levels |-> new, lost |-> {}]
  OBVIOUS

\* A section opens: one more frame for the checker, one more level for the renderer.
LEMMA Opens ==
  ASSUME NEW acc, NEW out, Sound(acc, out), acc.ok, NEW name, NEW section, NEW level,
         Fine(Append(acc.stack, section), level, Len(acc.stack) + 1)
  PROVE  Sound([ok |-> TRUE, open |-> Append(acc.open, name), stack |-> Append(acc.stack, section)],
               [out EXCEPT !.levels = Append(@, level)])
<1> DEFINE stack == Append(acc.stack, section)
           levels == Append(out.levels, level)
           k == Len(acc.stack)
<1>1. /\ out = [levels |-> out.levels, lost |-> {}]
      /\ IsSeq(acc.open) /\ IsSeq(acc.stack) /\ IsSeq(out.levels)
      /\ k = Len(acc.open) + 1 /\ Len(out.levels) = k
      /\ \A i \in 1 .. k : Fine(acc.stack, out.levels[i], i)
  BY DEF Sound
<1>2. /\ IsSeq(Append(acc.open, name)) /\ Len(Append(acc.open, name)) = Len(acc.open) + 1
      /\ IsSeq(stack) /\ Len(stack) = k + 1 /\ IsSeq(levels) /\ Len(levels) = k + 1
      /\ \A i \in 1 .. k : stack[i] = acc.stack[i] /\ levels[i] = out.levels[i]
      /\ levels[k + 1] = level /\ k \in Nat
  BY <1>1, Appended, Lengths
<1>3. Fine(stack, level, k + 1)
  OBVIOUS
<1>4. [out EXCEPT !.levels = Append(@, level)] = [levels |-> levels, lost |-> {}]
  BY <1>1, LevelsChange
<1> HIDE DEF stack, levels, k
<1>5. ASSUME NEW i \in 1 .. k + 1 PROVE Fine(stack, levels[i], i)
  <2>1. CASE i = k + 1
    BY <1>2, <1>3, <2>1
  <2>2. CASE i # k + 1
    <3>1. i \in 1 .. k /\ i \in Nat /\ \A j \in 1 .. i : j \in 1 .. k
      BY <1>2, <2>2
    <3>2. Fine(acc.stack, levels[i], i) /\ \A j \in 1 .. i : acc.stack[j] = stack[j]
      BY <1>1, <1>2, <3>1
    <3> QED BY <3>1, <3>2, FineStays
  <2> QED BY <2>1, <2>2
<1>6. Sound([ok |-> TRUE, open |-> Append(acc.open, name), stack |-> stack],
            [levels |-> levels, lost |-> {}])
  BY <1>1, <1>2, <1>5 DEF Sound
<1> QED BY <1>4, <1>6 DEF stack

\* The innermost section closes.
LEMMA Closes ==
  ASSUME NEW acc, NEW out, Sound(acc, out), acc.ok, acc.open # <<>>
  PROVE  Sound([ok |-> TRUE, open |-> Front(acc.open), stack |-> Front(acc.stack)],
               [out EXCEPT !.levels = Front(@)])
<1> DEFINE stack == Front(acc.stack)
           levels == Front(out.levels)
           k == Len(acc.open)
<1>1. /\ out = [levels |-> out.levels, lost |-> {}]
      /\ IsSeq(acc.open) /\ IsSeq(acc.stack) /\ IsSeq(out.levels)
      /\ Len(acc.stack) = k + 1 /\ Len(out.levels) = k + 1
      /\ \A i \in 1 .. k + 1 : Fine(acc.stack, out.levels[i], i)
  BY DEF Sound
<1>2. k \in Nat /\ k # 0 /\ acc.stack # <<>> /\ out.levels # <<>>
  BY <1>1, Lengths
<1>3. /\ IsSeq(Front(acc.open)) /\ Len(Front(acc.open)) = k - 1
      /\ IsSeq(stack) /\ Len(stack) = Len(acc.stack) - 1
      /\ IsSeq(levels) /\ Len(levels) = Len(out.levels) - 1
      /\ \A i \in 1 .. Len(acc.stack) - 1 : stack[i] = acc.stack[i]
      /\ \A i \in 1 .. Len(out.levels) - 1 : levels[i] = out.levels[i]
  BY <1>1, <1>2, Fronted
<1>4. [out EXCEPT !.levels = Front(@)] = [levels |-> levels, lost |-> {}]
  BY <1>1, LevelsChange
<1> HIDE DEF stack, levels, k
<1>5. /\ Len(stack) = k /\ Len(levels) = k /\ Len(Front(acc.open)) + 1 = k
      /\ \A i \in 1 .. k : stack[i] = acc.stack[i] /\ levels[i] = out.levels[i] /\ i \in 1 .. k + 1
  BY <1>1, <1>2, <1>3
<1>6. ASSUME NEW i \in 1 .. k PROVE Fine(stack, levels[i], i)
  <2>1. i \in Nat /\ \A j \in 1 .. i : j \in 1 .. k
    BY <1>2
  <2>2. Fine(acc.stack, levels[i], i) /\ \A j \in 1 .. i : acc.stack[j] = stack[j]
    BY <1>1, <1>5, <2>1
  <2> QED BY <2>1, <2>2, FineStays
<1>7. Sound([ok |-> TRUE, open |-> Front(acc.open), stack |-> stack],
            [levels |-> levels, lost |-> {}])
  BY <1>3, <1>5, <1>6 DEF Sound
<1> QED BY <1>4, <1>7 DEF stack

\* A reference that the checker accepts is found in every context of its block.
LEMMA Refers ==
  ASSUME NEW acc, NEW out, Sound(acc, out), acc.ok, NEW t, t.tag = "var", Check(acc, t).ok
  PROVE  Sound(Check(acc, t), Render(out, t))
<1> DEFINE level == Last(out.levels)
           k == Len(acc.stack)
<1>1. IsSeq(acc.stack) /\ Fine(acc.stack, level, k)
  <2>1. /\ IsSeq(acc.stack) /\ IsSeq(acc.open) /\ Len(acc.stack) = Len(acc.open) + 1
        /\ Len(out.levels) = k /\ \A i \in 1 .. k : Fine(acc.stack, out.levels[i], i)
    BY DEF Sound
  <2>2. k \in 1 .. k
    BY <2>1, Lengths
  <2> QED BY <2>1, <2>2 DEF Last
<1>2. Check(acc, t) = [acc EXCEPT !.ok = IF IsDot(t) THEN acc.open # <<>>
                                         ELSE Resolve(t.name, acc.stack) # Nothing]
  BY DEF Check
<1>3. acc = [ok |-> TRUE, open |-> acc.open, stack |-> acc.stack]
  BY DEF Sound
<1>4. (IsDot(t) \/ Resolve(t.name, acc.stack) # Nothing) /\ Check(acc, t) = acc
  BY <1>2, <1>3
<1> HIDE DEF level
<1>5. level.beside \/ Head(t.name) = "extra" \/ \A s \in level.stacks : Lookup(t.name, s) # Absent
  <2> SUFFICES ASSUME ~level.beside, Head(t.name) # "extra", NEW s \in level.stacks
               PROVE  Lookup(t.name, s) # Absent
    OBVIOUS
  <2>1. Agrees(acc.stack, k, s)
    BY <1>1 DEF Fine
  <2>2. CASE IsDot(t)
    BY <2>1, <2>2 DEF IsDot, Lookup, Agrees
  <2>3. CASE ~IsDot(t)
    <3>1. /\ Conforms(Lookup(t.name, s), Resolve(t.name, acc.stack), "")
      BY <1>1, <1>4, <2>1, <2>3, Found
    <3> QED BY <3>1, Kinds DEF Conforms, Plain
  <2> QED BY <2>2, <2>3
<1>6. Render(out, t) = out
  BY <1>5 DEF Render, level
<1> QED BY <1>4, <1>6

\* What the checker makes of the tag that opens a section.
LEMMA OpensRecord ==
  ASSUME NEW acc, acc.ok, NEW t, t.tag \in {"#", "^"}
  PROVE  LET node == Resolve(t.name, acc.stack)
             section == IF node = Dynamic THEN Dynamic ELSE ListOf(node.of)
         IN  Check(acc, t) = [ok |-> node # Nothing, open |-> Append(acc.open, t.name),
                              stack |-> Append(acc.stack, section)]
<1> DEFINE node == Resolve(t.name, acc.stack)
           section == IF node = Dynamic THEN Dynamic ELSE ListOf(node.of)
<1>1. CASE t.tag = "#"
  BY <1>1 DEF Check
<1>2. CASE t.tag = "^"
  BY <1>2 DEF Check
<1> QED BY <1>1, <1>2

\* A section that the checker accepts agrees with its block.
LEMMA Enters ==
  ASSUME NEW acc, NEW out, Sound(acc, out), acc.ok, NEW t, t.tag \in {"#", "^"},
         Check(acc, t).ok
  PROVE  Sound(Check(acc, t), Render(out, t))
<1> DEFINE old == Last(out.levels)
           k == Len(acc.stack)
           node == Resolve(t.name, acc.stack)
           section == IF node = Dynamic THEN Dynamic ELSE ListOf(node.of)
           extra == Head(t.name) = "extra"
           inside == [stacks |-> UNION {Entered(t.name, s) : s \in old.stacks},
                      beside |-> old.beside \/ extra]
           without == [stacks |-> {s \in old.stacks : ~Truthy(Lookup(t.name, s))},
                       beside |-> old.beside \/ extra
                                    \/ \E s \in old.stacks : Lookup(t.name, s).kind = "list"]
<1>1. IsSeq(acc.stack) /\ Fine(acc.stack, old, k)
  <2>1. /\ IsSeq(acc.stack) /\ IsSeq(acc.open) /\ Len(acc.stack) = Len(acc.open) + 1
        /\ Len(out.levels) = k /\ \A i \in 1 .. k : Fine(acc.stack, out.levels[i], i)
    BY DEF Sound
  <2>2. k \in 1 .. k
    BY <2>1, Lengths
  <2> QED BY <2>1, <2>2 DEF Last
<1>2. Check(acc, t) = [ok |-> node # Nothing, open |-> Append(acc.open, t.name),
                       stack |-> Append(acc.stack, section)]
  BY OpensRecord
<1>3. node # Nothing
  <2> HIDE DEF node, section
  <2>1. ASSUME node = Nothing PROVE FALSE
    <3>1. (node # Nothing) = FALSE
      BY <2>1
    <3>2. Check(acc, t) = [ok |-> FALSE, open |-> Append(acc.open, t.name),
                           stack |-> Append(acc.stack, section)]
      BY <1>2, <3>1
    <3> QED BY <3>2
  <2> QED BY <2>1
<1>4. Check(acc, t) = [ok |-> TRUE, open |-> Append(acc.open, t.name),
                       stack |-> Append(acc.stack, section)]
  BY <1>2, <1>3
<1> HIDE DEF old
<1>5. CASE t.tag = "#"
  <2>1. Fine(Append(acc.stack, section), inside, k + 1)
    <3>1. inside.beside \in BOOLEAN
      OBVIOUS
    <3>2. ASSUME ~inside.beside, NEW c \in inside.stacks
          PROVE  Agrees(Append(acc.stack, section), k + 1, c)
      <4>1. ~old.beside /\ Head(t.name) # "extra"
        BY <3>2
      <4>2. PICK s \in old.stacks : c \in Entered(t.name, s)
        BY <3>2
      <4>3. Agrees(acc.stack, k, s)
        BY <1>1, <4>1 DEF Fine
      <4>4. node # Dynamic
        BY <1>1, <1>3, <4>1, <4>3, Found
      <4>5. Agrees(Append(acc.stack, ListOf(node.of)), k + 1, c)
        BY <1>1, <1>3, <4>1, <4>2, <4>3, EnteredAgree
      <4> QED BY <4>4, <4>5
    <3> HIDE DEF inside, section
    <3> QED BY <3>1, <3>2 DEF Fine
  <2>2. Render(out, t) = [out EXCEPT !.levels = Append(@, inside)]
    BY <1>5 DEF Render, old
  <2> HIDE DEF inside, section
  <2>3. Sound([ok |-> TRUE, open |-> Append(acc.open, t.name), stack |-> Append(acc.stack, section)],
              [out EXCEPT !.levels = Append(@, inside)])
    BY <2>1, Opens
  <2> QED BY <1>4, <2>2, <2>3
<1>6. CASE t.tag = "^"
  <2>1. Fine(Append(acc.stack, section), without, k + 1)
    <3>1. without.beside \in BOOLEAN
      BY <1>1 DEF Fine
    <3>2. ASSUME ~without.beside, NEW s \in without.stacks
          PROVE  Agrees(Append(acc.stack, section), k + 1, s)
      <4>1. /\ ~old.beside /\ Head(t.name) # "extra" /\ s \in old.stacks
            /\ Lookup(t.name, s).kind # "list"
        BY <3>2
      <4>2. Agrees(acc.stack, k, s)
        BY <1>1, <4>1 DEF Fine
      <4>3. node # Dynamic
        BY <1>1, <1>3, <4>1, <4>2, Found
      <4>4. Agrees(Append(acc.stack, ListOf(node.of)), k + 1, s)
        BY <1>1, <1>3, <4>1, <4>2, SkippedAgree
      <4> QED BY <4>3, <4>4
    <3> HIDE DEF without, section
    <3> QED BY <3>1, <3>2 DEF Fine
  <2>2. Render(out, t) = [out EXCEPT !.levels = Append(@, without)]
    BY <1>6 DEF Render, old
  <2> HIDE DEF without, section
  <2>3. Sound([ok |-> TRUE, open |-> Append(acc.open, t.name), stack |-> Append(acc.stack, section)],
              [out EXCEPT !.levels = Append(@, without)])
    BY <2>1, Opens
  <2> QED BY <1>4, <2>2, <2>3
<1> QED BY <1>5, <1>6

LEMMA TurnSound ==
  ASSUME NEW acc, NEW out, Sound(acc, out), NEW t, t.tag \in {"var", "#", "^", "/"}
  PROVE  Sound(Check(acc, t), Render(out, t))
<1>1. acc = [ok |-> acc.ok, open |-> acc.open, stack |-> acc.stack] /\ acc.ok \in BOOLEAN
  BY DEF Sound
<1>2. CASE ~acc.ok
  <2>1. Check(acc, t) = acc
    BY <1>2 DEF Check
  <2> QED BY <1>1, <1>2, <2>1 DEF Sound
<1>3. CASE acc.ok /\ ~Check(acc, t).ok
  <2>1. /\ Check(acc, t) = [ok |-> Check(acc, t).ok, open |-> Check(acc, t).open,
                            stack |-> Check(acc, t).stack]
        /\ Check(acc, t).ok \in BOOLEAN
    <3>1. CASE t.tag = "var"
      <4>1. Check(acc, t) = [acc EXCEPT !.ok = IF IsDot(t) THEN acc.open # <<>>
                                         ELSE Resolve(t.name, acc.stack) # Nothing]
        BY <1>3, <3>1 DEF Check
      <4>2. ASSUME NEW b \in BOOLEAN
            PROVE  [acc EXCEPT !.ok = b] = [ok |-> b, open |-> acc.open, stack |-> acc.stack]
        BY <1>1
      <4>3. (IF IsDot(t) THEN acc.open # <<>> ELSE Resolve(t.name, acc.stack) # Nothing) \in BOOLEAN
        OBVIOUS
      <4> HIDE DEF IsDot
      <4>4. PICK b \in BOOLEAN : Check(acc, t) = [acc EXCEPT !.ok = b]
        BY <4>1, <4>3
      <4>5. Check(acc, t) = [ok |-> b, open |-> acc.open, stack |-> acc.stack]
        BY <4>2, <4>4
      <4> QED BY <4>5
    <3>2. CASE t.tag \in {"#", "^"}
      <4> DEFINE node == Resolve(t.name, acc.stack)
                 section == IF node = Dynamic THEN Dynamic ELSE ListOf(node.of)
      <4>1. Check(acc, t) = [ok |-> node # Nothing, open |-> Append(acc.open, t.name),
                             stack |-> Append(acc.stack, section)]
        BY <1>3, <3>2, OpensRecord
      <4> HIDE DEF node, section
      <4>2. (node # Nothing) \in BOOLEAN
        OBVIOUS
      <4> QED BY <4>1, <4>2
    <3>3. CASE t.tag = "/"
      <4>1. Check(acc, t) = IF acc.open = <<>> \/ Last(acc.open) # t.name
                            THEN [acc EXCEPT !.ok = FALSE]
                            ELSE [ok |-> TRUE, open |-> Front(acc.open), stack |-> Front(acc.stack)]
        BY <1>3, <3>3 DEF Check
      <4>2. Check(acc, t) = [acc EXCEPT !.ok = FALSE]
        BY <1>3, <4>1
      <4>3. Check(acc, t) = [ok |-> FALSE, open |-> acc.open, stack |-> acc.stack]
        BY <1>1, <4>2
      <4> QED BY <4>3
    <3> QED BY <3>1, <3>2, <3>3
  <2> QED BY <1>3, <2>1 DEF Sound
<1>4. CASE acc.ok /\ Check(acc, t).ok
  <2>1. CASE t.tag = "var"
    BY <1>4, <2>1, Refers
  <2>2. CASE t.tag \in {"#", "^"}
    BY <1>4, <2>2, Enters
  <2>3. CASE t.tag = "/"
    <3>1. Check(acc, t) = IF acc.open = <<>> \/ Last(acc.open) # t.name
                          THEN [acc EXCEPT !.ok = FALSE]
                          ELSE [ok |-> TRUE, open |-> Front(acc.open), stack |-> Front(acc.stack)]
      BY <1>4, <2>3 DEF Check
    <3>2. /\ acc.open # <<>>
          /\ Check(acc, t) = [ok |-> TRUE, open |-> Front(acc.open), stack |-> Front(acc.stack)]
      BY <1>1, <1>4, <3>1
    <3>3. Render(out, t) = [out EXCEPT !.levels = Front(@)]
      BY <2>3 DEF Render
    <3> QED BY <1>4, <3>2, <3>3, Closes
  <2> QED BY <2>1, <2>2, <2>3
<1> QED BY <1>1, <1>2, <1>3, <1>4

\* A report with lists of any length.
Item(b) == Fields([text |-> Text, answer |-> Text, needs_review |-> Flag(b)])
Objection(b) == Fields([text |-> Text, category |-> Text, cleared |-> Flag(b)])
Whole(report) ==
  /\ \A i \in DOMAIN report.strengths : report.strengths[i] = Text
  /\ \A i \in DOMAIN report.items : \E b \in BOOLEAN : report.items[i] = Item(b)
  /\ \A i \in DOMAIN report.objections : \E b \in BOOLEAN : report.objections[i] = Objection(b)

LEMMA ReportsWhole ==
  ASSUME NEW report \in Report
  PROVE  Whole(report)
<1>1. /\ report.strengths \in {<<>>, <<Text>>}
      /\ report.items \in {<<>>, <<Item(TRUE), Item(FALSE)>>}
      /\ report.objections \in {<<>>, <<Objection(TRUE)>>, <<Objection(FALSE)>>}
  BY DEF Report, Item, Objection
<1>2. \A i \in DOMAIN report.strengths : report.strengths[i] = Text
  BY <1>1
<1>3. \A i \in DOMAIN report.items : \E b \in BOOLEAN : report.items[i] = Item(b)
  <2>1. CASE report.items = <<>>
    BY <2>1
  <2>2. CASE report.items = <<Item(TRUE), Item(FALSE)>>
    <3>1. /\ DOMAIN report.items = {1, 2}
          /\ report.items[1] = Item(TRUE) /\ report.items[2] = Item(FALSE)
      BY <2>2
    <3> QED BY <3>1
  <2> QED BY <1>1, <2>1, <2>2
<1>4. \A i \in DOMAIN report.objections : \E b \in BOOLEAN : report.objections[i] = Objection(b)
  <2>1. ASSUME NEW b \in BOOLEAN, report.objections = <<Objection(b)>>
        PROVE  \A i \in DOMAIN report.objections : report.objections[i] = Objection(b)
    BY <2>1
  <2>2. CASE report.objections = <<>>
    BY <2>2
  <2> QED BY <1>1, <2>1, <2>2
<1> QED BY <1>2, <1>3, <1>4 DEF Whole

LEMMA StartSound ==
  ASSUME NEW report, Whole(report)
  PROVE  Sound([ok |-> TRUE, open |-> <<>>, stack |-> <<ListOf(DataFields)>>],
               [levels |-> <<[stacks |-> {<<BuildContext(report)>>}, beside |-> FALSE]>>,
                lost |-> {}])
<1> DEFINE root == ListOf(DataFields)
           context == BuildContext(report)
           f == context.of
<1>1. context = Fields(f) /\ root.of = DataFields /\ root # Dynamic
  BY Kinds DEF BuildContext
<1>2. DOMAIN f = DOMAIN DataFields
  BY Kinds DEF BuildContext, DataFields
<1>3. \A h \in DOMAIN DataFields : h # "." /\ Conforms(f[h], DataFields[h], h)
  <2>1. Conforms(f["summary"], DataFields["summary"], "summary")
    BY Kinds DEF BuildContext, DataFields, Conforms, Plain
  <2>2. Conforms(f["has_objections"], DataFields["has_objections"], "has_objections")
    <3>1. (report.objections # <<>>) \in BOOLEAN
      OBVIOUS
    <3>2. f["has_objections"] = Flag(report.objections # <<>>) /\ DataFields["has_objections"] = Bool
      BY Kinds DEF BuildContext, DataFields
    <3> HIDE DEF f
    <3>3. Plain(f["has_objections"], DataFields["has_objections"])
      BY <3>1, <3>2 DEF Plain
    <3> QED BY <3>3 DEF Conforms
  <2>3. Conforms(f["strengths"], DataFields["strengths"], "strengths")
    <3>2. \A i \in DOMAIN report.strengths : Fits(report.strengths[i], Empty)
      BY DEF Whole, Fits
    <3>3. f["strengths"] = Values(report.strengths) /\ DataFields["strengths"] = ListOf(Empty)
      BY Kinds DEF BuildContext, DataFields
    <3> QED BY <3>2, <3>3 DEF Conforms
  <2>4. Conforms(f["items"], DataFields["items"], "items")
    <3> DEFINE fields == [text |-> Scalar, answer |-> Scalar, needs_review |-> Bool]
    <3>1. \A b \in BOOLEAN : Fits(Item(b), fields)
      BY DEF Fits, Plain, Item
    <3>2. \A i \in DOMAIN report.items : Fits(report.items[i], fields)
      <4> HIDE DEF fields
      <4> QED BY <3>1 DEF Whole
    <3>3. f["items"] = Values(report.items) /\ DataFields["items"] = ListOf(fields)
      BY Kinds DEF BuildContext, DataFields
    <3> HIDE DEF fields
    <3> QED BY <3>2, <3>3 DEF Conforms
  <2>5. Conforms(f["objections"], DataFields["objections"], "objections")
    <3> DEFINE fields == [text |-> Scalar, category |-> Scalar, cleared |-> Bool]
    <3>1. \A b \in BOOLEAN : Fits(Objection(b), fields)
      BY DEF Fits, Plain, Objection
    <3>2. \A i \in DOMAIN report.objections : Fits(report.objections[i], fields)
      <4> HIDE DEF fields
      <4> QED BY <3>1 DEF Whole
    <3>3. f["objections"] = Values(report.objections) /\ DataFields["objections"] = ListOf(fields)
      BY Kinds DEF BuildContext, DataFields
    <3> HIDE DEF fields
    <3> QED BY <3>2, <3>3 DEF Conforms
  <2>6. Conforms(f["extra"], DataFields["extra"], "extra")
    BY DEF DataFields, Conforms
  <2> HIDE DEF f
  <2> QED BY <2>1, <2>2, <2>3, <2>4, <2>5, <2>6 DEF DataFields
<1> HIDE DEF context, root, f
<1>4. Agrees(<<root>>, 1, <<context>>)
  <2>1. IsSeq(<<context>>) /\ <<context>> # <<>> /\ Last(<<context>>) = context
    <3>1. <<context>> \in Seq({context})
      OBVIOUS
    <3> QED BY <3>1 DEF IsSeq, Last
  <2>2. 1 .. 1 = {1} /\ DOMAIN <<context>> = {1}
    OBVIOUS
  <2>3. context # Absent
    BY <1>1, Kinds
  <2>4. ASSUME NEW h, Named(<<root>>, 1, h) # {}
        PROVE  /\ h # "." /\ Held(<<context>>, h) # {}
               /\ Conforms(<<context>>[Max(Held(<<context>>, h))].of[h],
                           <<root>>[Max(Named(<<root>>, 1, h))].of[h], h)
    <3>1. h \in DOMAIN DataFields
      BY <1>1, <2>2, <2>4 DEF Named
    <3>2. Named(<<root>>, 1, h) = {1} /\ Held(<<context>>, h) = {1}
      BY <1>1, <1>2, <2>2, <3>1, Kinds DEF Named, Held
    <3>3. Max({1}) = 1
      BY MaxOf
    <3>4. context.of = f
      BY DEF f
    <3> QED BY <1>1, <1>3, <3>1, <3>2, <3>3, <3>4
  <2> QED BY <1>1, <2>1, <2>2, <2>3, <2>4 DEF Agrees
<1> DEFINE level == [stacks |-> {<<context>>}, beside |-> FALSE]
<1>5. Fine(<<root>>, level, 1)
  BY <1>4 DEF Fine
<1> HIDE DEF level
<1>6. Sound([ok |-> TRUE, open |-> <<>>, stack |-> <<root>>], [levels |-> <<level>>, lost |-> {}])
  <2> DEFINE acc == [ok |-> TRUE, open |-> <<>>, stack |-> <<root>>]
             out == [levels |-> <<level>>, lost |-> {}]
  <2>1. <<root>> \in Seq({root}) /\ <<level>> \in Seq({level}) /\ <<>> \in Seq({root})
    OBVIOUS
  <2>2. IsSeq(acc.open) /\ IsSeq(acc.stack) /\ IsSeq(out.levels)
    BY <2>1 DEF IsSeq
  <2>3. Len(acc.open) = 0 /\ Len(acc.stack) = 1 /\ Len(out.levels) = 1 /\ 1 .. 1 = {1}
    OBVIOUS
  <2>4. acc.stack = <<root>> /\ out.levels[1] = level
    OBVIOUS
  <2>5. \A k \in 1 .. Len(acc.stack) : Fine(acc.stack, out.levels[k], k)
    BY <1>5, <2>3, <2>4
  <2>6. /\ acc = [ok |-> acc.ok, open |-> acc.open, stack |-> acc.stack] /\ acc.ok \in BOOLEAN
        /\ out = [levels |-> out.levels, lost |-> {}]
    OBVIOUS
  <2>7. Len(acc.stack) = Len(acc.open) + 1 /\ Len(out.levels) = Len(acc.stack)
    BY <2>3
  <2> HIDE DEF acc, out
  <2>8. Sound(acc, out)
    BY <2>2, <2>5, <2>6, <2>7 DEF Sound
  <2> QED BY <2>8 DEF acc, out
<1> QED BY <1>6 DEF level, root, context

\* What validate_template accepts, render_template shows in full: outside the blocks of empty
\* lists and of "extra" every reference finds a value, however long the template and the
\* lists of the report are, however deep the sections nest.
THEOREM CheckedRendersInFull ==
  ASSUME NEW template, IsSeq(template),
         \A i \in DOMAIN template : template[i].tag \in {"var", "#", "^", "/"},
         Valid(template), NEW report, Whole(report)
  PROVE  Lost(template, report) = {}
<1> DEFINE n == Len(template)
           acc == [ok |-> TRUE, open |-> <<>>, stack |-> <<ListOf(DataFields)>>]
           out == [levels |-> <<[stacks |-> {<<BuildContext(report)>>}, beside |-> FALSE]>>,
                   lost |-> {}]
<1>1. n \in Nat /\ DOMAIN template = 1 .. n
  BY Lengths
<1>2. Sound(acc, out)
  BY StartSound
<1>3. CheckAll(acc, template).ok /\ Lost(template, report) = RenderAll(out, template).lost
  BY DEF Valid, Lost, CheckAll, RenderAll
<1> HIDE DEF acc, out, n
<1>4. PICK c : /\ c[0] = acc /\ c[n] = CheckAll(acc, template)
               /\ \A k \in 1 .. n : c[k] = Check(c[k - 1], template[k])
  BY <1>1, <1>3, CheckRun
<1>5. PICK r : /\ r[0] = out /\ r[n] = RenderAll(out, template)
               /\ \A k \in 1 .. n : r[k] = Render(r[k - 1], template[k])
  BY <1>1, <1>3, RenderRun
<1> DEFINE T == {k \in Nat : k <= n => Sound(c[k], r[k])}
<1>6. 0 \in T
  BY <1>2, <1>4, <1>5
<1>7. ASSUME NEW k \in Nat, k \in T PROVE k + 1 \in T
  <2>1. CASE k + 1 <= n
    <3>1. k + 1 \in 1 .. n /\ k + 1 - 1 = k /\ k <= n
      BY <1>1, <2>1
    <3>2. Sound(c[k], r[k]) /\ template[k + 1].tag \in {"var", "#", "^", "/"}
      BY <1>1, <1>7, <3>1
    <3>3. Sound(c[k + 1], r[k + 1])
      BY <1>4, <1>5, <3>1, <3>2, TurnSound
    <3> QED BY <3>3
  <2>2. CASE ~(k + 1 <= n)
    BY <2>2
  <2> QED BY <2>1, <2>2
<1>8. n \in T
  <2> HIDE DEF T
  <2> QED BY <1>1, <1>6, <1>7, Induction
<1>9. Sound(c[n], r[n])
  BY <1>1, <1>8
<1>10. r[n] = [levels |-> r[n].levels, lost |-> {}]
  BY <1>3, <1>4, <1>9 DEF Sound
<1>11. r[n].lost = {}
  BY <1>10
<1> QED BY <1>3, <1>5, <1>11

-----------------------------------------------------------------------------
(***************************************************************************)
(* The templates that can be written, and those that folders show.         *)
(***************************************************************************)

\* A template the upload accepted, whichever one a folder shows and whatever was created,
\* activated and deleted before, has a value for each of its references (TemplateFound).
THEOREM TemplatesFindAll == Spec => []TemplateFound
<1>1. ASSUME NEW t \in Template, Valid(t), NEW report \in Report
      PROVE  Lost(t, report) = {}
  <2>1. PICK m \in 0 .. MaxTags : t \in [1 .. m -> Tags]
    BY DEF Template, BoundedSeq, SeqOf
  <2>2. t \in Seq(Tags) /\ \A i \in DOMAIN t : t[i] \in Tags
    BY <2>1
  <2>3. IsSeq(t) /\ \A i \in DOMAIN t : t[i].tag \in {"var", "#", "^", "/"}
    BY <2>2, TemplatesAssumption DEF IsSeq
  <2> QED BY <1>1, <2>3, ReportsWhole, CheckedRendersInFull
<1>2. Unfound = {}
  BY <1>1 DEF Unfound, Accepted
<1>3. ASSUME NEW t \in SoundDrafts PROVE t \notin Gappy
  <2>1. t \in Drafts /\ Valid(t)
    BY DEF SoundDrafts
  <2>2. t \in Seq(Range(t)) /\ \A i \in DOMAIN t : t[i].tag \in {"var", "#", "^", "/"}
    BY <2>1, ScopedConfigAssumption DEF Range
  <2>3. IsSeq(t)
    BY <2>2 DEF IsSeq
  <2>4. \A report \in Report : Lost(t, report) = {}
    BY <2>1, <2>2, <2>3, ReportsWhole, CheckedRendersInFull
  <2> QED BY <2>4 DEF Gappy
<1>4. TemplateFound
  BY <1>2, <1>3 DEF TemplateFound, RenderHtml
<1> QED BY <1>4, PTL
=============================================================================
