--------------------------- MODULE FlattenProofs ---------------------------
(***************************************************************************)
(* What FlattenSeq makes of a sequence of sequences: the channel of the    *)
(* relay is one of chunks, and Proxy speaks of the units in it.            *)
(***************************************************************************)
EXTENDS SequencesExt, SequenceTheorems, WellFoundedInduction, TLAPS

\* Concatenation under a name of its own, for the provers to leave whole.
Cat(x, y) == x \o y

LEMMA CatTyped == \A T : \A x, y \in Seq(T) : Cat(x, y) \in Seq(T)
  BY DEF Cat

LEMMA CatJoins == \A T : \A x, y, z \in Seq(T) : Cat(Cat(x, y), z) = Cat(x, Cat(y, z))
<1> SUFFICES ASSUME NEW T, NEW x \in Seq(T), NEW y \in Seq(T), NEW z \in Seq(T)
             PROVE  (x \o y) \o z = x \o (y \o z)
  BY DEF Cat
<1> QED
  BY ConcatAssociative

LEMMA CatEmpty == \A T : \A x \in Seq(T) : Cat(x, <<>>) = x /\ Cat(<<>>, x) = x
  BY ConcatEmptySeq DEF Cat

LEMMA Joined ==
  ASSUME NEW T, NEW x \in Seq(T), NEW y \in Seq(T)
  PROVE  /\ x \o y \in Seq(T) /\ Len(x) \in Nat /\ Len(y) \in Nat
         /\ Len(x \o y) = Len(x) + Len(y)
         /\ \A i \in 1..Len(x) : (x \o y)[i] = x[i]
         /\ \A i \in 1..Len(y) : (x \o y)[Len(x) + i] = y[i]
  BY ConcatProperties, LenProperties

\* A sequence cut in two.
LEMMA Cuts ==
  ASSUME NEW T, NEW s \in Seq(T), NEW n \in 0..Len(s)
  PROVE  /\ SubSeq(s, 1, n) \in Seq(T) /\ SubSeq(s, n + 1, Len(s)) \in Seq(T)
         /\ SubSeq(s, 1, n) \o SubSeq(s, n + 1, Len(s)) = s
         /\ n = Len(s) => SubSeq(s, 1, n) = s /\ SubSeq(s, n + 1, Len(s)) = <<>>
<1>1. Len(s) \in Nat /\ \A i \in 1..Len(s) : s[i] \in T
  BY LenProperties, ElementOfSeq
<1>2. SubSeq(s, 1, n) \in Seq(T) /\ SubSeq(s, n + 1, Len(s)) \in Seq(T)
  BY <1>1, SubSeqProperties
<1>3. SubSeq(s, 1, n) \o SubSeq(s, n + 1, Len(s)) = s
  <2>1. 1 \in 1..(Len(s) + 1) /\ n \in (1 - 1)..Len(s) /\ Len(s) \in n..Len(s)
    BY <1>1
  <2>2. SubSeq(s, 1, n) \o SubSeq(s, n + 1, Len(s)) = SubSeq(s, 1, Len(s))
    BY <2>1, ConcatAdjacentSubSeq
  <2> QED
    BY <2>2, SubSeqFull
<1>4. SubSeq(s, 1, Len(s)) = s /\ SubSeq(s, Len(s) + 1, Len(s)) = <<>>
  BY <1>1, SubSeqFull, SubSeqEmpty
<1> QED
  BY <1>2, <1>3, <1>4

\* The head of a concatenation.
LEMMA JoinedHead ==
  ASSUME NEW T, NEW x \in Seq(T), NEW y \in Seq(T), x # <<>>
  PROVE  x \o y # <<>> /\ (x \o y)[1] = Head(x) /\ Tail(x \o y) = Tail(x) \o y
<1>1. /\ x \o y \in Seq(T) /\ Len(x) \in Nat /\ Len(y) \in Nat
      /\ Len(x \o y) = Len(x) + Len(y)
      /\ \A i \in 1..(Len(x) + Len(y)) :
            (x \o y)[i] = IF i <= Len(x) THEN x[i] ELSE y[i - Len(x)]
  BY ConcatProperties, LenProperties
<1> QED
  BY <1>1

----------------------------------------------------------------------------
(* FlattenSeq is a recursive function: these are its running               *)
(* concatenations.  An induction over their length is a least              *)
(* counterexample each time.                                               *)

LEMMA LeastOne ==
  ASSUME NEW S \in SUBSET Nat, S # {}
  PROVE  \E k \in S : \A j \in S : k <= j
<1>1. PICK k \in S : \A j \in S : ~(<<j, k>> \in OpToRel(<, Nat))
  BY NatLessThanWellFounded, WFMin
<1>2. \A j \in S : ~(j < k)
  BY <1>1 DEF OpToRel
<1> QED
  BY <1>2

\* f takes n steps from base, the i-th by the i-th function.
Steps(f, base, n, step, S) ==
    /\ f \in [0..n -> S]
    /\ f[0] = base
    /\ \A i \in 1..n : f[i] = step[i][f[i - 1]]

LEMMA Stepwise ==
  ASSUME NEW S, NEW base \in S, NEW n \in Nat, NEW step \in [1..n -> [S -> S]]
  PROVE  \E f : Steps(f, base, n, step, S)
<1> DEFINE Solves(f, m) == /\ f \in [0..m -> S] /\ f[0] = base
                           /\ \A i \in 1..m : f[i] = step[i][f[i - 1]]
           Bad == {m \in 0..n : ~\E f : Solves(f, m)}
<1>1. ASSUME NEW m \in 0..n, m # 0, NEW f, Solves(f, m - 1) PROVE \E g : Solves(g, m)
  <2> DEFINE x == step[m][f[m - 1]]
             g == [i \in 0..m |-> IF i = m THEN x ELSE f[i]]
  <2>1. m \in 1..n /\ m - 1 \in 0..(m - 1) /\ step[m] \in [S -> S]
    BY <1>1
  <2>2. f[m - 1] \in S /\ x \in S
    BY <1>1, <2>1
  <2> HIDE DEF x
  <2>3. \A i \in 0..(m - 1) : f[i] \in S /\ g[i] = f[i]
    BY <1>1, <2>1
  <2>4. g[m] = x /\ g[0] = base /\ g \in [0..m -> S]
    BY <1>1, <2>1, <2>2, <2>3
  <2>5. ASSUME NEW i \in 1..m PROVE g[i] = step[i][g[i - 1]]
    <3>1. CASE i = m
      BY <2>1, <2>3, <2>4, <3>1 DEF x
    <3>2. CASE i # m
      <4>1. i \in 1..(m - 1) /\ i \in 0..(m - 1) /\ i - 1 \in 0..(m - 1)
        BY <2>1, <3>2
      <4>2. f[i] = step[i][f[i - 1]]
        BY <1>1, <4>1
      <4> HIDE DEF g
      <4> QED
        BY <2>3, <4>1, <4>2
    <3> QED
      BY <3>1, <3>2
  <2> HIDE DEF g
  <2> QED
    BY <2>4, <2>5
<1>2. ASSUME Bad # {} PROVE FALSE
  <2>1. Bad \in SUBSET Nat /\ Bad \subseteq 0..n
    OBVIOUS
  <2>2. 0 \notin Bad
    <3> DEFINE g == [i \in 0..0 |-> base]
    <3>1. Solves(g, 0)
      OBVIOUS
    <3> HIDE DEF Solves, g
    <3> QED
      BY <3>1
  <2>3. PICK m \in Bad : \A k \in Bad : m <= k
    <3> HIDE DEF Bad
    <3> QED
      BY <1>2, <2>1, LeastOne
  <2>4. m \in 0..n /\ m # 0 /\ m - 1 \in 0..n /\ ~(m <= m - 1)
    <3> HIDE DEF Bad
    <3> QED
      BY <2>1, <2>2, <2>3
  <2>5. m - 1 \notin Bad
    <3> HIDE DEF Bad
    <3> QED
      BY <2>3, <2>4
  <2> HIDE DEF Solves
  <2>6. PICK f : Solves(f, m - 1)
    BY <2>4, <2>5
  <2>7. \E g : Solves(g, m)
    BY <1>1, <2>4, <2>6
  <2> QED
    BY <2>3, <2>7
<1>3. \E f : Solves(f, n)
  <2>1. n \in 0..n
    OBVIOUS
  <2>2. n \notin Bad
    <3> HIDE DEF Bad
    <3> QED
      BY <1>2
  <2> HIDE DEF Solves
  <2> QED
    BY <2>1, <2>2
<1> QED
  BY <1>3 DEF Steps

\* f holds the concatenation of the first i sequences of s, up to n.
Running(f, s, n, T) ==
    /\ f \in [0..n -> Seq(T)]
    /\ f[0] = <<>>
    /\ \A i \in 1..n : f[i] = Cat(f[i - 1], s[i])

LEMMA RunningGrows ==
  ASSUME NEW T, NEW n \in Nat, NEW s, NEW f, Running(f, s, n, T),
         NEW r, \A i \in 1..n : r[i] = s[i], r[n + 1] \in Seq(T)
  PROVE  LET g == [i \in 0..(n + 1) |-> IF i = n + 1 THEN Cat(f[n], r[n + 1]) ELSE f[i]]
         IN  Running(g, r, n + 1, T)
<1> DEFINE x == Cat(f[n], r[n + 1])
           g == [i \in 0..(n + 1) |-> IF i = n + 1 THEN x ELSE f[i]]
<1>1. f[n] \in Seq(T) /\ x \in Seq(T)
  <2>1. f[n] \in Seq(T)
    BY DEF Running
  <2> QED
    BY <2>1, CatTyped
<1> HIDE DEF x
<1>2. /\ \A i \in 0..n : f[i] \in Seq(T) /\ g[i] = f[i] /\ g[i] \in Seq(T)
      /\ g[n + 1] = x /\ g[0] = <<>>
  BY DEF Running
<1>3. g \in [0..(n + 1) -> Seq(T)]
  <2>1. \A i \in 0..(n + 1) : i \in 0..n \/ i = n + 1
    OBVIOUS
  <2>2. \A i \in 0..(n + 1) : g[i] \in Seq(T)
    BY <1>1, <1>2, <2>1
  <2>3. g = [i \in 0..(n + 1) |-> g[i]]
    OBVIOUS
  <2> HIDE DEF g
  <2> QED
    BY <2>2, <2>3
<1> HIDE DEF g
<1>4. ASSUME NEW i \in 1..n PROVE g[i] = Cat(g[i - 1], r[i])
  <2>1. i - 1 \in 0..n /\ i \in 0..n
    OBVIOUS
  <2>2. f[i] = Cat(f[i - 1], s[i])
    BY DEF Running
  <2> QED
    BY <1>2, <2>1, <2>2
<1>5. g[n + 1] = Cat(g[(n + 1) - 1], r[n + 1])
  BY <1>2 DEF x
<1>6. \A i \in 1..(n + 1) : g[i] = Cat(g[i - 1], r[i])
  <2>1. \A i \in 1..(n + 1) : i \in 1..n \/ i = n + 1
    OBVIOUS
  <2> QED
    BY <1>4, <1>5, <2>1
<1> QED
  BY <1>2, <1>3, <1>6 DEF Running, g, x

LEMMA RunningExists ==
  ASSUME NEW T, NEW s \in Seq(Seq(T))
  PROVE  \E f : Running(f, s, Len(s), T)
<1> DEFINE Bad == {n \in 0..Len(s) : ~\E f : Running(f, s, n, T)}
<1>1. Len(s) \in Nat /\ \A i \in 1..Len(s) : s[i] \in Seq(T)
  BY LenProperties, ElementOfSeq
<1>2. ASSUME Bad # {} PROVE FALSE
  <2>1. PICK n \in Bad : \A m \in Bad : n <= m
    <3>1. Bad \in SUBSET Nat
      BY <1>1
    <3> HIDE DEF Bad
    <3> QED
      BY <1>2, <3>1, LeastOne
  <2>2. n \in 0..Len(s) /\ ~\E f : Running(f, s, n, T)
    BY <2>1
  <2>3. n # 0
    <3> DEFINE f == [i \in 0..0 |-> <<>>]
    <3>1. <<>> \in Seq(T)
      BY EmptySeq
    <3>2. Running(f, s, 0, T)
      BY <3>1 DEF Running
    <3> QED
      BY <2>2, <3>2
  <2>4. PICK m \in Nat : m + 1 = n /\ m + 1 \in 1..Len(s) /\ m \in 0..Len(s)
    <3>1. n - 1 \in Nat /\ (n - 1) + 1 = n /\ n \in 1..Len(s) /\ n - 1 \in 0..Len(s)
      BY <1>1, <2>2, <2>3
    <3> QED
      BY <3>1
  <2>5. m \notin Bad
    <3>1. ~(n <= m)
      BY <2>4
    <3> HIDE DEF Bad
    <3> QED
      BY <2>1, <3>1
  <2>6. PICK f : Running(f, s, m, T)
    BY <2>4, <2>5
  <2>7. s[m + 1] \in Seq(T)
    BY <1>1, <2>4
  <2> HIDE DEF Bad
  <2>8. \E g : Running(g, s, m + 1, T)
    BY <2>6, <2>7, RunningGrows
  <2> QED
    BY <2>2, <2>4, <2>8
<1>3. Len(s) \notin Bad
  BY <1>2
<1> QED
  BY <1>1, <1>3

Parts(s, n, T) == \A j \in 1..n : s[j] \in Seq(T)

\* x is how y starts.
Begins(x, y) == Len(x) <= Len(y) /\ \A k \in 1..Len(x) : y[k] = x[k]

\* Each running concatenation starts every later one.
LEMMA RunningPrefix ==
  ASSUME NEW T, NEW n \in Nat, NEW s, Parts(s, n, T),
         NEW f, Running(f, s, n, T), NEW i \in 0..n
  PROVE  \A m \in i..n : Begins(f[i], f[m])
<1> USE DEF Parts, Begins
<1> DEFINE Starts(m) == /\ Len(f[i]) <= Len(f[m])
                        /\ \A k \in 1..Len(f[i]) : f[m][k] = f[i][k]
           Bad == {m \in i..n : ~Starts(m)}
<1>1. \A m \in 0..n : f[m] \in Seq(T) /\ Len(f[m]) \in Nat
  BY LenProperties DEF Running
<1>2. i \notin Bad
  BY <1>1
<1>3. ASSUME NEW m \in (i + 1)..n, Starts(m - 1) PROVE Starts(m)
  <2>1. m \in 1..n /\ m \in 0..n /\ m - 1 \in 0..n
    OBVIOUS
  <2>2. PICK x \in Seq(T), y \in Seq(T) : x = f[m - 1] /\ y = s[m]
    BY <1>1, <2>1
  <2>3. f[m] = x \o y
    BY <2>1, <2>2 DEF Running, Cat
  <2>4. /\ Len(x) \in Nat /\ Len(y) \in Nat /\ Len(x \o y) = Len(x) + Len(y)
        /\ \A k \in 1..Len(x) : (x \o y)[k] = x[k]
    BY ConcatProperties, LenProperties
  <2>5. PICK l \in Nat, z \in Seq(T) : l = Len(f[i]) /\ z = f[i]
    BY <1>1
  <2>6. l <= Len(x) /\ \A k \in 1..l : x[k] = z[k]
    BY <1>3, <2>2, <2>5
  <2>7. l <= Len(x \o y) /\ \A k \in 1..l : (x \o y)[k] = z[k]
    BY <2>4, <2>6
  <2> QED
    BY <2>3, <2>5, <2>7
<1>4. ASSUME Bad # {} PROVE FALSE
  <2>1. Bad \in SUBSET Nat /\ Bad \subseteq i..n
    OBVIOUS
  <2>2. PICK m \in Bad : \A k \in Bad : m <= k
    <3> HIDE DEF Bad
    <3> QED
      BY <1>4, <2>1, LeastOne
  <2>3. m \in (i + 1)..n /\ m - 1 \in i..n /\ ~(m <= m - 1)
    <3> HIDE DEF Bad
    <3> QED
      BY <1>2, <2>1, <2>2
  <2>4. m - 1 \notin Bad
    <3> HIDE DEF Bad
    <3> QED
      BY <2>2, <2>3
  <2> HIDE DEF Starts
  <2> QED
    BY <1>3, <2>2, <2>3, <2>4
<1> QED
  BY <1>4

LEMMA FlattenIs ==
  ASSUME NEW T, NEW s \in Seq(Seq(T)), NEW f, Running(f, s, Len(s), T)
  PROVE  FlattenSeq(s) = f[Len(s)]
<1>1. Len(s) \in Nat /\ \A i \in 1..Len(s) : s[i] \in Seq(T)
  BY LenProperties, ElementOfSeq
<1>2. CASE Len(s) = 0
  BY <1>2, EmptySeq DEF FlattenSeq, Running
<1>3. CASE Len(s) # 0
  <2> DEFINE Step(h) == [i \in 1..Len(s) |-> IF i = 1 THEN s[i] ELSE Cat(h[i - 1], s[i])]
             g == [i \in 1..Len(s) |-> f[i]]
             c == CHOOSE h : h = Step(h)
  <2>1. g = Step(g)
    <3>1. f[1] = s[1]
      <4>1. 1 \in 1..Len(s) /\ 1 - 1 = 0 /\ s[1] \in Seq(T)
        BY <1>1, <1>3
      <4>2. f[1] = Cat(<<>>, s[1])
        BY <4>1 DEF Running
      <4> QED
        BY <4>1, <4>2, CatEmpty
    <3>2. ASSUME NEW i \in 1..Len(s), i # 1
          PROVE  i - 1 \in 1..Len(s) /\ f[i] = Cat(f[i - 1], s[i])
      <4>1. i - 1 \in 1..Len(s)
        BY <1>1, <3>2
      <4>2. f[i] = Cat(f[i - 1], s[i])
        BY DEF Running
      <4> QED
        BY <4>1, <4>2
    <3>3. \A i \in 1..Len(s) : f[i] = IF i = 1 THEN s[i] ELSE Cat(g[i - 1], s[i])
      BY <3>1, <3>2
    <3> QED
      BY <3>3
  <2>2. c = Step(c)
    <3> HIDE DEF Step, g
    <3> QED
      BY <2>1
  <2>3. FlattenSeq(s) = c[Len(s)]
    BY <1>3 DEF FlattenSeq, Cat
  <2> DEFINE Bad == {i \in 1..Len(s) : c[i] # g[i]}
  <2>4. ASSUME Bad # {} PROVE FALSE
    <3>1. PICK n \in Bad : \A m \in Bad : n <= m
      <4>1. Bad \in SUBSET Nat
        <5> HIDE DEF c, g
        <5> QED
          BY <1>1
      <4> HIDE DEF Bad
      <4> QED
        BY <2>4, <4>1, LeastOne
    <3>2. n \in 1..Len(s) /\ c[n] # g[n]
      BY <3>1
    <3>3. n # 1 => n - 1 \in 1..Len(s) /\ c[n - 1] = g[n - 1]
      <4>1. n # 1 => n - 1 \in 1..Len(s) /\ ~(n <= n - 1)
        BY <1>1, <3>2
      <4>2. n # 1 => n - 1 \notin Bad
        <5> HIDE DEF Bad
        <5> QED
          BY <3>1, <4>1
      <4> QED
        BY <4>1, <4>2
    <3>4. /\ c[n] = IF n = 1 THEN s[n] ELSE Cat(c[n - 1], s[n])
          /\ g[n] = IF n = 1 THEN s[n] ELSE Cat(g[n - 1], s[n])
      <4>1. /\ Step(c)[n] = IF n = 1 THEN s[n] ELSE Cat(c[n - 1], s[n])
            /\ Step(g)[n] = IF n = 1 THEN s[n] ELSE Cat(g[n - 1], s[n])
        <5> HIDE DEF c, g
        <5> QED
          BY <3>2
      <4> HIDE DEF c, g, Step
      <4> QED
        BY <2>1, <2>2, <4>1
    <3> QED
      BY <3>2, <3>3, <3>4
  <2>5. c[Len(s)] = g[Len(s)]
    <3>1. Len(s) \in 1..Len(s)
      BY <1>1, <1>3
    <3> HIDE DEF c, g
    <3> QED
      BY <2>4, <3>1
  <2> QED
    BY <1>1, <1>3, <2>3, <2>5
<1> QED
  BY <1>2, <1>3

LEMMA FlattenTyped ==
  ASSUME NEW T, NEW s \in Seq(Seq(T))
  PROVE  /\ FlattenSeq(s) \in Seq(T)
         /\ FlattenSeq(<<>>) = <<>>
<1>1. PICK f : Running(f, s, Len(s), T)
  BY RunningExists
<1>2. Len(s) \in 0..Len(s)
  BY LenProperties
<1>3. f[Len(s)] \in Seq(T)
  BY <1>1, <1>2 DEF Running
<1> QED
  BY <1>1, <1>3, FlattenIs, EmptySeq DEF FlattenSeq

\* A chunk joins the channel at its end.
LEMMA FlattenAppend ==
  ASSUME NEW T, NEW s \in Seq(Seq(T)), NEW x \in Seq(T)
  PROVE  FlattenSeq(Append(s, x)) = Cat(FlattenSeq(s), x)
<1>1. PICK n \in Nat, r \in Seq(Seq(T)) : n = Len(s) /\ r = Append(s, x)
  BY AppendProperties, LenProperties
<1>2. Len(r) = n + 1 /\ (\A i \in 1..n : r[i] = s[i]) /\ r[n + 1] = x
  BY <1>1, AppendProperties
<1>3. PICK f : Running(f, s, n, T)
  BY <1>1, RunningExists
<1> DEFINE g == [i \in 0..(n + 1) |-> IF i = n + 1 THEN Cat(f[n], r[n + 1]) ELSE f[i]]
<1>4. g[n + 1] = Cat(f[n], x)
  BY <1>2
<1>5. Running(g, r, n + 1, T)
  BY <1>2, <1>3, RunningGrows
<1> HIDE DEF g
<1>6. FlattenSeq(r) = g[n + 1]
  BY <1>2, <1>5, FlattenIs
<1>7. FlattenSeq(s) = f[n]
  BY <1>1, <1>3, FlattenIs
<1> QED
  BY <1>1, <1>4, <1>6, <1>7

\* And leaves it at its head.
LEMMA FlattenHead ==
  ASSUME NEW T, NEW s \in Seq(Seq(T)), s # <<>>
  PROVE  FlattenSeq(s) = Cat(Head(s), FlattenSeq(Tail(s)))
<1>1. PICK n \in Nat, h \in Seq(T), t \in Seq(Seq(T)) :
         n + 1 = Len(s) /\ h = Head(s) /\ t = Tail(s)
  <2>1. Len(s) - 1 \in Nat /\ (Len(s) - 1) + 1 = Len(s)
    BY EmptySeq
  <2> QED
    BY <2>1, HeadTailProperties
<1>2. h = s[1] /\ Len(t) = n /\ \A i \in 1..n : t[i] = s[i + 1]
  BY <1>1, HeadTailProperties
<1>3. PICK f : Running(f, s, n + 1, T)
  BY <1>1, RunningExists
<1>4. PICK g : Running(g, t, n, T)
  BY <1>2, RunningExists
<1>5. FlattenSeq(s) = f[n + 1] /\ FlattenSeq(t) = g[n]
  BY <1>1, <1>2, <1>3, <1>4, FlattenIs
<1>6. \A i \in 1..(n + 1) : s[i] \in Seq(T)
  BY <1>1, ElementOfSeq
<1> DEFINE Bad == {i \in 0..n : f[i + 1] # Cat(h, g[i])}
<1>7. 0 \notin Bad
  <2>1. f[1] = Cat(<<>>, h) /\ g[0] = <<>>
    <3>1. 1 \in 1..(n + 1) /\ 1 - 1 = 0
      OBVIOUS
    <3>2. f[1] = Cat(f[1 - 1], s[1]) /\ f[0] = <<>> /\ g[0] = <<>>
      BY <1>3, <1>4, <3>1 DEF Running
    <3> QED
      BY <1>2, <3>1, <3>2
  <2>2. f[0 + 1] = Cat(h, g[0])
    BY <2>1, CatEmpty
  <2> QED
    BY <2>2
<1>8. ASSUME NEW i \in 1..n, i - 1 \notin Bad PROVE i \notin Bad
  <2>1. i - 1 \in 0..n /\ (i - 1) + 1 = i /\ i + 1 \in 1..(n + 1) /\ (i + 1) - 1 = i
    OBVIOUS
  <2>2. f[i] = Cat(h, g[i - 1])
    BY <1>8, <2>1
  <2>3. f[i + 1] = Cat(f[i], s[i + 1])
    BY <1>3, <2>1 DEF Running
  <2>4. g[i] = Cat(g[i - 1], s[i + 1])
    BY <1>2, <1>4 DEF Running
  <2>5. PICK a \in Seq(T), b \in Seq(T) : a = g[i - 1] /\ b = s[i + 1]
    <3>1. g[i - 1] \in Seq(T) /\ s[i + 1] \in Seq(T)
      BY <1>4, <1>6, <2>1 DEF Running
    <3> QED
      BY <3>1
  <2>6. Cat(Cat(h, a), b) = Cat(h, Cat(a, b))
    BY CatJoins
  <2>7. f[i + 1] = Cat(h, g[i])
    BY <2>2, <2>3, <2>4, <2>5, <2>6
  <2> QED
    BY <2>7
<1>9. Bad = {}
  <2> SUFFICES ASSUME Bad # {} PROVE FALSE
    OBVIOUS
  <2>1. Bad \in SUBSET Nat /\ Bad \subseteq 0..n
    OBVIOUS
  <2> HIDE DEF Bad
  <2>2. PICK i \in Bad : \A j \in Bad : i <= j
    BY <2>1, LeastOne
  <2>3. i \in 1..n /\ ~(i <= i - 1)
    BY <1>7, <2>1, <2>2
  <2> QED
    BY <1>8, <2>2, <2>3
<1>10. f[n + 1] = Cat(h, g[n])
  <2>1. n \in 0..n
    OBVIOUS
  <2> QED
    BY <1>9, <2>1
<1> QED
  BY <1>1, <1>5, <1>10

----------------------------------------------------------------------------
(* How units move between neighbouring buffers: nothing but associativity. *)

\* What is appended behind several buffers.
LEMMA Grown ==
  \A x, y \in Seq(Nat), n \in Nat : Cat(x, Append(y, n)) = Append(Cat(x, y), n)
<1> SUFFICES ASSUME NEW x \in Seq(Nat), NEW y \in Seq(Nat), NEW n \in Nat
             PROVE  Cat(x, Append(y, n)) = Append(Cat(x, y), n)
  OBVIOUS
<1>1. PICK e \in Seq(Nat) : e = <<n>>
  <2>1. <<n>> \in Seq(Nat)
    OBVIOUS
  <2> QED
    BY <2>1
<1>2. \A z \in Seq(Nat) : Append(z, n) = Cat(z, e)
  BY <1>1, AppendIsConcat DEF Cat
<1>3. Cat(x, Cat(y, e)) = Cat(Cat(x, y), e)
  BY CatJoins
<1> QED
  BY <1>2, <1>3, CatTyped

\* The receiver takes the first unit.
LEMMA Received ==
  ASSUME NEW x \in Seq(Nat), NEW y \in Seq(Nat), y # <<>>
  PROVE  Cat(Append(x, Head(y)), Tail(y)) = Cat(x, y)
<1>1. PICK n \in Nat, t \in Seq(Nat) : n = Head(y) /\ t = Tail(y)
  BY HeadTailProperties
<1>2. PICK e \in Seq(Nat) : e = <<n>>
  <2>1. <<n>> \in Seq(Nat)
    OBVIOUS
  <2> QED
    BY <2>1
<1>3. y = Cat(e, t)
  BY <1>1, <1>2 DEF Cat
<1>4. Append(x, n) = Cat(x, e)
  BY <1>2, AppendIsConcat DEF Cat
<1>5. Cat(Cat(x, e), t) = Cat(x, Cat(e, t))
  BY CatJoins
<1> QED
  BY <1>1, <1>3, <1>4, <1>5

\* A hand is filled from what comes behind it.
LEMMA Filled ==
  \A x, h, t \in Seq(Nat) : Cat(Cat(x, <<>>), Cat(h, t)) = Cat(Cat(x, h), t)
  BY CatJoins, CatEmpty

\* A hand is emptied into what comes before it, in front of one buffer,
LEMMA Passed ==
  \A x, h, t, y \in Seq(Nat) : Cat(Cat(x, h), Cat(t, y)) = Cat(x, Cat(Cat(h, t), y))
<1> SUFFICES ASSUME NEW x \in Seq(Nat), NEW h \in Seq(Nat), NEW t \in Seq(Nat), NEW y \in Seq(Nat)
             PROVE  Cat(Cat(x, h), Cat(t, y)) = Cat(x, Cat(Cat(h, t), y))
  OBVIOUS
<1>1. PICK z \in Seq(Nat) : z = Cat(t, y)
  BY CatTyped
<1>2. Cat(Cat(x, h), z) = Cat(x, Cat(h, z)) /\ Cat(h, Cat(t, y)) = Cat(Cat(h, t), y)
  BY CatJoins
<1> QED
  BY <1>1, <1>2

\* or of three.
LEMMA PassedThree ==
  \A a, h, t, x, y, z \in Seq(Nat) :
     Cat(Cat(a, h), Cat(Cat(Cat(t, x), y), z)) = Cat(a, Cat(Cat(Cat(Cat(h, t), x), y), z))
<1> SUFFICES ASSUME NEW a \in Seq(Nat), NEW h \in Seq(Nat), NEW t \in Seq(Nat),
                    NEW x \in Seq(Nat), NEW y \in Seq(Nat), NEW z \in Seq(Nat)
             PROVE  Cat(Cat(a, h), Cat(Cat(Cat(t, x), y), z))
                       = Cat(a, Cat(Cat(Cat(Cat(h, t), x), y), z))
  OBVIOUS
<1>1. PICK v \in Seq(Nat) : v = Cat(x, Cat(y, z))
  BY CatTyped
<1>2. ASSUME NEW b \in Seq(Nat) PROVE Cat(Cat(Cat(b, x), y), z) = Cat(b, v)
  <2>1. PICK u \in Seq(Nat) : u = Cat(b, x)
    BY CatTyped
  <2>2. Cat(Cat(u, y), z) = Cat(u, Cat(y, z))
    BY CatJoins
  <2>3. PICK q \in Seq(Nat) : q = Cat(y, z)
    BY CatTyped
  <2>4. Cat(Cat(b, x), q) = Cat(b, Cat(x, q))
    BY CatJoins
  <2> QED
    BY <1>1, <2>1, <2>2, <2>3, <2>4
<1>3. PICK b \in Seq(Nat) : b = Cat(h, t)
  BY CatTyped
<1>4. Cat(Cat(a, h), Cat(t, v)) = Cat(a, Cat(b, v))
  BY <1>3, Passed
<1> QED
  BY <1>2, <1>3, <1>4
=============================================================================
