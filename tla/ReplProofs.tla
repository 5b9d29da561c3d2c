----------------------------- MODULE ReplProofs -----------------------------
(***************************************************************************)
(* The reference clients, for any commands, replies and capabilities: a    *)
(* greeting reads back whatever bytes it quotes, and a prompt comes when   *)
(* nothing is under way any more.                                          *)
(***************************************************************************)
EXTENDS Repl, FlattenProofs

----------------------------------------------------------------------------
(* Reading back what quote wrote.                                          *)
Opened == [mode |-> "before", text |-> <<>>]
Within(text) == [mode |-> "inside", text |-> text]
States(T) == [mode : {"before", "inside", "escaped", "behind", "broken"}, text : Seq(T)]

LEMMA ReadByteTyped ==
  ASSUME NEW T, NEW read \in States(T), NEW byte \in T
  PROVE  ReadByte(read, byte) \in States(T)
<1>1. Append(read.text, byte) \in Seq(T)
  BY AppendProperties DEF States
<1> QED
  BY <1>1 DEF ReadByte, States

\* The reader's states, one per byte.
LEMMA ReadingIs ==
  ASSUME NEW T, NEW n \in Nat, NEW b \in [1..n -> T]
  PROVE  \E c : /\ c[0] = Opened
                /\ \A i \in 1..n : c[i] = ReadByte(c[i - 1], b[i])
                /\ n = Len(b) =>
                      ReadString(b) = IF c[n].mode = "behind" THEN c[n].text ELSE Broken
<1> DEFINE step == [i \in 1..n |-> [r \in States(T) |-> ReadByte(r, b[i])]]
           Step(h) == [i \in 0..n |-> IF i = 0 THEN Opened ELSE ReadByte(h[i - 1], b[i])]
           c == CHOOSE h : h = Step(h)
<1>2. Opened \in States(T)
  BY EmptySeq DEF Opened, States
<1>3. step \in [1..n -> [States(T) -> States(T)]]
  BY ReadByteTyped
<1> HIDE DEF step
<1>4. PICK f : /\ f \in [0..n -> States(T)] /\ f[0] = Opened
               /\ \A i \in 1..n : f[i] = step[i][f[i - 1]]
  <2>1. PICK S : S = States(T)
    OBVIOUS
  <2>3. PICK g \in [1..n -> [S -> S]], o \in S : g = step /\ o = Opened
    BY <1>2, <1>3, <2>1
  <2>4. \E f : Steps(f, o, n, g, S)
    BY Stepwise
  <2> QED
    BY <2>1, <2>3, <2>4 DEF Steps
<1>5. \A i \in 1..n : f[i] = ReadByte(f[i - 1], b[i])
  <2> SUFFICES ASSUME NEW i \in 1..n PROVE f[i] = ReadByte(f[i - 1], b[i])
    OBVIOUS
  <2>1. i - 1 \in 0..n
    OBVIOUS
  <2>2. f[i - 1] \in States(T)
    BY <1>4, <2>1
  <2>3. step[i][f[i - 1]] = ReadByte(f[i - 1], b[i])
    BY <2>2 DEF step
  <2> QED
    BY <1>4, <2>3
<1>6. f = Step(f)
  <2>1. \A i \in 0..n : i = 0 \/ i \in 1..n
    OBVIOUS
  <2>2. \A i \in 0..n : f[i] = IF i = 0 THEN Opened ELSE ReadByte(f[i - 1], b[i])
    BY <1>4, <1>5, <2>1
  <2> QED
    BY <1>4, <2>2
<1>7. c = Step(c)
  <2> HIDE DEF Step
  <2> QED
    BY <1>6
<1>8. n = Len(b) => ReadString(b) = IF c[n].mode = "behind" THEN c[n].text ELSE Broken
  BY DEF ReadString, Opened
<1>9. \A i \in 0..n : c[i] = IF i = 0 THEN Opened ELSE ReadByte(c[i - 1], b[i])
  <2> SUFFICES ASSUME NEW i \in 0..n
               PROVE  c[i] = IF i = 0 THEN Opened ELSE ReadByte(c[i - 1], b[i])
    OBVIOUS
  <2>1. Step(c)[i] = IF i = 0 THEN Opened ELSE ReadByte(c[i - 1], b[i])
    <3> HIDE DEF c
    <3> QED
      OBVIOUS
  <2> HIDE DEF c, Step
  <2> QED
    BY <1>7, <2>1
<1> HIDE DEF c
<1> QED
  BY <1>8, <1>9

KeptByte(byte) == IF byte \in LineEnds THEN <<>> ELSE <<byte>>

LEMMA BytesTyped ==
  ASSUME NEW T, "backslash" \in T
  PROVE  \A x \in T : Escaped(x) \in Seq(T) /\ KeptByte(x) \in Seq(T)
<1> SUFFICES ASSUME NEW x \in T
             PROVE  Escaped(x) \in Seq(T) /\ KeptByte(x) \in Seq(T)
  OBVIOUS
<1>1. <<>> \in Seq(T) /\ <<x>> \in Seq(T) /\ <<"backslash", x>> \in Seq(T)
  OBVIOUS
<1> QED
  BY <1>1 DEF Escaped, KeptByte

\* The reader takes one byte from its one or two, or from none.
LEMMA ReadsOne ==
  ASSUME NEW T, NEW text \in Seq(T), NEW x \in T
  PROVE  /\ x \in LineEnds => Escaped(x) = <<>>
         /\ x \in {"quote", "backslash"} =>
               /\ Escaped(x) = <<"backslash", x>>
               /\ ReadByte(ReadByte(Within(text), "backslash"), x) = Within(Append(text, x))
         /\ x \notin LineEnds \union {"quote", "backslash"} =>
               /\ Escaped(x) = <<x>>
               /\ ReadByte(Within(text), x) = Within(Append(text, x))
  BY DEF Escaped, ReadByte, Within, LineEnds

LEMMA ReadsQuotes ==
  ASSUME NEW T, NEW text \in Seq(T)
  PROVE  /\ ReadByte(Opened, "quote") = Within(<<>>)
         /\ ReadByte(Within(text), "quote").mode = "behind"
         /\ ReadByte(Within(text), "quote").text = text
  BY DEF ReadByte, Within, Opened, LineEnds

\* b is the sequence w of bytes between two quotes.
InQuotes(b, w) ==
    /\ b = <<"quote">> \o w \o <<"quote">>
    /\ Len(w) \in Nat /\ Len(b) = Len(w) + 2
    /\ b[1] = "quote" /\ b[Len(w) + 2] = "quote"
    /\ \A j \in 1..Len(w) : b[j + 1] = w[j]

LEMMA Quoted ==
  ASSUME NEW T, "quote" \in T, NEW w \in Seq(T)
  PROVE  \E b \in Seq(T) : InQuotes(b, w)
<1>1. PICK q \in Seq(T) : q = <<"quote">>
  <2>1. <<"quote">> \in Seq(T)
    OBVIOUS
  <2> QED
    BY <2>1
<1>2. Len(q) = 1 /\ q[1] = "quote" /\ Len(w) \in Nat
  BY <1>1, LenProperties
<1>3. PICK m \in Seq(T) : m = q \o w
  BY ConcatProperties
<1>4. Len(m) = 1 + Len(w) /\ m[1] = "quote" /\ \A j \in 1..Len(w) : m[j + 1] = w[j]
  <2>1. Len(q \o w) = Len(q) + Len(w) /\ \A j \in 1..Len(q) : (q \o w)[j] = q[j]
    BY Joined
  <2>2. \A j \in 1..Len(w) : (q \o w)[Len(q) + j] = w[j]
    BY Joined
  <2> QED
    BY <1>2, <1>3, <2>1, <2>2
<1>5. PICK b \in Seq(T) : b = m \o q
  BY ConcatProperties
<1>6. /\ Len(b) = Len(m) + 1 /\ b[Len(m) + 1] = q[1]
      /\ \A j \in 1..Len(m) : b[j] = m[j]
  <2>1. Len(m \o q) = Len(m) + Len(q) /\ \A j \in 1..Len(m) : (m \o q)[j] = m[j]
    BY Joined
  <2>2. \A j \in 1..Len(q) : (m \o q)[Len(m) + j] = q[j]
    BY Joined
  <2> QED
    BY <1>2, <1>5, <2>1, <2>2
<1>7. /\ b[1] = "quote" /\ b[Len(w) + 2] = "quote" /\ Len(b) = Len(w) + 2
      /\ \A j \in 1..Len(w) : b[j + 1] = w[j]
  BY <1>2, <1>4, <1>6
<1> QED
  BY <1>1, <1>2, <1>3, <1>5, <1>7 DEF InQuotes

\* A sequence of bytes, turned into one of sequences, under a name.
LEMMA Mapped ==
  ASSUME NEW T, "backslash" \in T, NEW v \in Seq(T), NEW n \in Nat, n = Len(v)
  PROVE  /\ [i \in DOMAIN v |-> Escaped(v[i])] \in Seq(Seq(T))
         /\ Len([i \in DOMAIN v |-> Escaped(v[i])]) = n
         /\ \A i \in 1..n : [j \in DOMAIN v |-> Escaped(v[j])][i] = Escaped(v[i])
         /\ [i \in DOMAIN v |-> KeptByte(v[i])] \in Seq(Seq(T))
         /\ Len([i \in DOMAIN v |-> KeptByte(v[i])]) = n
         /\ \A i \in 1..n : [j \in DOMAIN v |-> KeptByte(v[j])][i] = KeptByte(v[i])
<1>1. DOMAIN v = 1..n /\ \A i \in 1..n : v[i] \in T
  BY ElementOfSeq
<1>2. \A i \in 1..n : Escaped(v[i]) \in Seq(T) /\ KeptByte(v[i]) \in Seq(T)
  BY <1>1, BytesTyped
<1> QED
  BY <1>1, <1>2

\* What the loop of the reader is in after i bytes of the value.
Pieces(v, e, k, n) ==
    \A i \in 1..n : e[i] = Escaped(v[i]) /\ k[i] = KeptByte(v[i])
Reads(c, x) ==
    c[1] = Within(<<>>) /\ \A j \in 1..Len(x) : c[j + 1] = ReadByte(c[j], x[j])

LEMMA ReadsOn ==
  ASSUME NEW T, {"quote", "backslash"} \subseteq T, NEW n \in Nat, NEW v \in [1..n -> T],
         NEW e, NEW k, Pieces(v, e, k, n),
         NEW f, Running(f, e, n, T), NEW g, Running(g, k, n, T),
         NEW c, Reads(c, f[n])
  PROVE  c[Len(f[n]) + 1] = Within(g[n])
<1> DEFINE At(i) == c[Len(f[i]) + 1] = Within(g[i])
<1>0. \A i \in 1..n : e[i] \in Seq(T)
  BY BytesTyped DEF Pieces
<1>f. \A i \in 0..n : f[i] \in Seq(T) /\ Len(f[i]) \in Nat
  BY LenProperties DEF Running
<1>p. ASSUME NEW i \in 0..n PROVE Begins(f[i], f[n])
  <2>1. Parts(e, n, T)
    BY <1>0 DEF Parts
  <2>2. \A m \in i..n : Begins(f[i], f[m])
    BY <2>1, RunningPrefix
  <2> QED
    BY <2>2
<1> USE DEF Begins, Pieces, Reads
<1>1. At(0)
  BY DEF Running
<1>2. ASSUME NEW i \in 1..n, At(i - 1) PROVE At(i)
  <2>1. i \in 0..n /\ i - 1 \in 0..n /\ n \in i..n /\ v[i] \in T
    OBVIOUS
  <2>2. PICK t \in Seq(T), w \in Seq(T), x \in T :
           t = g[i - 1] /\ w = f[i - 1] /\ x = v[i]
    BY <2>1 DEF Running
  <2>3. f[i] = w \o Escaped(x) /\ g[i] = t \o KeptByte(x)
    BY <2>2 DEF Running, Cat
  <2>4. Len(f[i]) <= Len(f[n]) /\ \A j \in 1..Len(f[i]) : f[n][j] = f[i][j]
    BY <1>p, <2>1
  <2>5. PICK l \in Nat : l = Len(w)
    BY LenProperties
  <2>r. \A j \in 1..Len(f[i]) : c[j + 1] = ReadByte(c[j], f[i][j])
    <3>1. Len(f[i]) \in Nat /\ Len(f[n]) \in Nat
      BY <1>f, <2>1
    <3>2. \A j \in 1..Len(f[i]) : j \in 1..Len(f[n])
      BY <2>4, <3>1
    <3> QED
      BY <2>4, <3>2
  <2>6. c[l + 1] = Within(t)
    BY <1>2, <2>2, <2>5
  <2>7. CASE x \in LineEnds
    <3>1. f[i] = w /\ g[i] = t
      BY <2>3, <2>7, ReadsOne, ConcatEmptySeq DEF KeptByte
    <3> QED
      BY <2>5, <2>6, <3>1
  <2>8. CASE x \in {"quote", "backslash"}
    <3>1. Escaped(x) = <<"backslash", x>> /\ KeptByte(x) = <<x>>
      BY <2>8, ReadsOne DEF KeptByte, LineEnds
    <3>2. /\ Len(f[i]) = l + 2 /\ f[i][l + 1] = "backslash" /\ f[i][l + 2] = x
          /\ g[i] = Append(t, x)
      BY <2>3, <2>5, <3>1, LenProperties, AppendIsConcat
    <3>3. l + 1 \in 1..(l + 2) /\ l + 2 \in 1..(l + 2) /\ (l + 1) + 1 = l + 2
      OBVIOUS
    <3>4. /\ c[l + 2] = ReadByte(c[l + 1], "backslash")
          /\ c[(l + 2) + 1] = ReadByte(c[l + 2], x)
      BY <2>r, <3>2, <3>3
    <3>5. c[(l + 2) + 1] = Within(Append(t, x))
      BY <2>6, <2>8, <3>4, ReadsOne
    <3> QED
      BY <3>2, <3>5
  <2>9. CASE x \notin LineEnds \union {"quote", "backslash"}
    <3>1. Escaped(x) = <<x>> /\ KeptByte(x) = <<x>>
      BY <2>9, ReadsOne DEF KeptByte
    <3>2. Len(f[i]) = l + 1 /\ f[i][l + 1] = x /\ g[i] = Append(t, x)
      BY <2>3, <2>5, <3>1, LenProperties, AppendIsConcat
    <3>3. l + 1 \in 1..(l + 1)
      OBVIOUS
    <3>4. c[(l + 1) + 1] = ReadByte(c[l + 1], x)
      BY <2>r, <3>2, <3>3
    <3>5. c[(l + 1) + 1] = Within(Append(t, x))
      BY <2>6, <2>9, <3>4, ReadsOne
    <3> QED
      BY <3>2, <3>5
  <2> QED
    BY <2>7, <2>8, <2>9
<1> DEFINE Bad == {i \in 0..n : ~At(i)}
<1>3. Bad = {}
  <2> SUFFICES ASSUME Bad # {} PROVE FALSE
    OBVIOUS
  <2>1. Bad \in SUBSET Nat /\ Bad \subseteq 0..n
    OBVIOUS
  <2>2. 0 \notin Bad
    BY <1>1
  <2>3. PICK i \in Bad : \A j \in Bad : i <= j
    <3> HIDE DEF Bad
    <3> QED
      BY <2>1, LeastOne
  <2>4. i \in 1..n /\ i - 1 \in 0..n /\ ~(i <= i - 1)
    <3> HIDE DEF Bad
    <3> QED
      BY <2>1, <2>2, <2>3
  <2>5. i - 1 \notin Bad
    <3> HIDE DEF Bad
    <3> QED
      BY <2>3, <2>4
  <2> HIDE DEF At
  <2> QED
    BY <1>2, <2>3, <2>4, <2>5
<1>4. n \in 0..n
  OBVIOUS
<1>5. n \notin Bad
  <2> HIDE DEF Bad
  <2> QED
    BY <1>3
<1> QED
  BY <1>4, <1>5

\* The client's library reads from quote what went into it, line ends left out.
LEMMA RoundTrip ==
  ASSUME NEW T, {"quote", "backslash"} \subseteq T, NEW v \in Seq(T)
  PROVE  ReadString(Quote(v)) = Kept(v)
<1>1. PICK n \in Nat : n = Len(v) /\ \A i \in 1..n : v[i] \in T
  BY LenProperties, ElementOfSeq
<1>2. PICK e \in Seq(Seq(T)) : /\ e = [i \in DOMAIN v |-> Escaped(v[i])] /\ Len(e) = n
                               /\ \A i \in 1..n : e[i] = Escaped(v[i])
  BY <1>1, Mapped
<1>3. PICK k \in Seq(Seq(T)) : /\ k = [i \in DOMAIN v |-> KeptByte(v[i])] /\ Len(k) = n
                               /\ \A i \in 1..n : k[i] = KeptByte(v[i])
  BY <1>1, Mapped
<1>4. PICK f : Running(f, e, n, T) /\ FlattenSeq(e) = f[n]
  BY <1>2, RunningExists, FlattenIs
<1>5. PICK g : Running(g, k, n, T) /\ FlattenSeq(k) = g[n]
  BY <1>3, RunningExists, FlattenIs
<1>6. PICK w \in Seq(T), t \in Seq(T) : w = f[n] /\ t = g[n]
  BY <1>4, <1>5 DEF Running
<1>7. Kept(v) = t
  BY <1>3, <1>5, <1>6 DEF Kept, KeptByte
<1>8. PICK b \in Seq(T), l \in Nat : InQuotes(b, w) /\ l = Len(w)
  <2>1. \E b \in Seq(T) : InQuotes(b, w)
    BY Quoted
  <2> QED
    BY <2>1 DEF InQuotes
<1> USE DEF InQuotes
<1>9. Quote(v) = b
  BY <1>2, <1>4, <1>6, <1>8 DEF Quote
<1>10. PICK m \in Nat : m = l + 2 /\ b \in [1..m -> T]
  <2>1. l + 2 \in Nat /\ b \in [1..(l + 2) -> T]
    BY <1>8, LenProperties
  <2> QED
    BY <2>1
<1>11. PICK c : /\ c[0] = Opened
                /\ \A i \in 1..m : c[i] = ReadByte(c[i - 1], b[i])
                /\ m = Len(b) =>
                      ReadString(b) = IF c[m].mode = "behind" THEN c[m].text ELSE Broken
  BY <1>10, ReadingIs
<1>12. c[1] = Within(<<>>)
  <2>1. 1 \in 1..m /\ 1 - 1 = 0
    BY <1>10
  <2>2. c[1] = ReadByte(Opened, "quote")
    BY <1>8, <1>11, <2>1
  <2> QED
    BY <1>6, <2>2, ReadsQuotes
<1>13. c[l + 1] = Within(t)
  <2>1. \A j \in 1..l : c[j + 1] = ReadByte(c[j], w[j])
    <3> SUFFICES ASSUME NEW j \in 1..l PROVE c[j + 1] = ReadByte(c[j], w[j])
      OBVIOUS
    <3>1. j + 1 \in 1..m /\ (j + 1) - 1 = j
      BY <1>10
    <3> QED
      BY <1>8, <1>11, <3>1
  <2>2. Reads(c, f[n])
    BY <1>6, <1>8, <1>12, <2>1 DEF Reads
  <2>3. v \in [1..n -> T] /\ Pieces(v, e, k, n)
    BY <1>1, <1>2, <1>3, LenProperties DEF Pieces
  <2>4. Running(f, e, n, T) /\ Running(g, k, n, T)
    BY <1>4, <1>5
  <2>5. c[Len(f[n]) + 1] = Within(g[n])
    BY <2>2, <2>3, <2>4, ReadsOn, SMTT(20)
  <2> QED
    BY <1>6, <1>8, <2>5
<1>14. c[m] = ReadByte(Within(t), "quote")
  <2>1. m \in 1..m /\ m - 1 = l + 1
    BY <1>10
  <2> QED
    BY <1>8, <1>10, <1>11, <1>13, <2>1
<1> QED
  BY <1>6, <1>7, <1>8, <1>9, <1>10, <1>11, <1>14, ReadsQuotes

LEMMA StringsRoundTrip ==
  \A v \in Seq(STRING) : ReadString(Quote(v)) = Kept(v)
<1> SUFFICES ASSUME NEW v \in Seq(STRING) PROVE ReadString(Quote(v)) = Kept(v)
  OBVIOUS
<1>1. PICK T : T = STRING \union {"quote", "backslash"}
  OBVIOUS
<1>2. v \in Seq(T)
  <2>1. \A i \in 1..Len(v) : v[i] \in T
    BY <1>1, ElementOfSeq
  <2>2. v \in [1..Len(v) -> T] /\ Len(v) \in Nat
    BY <2>1, LenProperties
  <2> QED
    BY <2>2
<1>3. {"quote", "backslash"} \subseteq T
  BY <1>1
<1> QED
  BY <1>2, <1>3, RoundTrip

LEMMA ReachableTyped ==
  ASSUME NEW C, NEW c \in Seq(C)
  PROVE  Reachable(c) \in Seq(C)
<1> DEFINE s == [i \in DOMAIN c |-> IF c[i].name \in UNREACHABLE THEN <<>> ELSE <<c[i]>>]
<1>1. DOMAIN c = 1..Len(c) /\ Len(c) \in Nat /\ \A i \in 1..Len(c) : c[i] \in C
  BY LenProperties, ElementOfSeq
<1>2. \A x \in C : <<x>> \in Seq(C)
  OBVIOUS
<1>3. <<>> \in Seq(C)
  OBVIOUS
<1>4. \A i \in 1..Len(c) : s[i] \in Seq(C)
  BY <1>1, <1>2, <1>3
<1>5. s \in Seq(Seq(C))
  BY <1>1, <1>4
<1> HIDE DEF s
<1>6. FlattenSeq(s) \in Seq(C)
  BY <1>5, FlattenTyped
<1> QED
  BY <1>6 DEF Reachable, s

LEMMA GreetingIsRead ==
  ASSUME NEW c \in Capabilities
  PROVE  ReadBack(ManagesieveGreeting(c)) =
            [i \in DOMAIN Reachable(c) |->
                [name  |-> Kept(<<Reachable(c)[i].name>>),
                 value |-> {Kept(v) : v \in Reachable(c)[i].value}]]
<1>1. PICK C : C = [name : STRING, value : SUBSET Seq(STRING)]
  OBVIOUS
<1>2. PICK known \in Seq(C) : known = Reachable(c)
  BY <1>1, ReachableTyped, ReplAssumption DEF ReplAssumption
<1>3. \A i \in DOMAIN known : known[i] \in C
  BY ElementOfSeq, LenProperties
<1>4. \A i \in DOMAIN known :
         /\ ReadString(Quote(<<known[i].name>>)) = Kept(<<known[i].name>>)
         /\ {ReadString(w) : w \in {Quote(v) : v \in known[i].value}}
               = {Kept(v) : v \in known[i].value}
  <2> SUFFICES ASSUME NEW i \in DOMAIN known
               PROVE  /\ ReadString(Quote(<<known[i].name>>)) = Kept(<<known[i].name>>)
                      /\ {ReadString(w) : w \in {Quote(v) : v \in known[i].value}}
                            = {Kept(v) : v \in known[i].value}
    OBVIOUS
  <2>1. known[i].name \in STRING /\ known[i].value \subseteq Seq(STRING)
    BY <1>1, <1>3
  <2>2. <<known[i].name>> \in Seq(STRING)
    BY <2>1
  <2>3. \A v \in known[i].value : ReadString(Quote(v)) = Kept(v)
    BY <2>1, StringsRoundTrip
  <2>4. {ReadString(w) : w \in {Quote(v) : v \in known[i].value}}
           = {Kept(v) : v \in known[i].value}
    BY <2>3
  <2> QED
    BY <2>2, <2>4, StringsRoundTrip
<1> QED
  BY <1>2, <1>4 DEF ReadBack, ManagesieveGreeting

----------------------------------------------------------------------------
(* The greeting is read once, before the first line goes out, and never    *)
(* again.                                                                  *)
Greeted ==
    /\ sent \in Nat
    /\ protocol = "sieve" => capabilities \in Capabilities
    /\ protocol = "sieve" /\ (pc = "prompt" \/ sent > 0) =>
          told = ReadBack(ManagesieveGreeting(capabilities))

LEMMA InitGreeted == Init => Greeted
  BY DEF Init, Greeted

LEMMA NextGreeted == Greeted /\ [Next]_vars => Greeted'
<1> SUFFICES ASSUME Greeted, [Next]_vars PROVE Greeted'
  OBVIOUS
<1> USE DEF Greeted
<1>1. CASE UNCHANGED vars
  BY <1>1 DEF vars, client
<1>2. CASE ImapRead
  BY <1>2 DEF ImapRead
<1>3. CASE ReplyRead
  <2>1. UNCHANGED <<sent, protocol, capabilities>> /\ sent \in Nat
    BY <1>3 DEF ReplyRead
  <2>2. CASE protocol = "sieve" /\ sent = 0 /\ pc' = "prompt"
    BY <1>3, <2>1, <2>2 DEF ReplyRead
  <2>3. CASE ~(protocol = "sieve" /\ sent = 0 /\ pc' = "prompt")
    BY <1>3, <2>1, <2>3 DEF ReplyRead
  <2> QED
    BY <2>2, <2>3
<1>4. CASE ReadEnd \/ EnterFails \/ InputEnds
  BY <1>4 DEF ReadEnd, EnterFails, InputEnds, Returns
<1>5. CASE Enter
  BY <1>5 DEF Enter
<1>6. CASE Server \/ RelayCloses
  BY <1>6 DEF Server, ServerAnswers, ServerTakes, ServerSends, RelayCloses, client
<1> QED
  BY <1>1, <1>2, <1>3, <1>4, <1>5, <1>6 DEF Next, Client, EnterEmpty, Over

(* A ManageSieve client reads from its greeting what the upstream          *)
(* advertised, whatever bytes its names and values have.                   *)
THEOREM GreetingIsFaithful == Spec => []GreetingReadsBack
<1>1. Greeted => GreetingReadsBack
  BY GreetingIsRead DEF Greeted, GreetingReadsBack
<1> QED
  BY <1>1, InitGreeted, NextGreeted, PTL DEF Spec

----------------------------------------------------------------------------
(* What is under way while the relay is up and replies can be told apart:  *)
(* a command, or a reply with its last piece at the end and nowhere else.  *)
PieceKinds == {"part", "line", "literal", "last", "bare"}
AnyPiece   == [of : Nat, kind : PieceKinds]
Finals     == {"last", "bare"}
FinalsOf(p) == IF p = "smtp" THEN Finals ELSE {"last"}

EndsOnce(p, shape) ==
    /\ shape # <<>> /\ shape[Len(shape)] \in FinalsOf(p)
    /\ \A i \in 1..Len(shape) : shape[i] \in Finals <=> i = Len(shape)

Ending(p, pieces, n) ==
    /\ pieces # <<>> /\ \E k \in FinalsOf(p) : pieces[Len(pieces)] = Piece(n, k)
    /\ \A i \in 1..Len(pieces) : pieces[i].kind \in Finals <=> i = Len(pieces)

NoLiteral(pieces) == \A i \in 1..Len(pieces) : pieces[i].kind # "literal"

Pipes ==
    /\ sent \in Nat /\ protocol \in Kinds
    /\ asked \in Seq(Nat) /\ inbox \in Seq(AnyPiece) /\ owed \in Seq(AnyPiece)
    /\ taken \in BOOLEAN

Quiet == asked = <<>> /\ inbox = <<>> /\ owed = <<>>

InTurn ==
    /\ buf = <<>>
    /\ pc # "read" => Quiet
    /\ pc = "prompt" => shown = Piece(sent, "last")
    /\ pc = "read" => \/ asked = <<sent>> /\ inbox = <<>> /\ owed = <<>>
                      \/ asked = <<>> /\ Ending(protocol, inbox \o owed, sent)
                      \/ Stuck
    /\ protocol = "imap" => /\ inbox = <<>> \/ owed = <<>>
                            /\ NoLiteral(inbox) /\ NoLiteral(owed)

Dialogue == relay = "up" /\ (protocol = "imap" => atonce) => InTurn

LEMMA ReplyIs ==
  ASSUME NEW n \in Nat, NEW shape \in Seq(PieceKinds)
  PROVE  /\ Reply(n, shape) \in Seq(AnyPiece) /\ Len(Reply(n, shape)) = Len(shape)
         /\ \A i \in 1..Len(shape) : Reply(n, shape)[i] = Piece(n, shape[i])
<1>1. DOMAIN shape = 1..Len(shape) /\ Len(shape) \in Nat
  BY LenProperties
<1>2. \A i \in 1..Len(shape) : shape[i] \in PieceKinds
  BY ElementOfSeq
<1>3. \A i \in 1..Len(shape) : Piece(n, shape[i]) \in AnyPiece
  BY <1>2 DEF Piece, AnyPiece
<1> QED
  BY <1>1, <1>3 DEF Reply

LEMMA ReplyEnds ==
  ASSUME NEW p, NEW n \in Nat, NEW shape \in Seq(PieceKinds), EndsOnce(p, shape)
  PROVE  /\ Ending(p, Reply(n, shape), n)
         /\ (\A i \in 1..Len(shape) : shape[i] # "literal") => NoLiteral(Reply(n, shape))
<1>1. PICK r \in Seq(AnyPiece) : /\ r = Reply(n, shape) /\ Len(r) = Len(shape)
                                 /\ \A i \in 1..Len(shape) : r[i] = Piece(n, shape[i])
  BY ReplyIs
<1>2. Len(shape) \in 1..Len(shape)
  BY EmptySeq, LenProperties DEF EndsOnce
<1>3. r # <<>>
  BY <1>1, <1>2
<1>4. \A i \in 1..Len(r) : r[i].kind = shape[i]
  <2> SUFFICES ASSUME NEW i \in 1..Len(r) PROVE r[i].kind = shape[i]
    OBVIOUS
  <2>1. r[i] = Piece(n, shape[i])
    BY <1>1
  <2>2. Piece(n, shape[i]).kind = shape[i]
    BY DEF Piece
  <2> QED
    BY <2>1, <2>2
<1>5. \E k \in FinalsOf(p) : r[Len(r)] = Piece(n, k)
  BY <1>1, <1>2 DEF EndsOnce
<1> QED
  BY <1>1, <1>3, <1>4, <1>5 DEF Ending, EndsOnce, NoLiteral

LEMMA GreetingEnds ==
  ASSUME NEW C, NEW c \in Seq(C), NEW p
  PROVE  /\ GreetingShape(p, c) \in Seq(PieceKinds) /\ EndsOnce(p, GreetingShape(p, c))
         /\ p # "sieve" => \A i \in 1..Len(GreetingShape(p, c)) :
                              GreetingShape(p, c)[i] # "literal"
<1>1. CASE p = "sieve"
  <2> DEFINE lines == [i \in DOMAIN Reachable(c) |-> "line"]
  <2>1. PICK known \in Seq(C), n \in Nat : known = Reachable(c) /\ n = Len(known)
    BY ReachableTyped, LenProperties
  <2>2. lines = [i \in 1..n |-> "line"]
    BY <2>1, LenProperties
  <2>3. PICK x \in Seq(PieceKinds) : x = lines /\ Len(x) = n /\ \A i \in 1..n : x[i] = "line"
    <3>1. "line" \in PieceKinds
      BY DEF PieceKinds
    <3>2. lines \in [1..n -> PieceKinds] /\ \A i \in 1..n : lines[i] = "line"
      BY <2>2, <3>1
    <3> HIDE DEF lines
    <3>3. lines \in Seq(PieceKinds) /\ Len(lines) = n
      BY <3>2
    <3> QED
      BY <3>2, <3>3
  <2>4. PICK y \in Seq(PieceKinds) : y = <<"last">> /\ Len(y) = 1 /\ y[1] = "last"
    <3>1. <<"last">> \in Seq(PieceKinds)
      BY DEF PieceKinds
    <3> QED
      BY <3>1
  <2>5. /\ x \o y \in Seq(PieceKinds) /\ Len(x \o y) = n + 1
        /\ \A i \in 1..n : (x \o y)[i] = "line"
    BY <2>3, <2>4, Joined
  <2>6. (x \o y)[n + 1] = "last"
    BY <2>3, <2>4, Joined
  <2>7. EndsOnce(p, x \o y)
    BY <2>5, <2>6 DEF EndsOnce, Finals, FinalsOf
  <2>8. GreetingShape(p, c) = x \o y
    BY <1>1, <2>3, <2>4 DEF GreetingShape
  <2> QED
    BY <1>1, <2>5, <2>7, <2>8
<1>2. CASE p # "sieve"
  <2>1. GreetingShape(p, c) = <<"part", "last">>
    BY <1>2 DEF GreetingShape
  <2>2. <<"part", "last">> \in Seq(PieceKinds) /\ EndsOnce(p, <<"part", "last">>)
    BY DEF PieceKinds, EndsOnce, Finals, FinalsOf
  <2> QED
    BY <2>1, <2>2
<1> QED
  BY <1>1, <1>2

LEMMA InitInTurn == Init => Pipes /\ Dialogue
<1> SUFFICES ASSUME Init PROVE Pipes /\ Dialogue
  OBVIOUS
<1>1. PICK C : capabilities \in Seq(C)
  <2>1. CASE protocol = "sieve"
    BY <2>1, ReplAssumption DEF Init, ReplAssumption
  <2>2. CASE protocol # "sieve"
    BY <2>2 DEF Init
  <2> QED
    BY <2>1, <2>2
<1>2. PICK shape \in Seq(PieceKinds) :
         /\ shape = GreetingShape(protocol, capabilities) /\ EndsOnce(protocol, shape)
         /\ protocol # "sieve" => \A i \in 1..Len(shape) : shape[i] # "literal"
  BY <1>1, GreetingEnds
<1>3. owed = Reply(0, shape) /\ sent = 0 /\ inbox = <<>> /\ asked = <<>>
  BY <1>2 DEF Init
<1>4. /\ Reply(0, shape) \in Seq(AnyPiece) /\ Ending(protocol, Reply(0, shape), 0)
      /\ protocol # "sieve" => NoLiteral(Reply(0, shape))
  BY <1>2, ReplyIs, ReplyEnds
<1>5. Pipes
  <2>1. taken = FALSE /\ asked \in Seq(Nat) /\ protocol \in Kinds
    BY <1>3 DEF Init
  <2>2. owed \in Seq(AnyPiece) /\ inbox \in Seq(AnyPiece)
    BY <1>3, <1>4
  <2> QED
    BY <1>3, <2>1, <2>2 DEF Pipes
<1>6. <<>> \o owed = owed
  BY <1>3, <1>4, ConcatEmptySeq
<1>7. Dialogue
  BY <1>3, <1>4, <1>6 DEF Dialogue, InTurn, Init, NoLiteral
<1> QED
  BY <1>5, <1>7

LEMMA ShapesAre ==
  ASSUME protocol \in Kinds, NEW shape \in Shapes[protocol]
  PROVE  shape \in Seq(PieceKinds) /\ EndsOnce(protocol, shape)
<1>1. DOMAIN shape = 1..Len(shape)
  BY ReplAssumption, LenProperties DEF ReplAssumption
<1>2. Len(shape) \in 1..Len(shape)
  BY ReplAssumption, EmptySeq, LenProperties DEF ReplAssumption
<1> QED
  BY <1>1, <1>2, ReplAssumption DEF ReplAssumption, PieceKinds, EndsOnce, Finals, FinalsOf

LEMMA NextPipes == Pipes /\ [Next]_vars => Pipes'
<1> SUFFICES ASSUME Pipes, [Next]_vars PROVE Pipes'
  OBVIOUS
<1> USE DEF Pipes
<1>1. CASE UNCHANGED vars
  BY <1>1 DEF vars, client, pipes
<1>2. CASE ImapRead
  <2>1. PICK n \in 0..Len(inbox) : inbox' = SubSeq(inbox, n + 1, Len(inbox))
    <3>1. PICK n \in (IF atonce THEN {Len(inbox)} ELSE 1..Len(inbox)) :
             inbox' = SubSeq(inbox, n + 1, Len(inbox))
      BY <1>2 DEF ImapRead
    <3>2. Len(inbox) \in Nat
      BY LenProperties
    <3>3. n \in 0..Len(inbox)
      BY <3>1, <3>2
    <3> QED
      BY <3>1, <3>3
  <2>2. inbox' \in Seq(AnyPiece)
    BY <2>1, Cuts
  <2> QED
    BY <1>2, <2>2 DEF ImapRead
<1>3. CASE ReplyRead
  <2>1. inbox' \in Seq(AnyPiece)
    BY <1>3, HeadTailProperties DEF ReplyRead
  <2> QED
    BY <1>3, <2>1 DEF ReplyRead
<1>4. CASE ReadEnd \/ EnterFails \/ InputEnds
  BY <1>4 DEF ReadEnd, EnterFails, InputEnds, pipes
<1>5. CASE Enter
  <2>1. sent + 1 \in Nat /\ asked' = Append(asked, sent + 1)
    BY <1>5 DEF Enter
  <2>2. asked' \in Seq(Nat)
    BY <2>1, AppendProperties
  <2> QED
    BY <1>5, <2>1, <2>2 DEF Enter
<1>6. CASE ServerAnswers
  <2>1. PICK shape \in Shapes[protocol] : owed' = Reply(Head(asked), shape)
    BY <1>6 DEF ServerAnswers
  <2>2. Head(asked) \in Nat /\ Tail(asked) \in Seq(Nat)
    BY <1>6, HeadTailProperties DEF ServerAnswers
  <2>3. owed' \in Seq(AnyPiece)
    BY <2>1, <2>2, ShapesAre, ReplyIs
  <2> QED
    BY <1>6, <2>2, <2>3 DEF ServerAnswers, client
<1>t. CASE ServerTakes
  <2>1. Tail(asked) \in Seq(Nat)
    BY <1>t, HeadTailProperties DEF ServerTakes
  <2> QED
    BY <1>t, <2>1 DEF ServerTakes, client
<1>7. CASE ServerSends
  <2>1. PICK n \in 0..Len(owed) : /\ inbox' = inbox \o SubSeq(owed, 1, n)
                                  /\ owed' = SubSeq(owed, n + 1, Len(owed))
    <3>1. Len(owed) \in Nat /\ Len(owed) # 0
      BY <1>7, LenProperties, EmptySeq DEF ServerSends
    <3>2. PICK n : /\ n = IF atonce THEN Len(owed) ELSE 1
                   /\ inbox' = inbox \o SubSeq(owed, 1, n)
                   /\ owed' = SubSeq(owed, n + 1, Len(owed))
      BY <1>7 DEF ServerSends
    <3>3. n \in 0..Len(owed)
      BY <3>1, <3>2
    <3> QED
      BY <3>2, <3>3
  <2>2. SubSeq(owed, 1, n) \in Seq(AnyPiece) /\ owed' \in Seq(AnyPiece)
    BY <2>1, Cuts
  <2>3. inbox' \in Seq(AnyPiece)
    BY <2>1, <2>2, ConcatProperties
  <2> QED
    BY <1>7, <2>2, <2>3 DEF ServerSends, client
<1>8. CASE RelayCloses
  <2>1. PICK n \in 0..Len(inbox) : inbox' = SubSeq(inbox, 1, n)
    BY <1>8 DEF RelayCloses
  <2>2. inbox' \in Seq(AnyPiece)
    BY <2>1, Cuts
  <2>3. <<>> \in Seq(AnyPiece) /\ <<>> \in Seq(Nat)
    OBVIOUS
  <2> QED
    BY <1>8, <2>2, <2>3 DEF RelayCloses, client
<1> QED
  BY <1>1, <1>2, <1>3, <1>4, <1>5, <1>6, <1>t, <1>7, <1>8
     DEF Next, Client, Server, EnterEmpty, Over

\* One read takes a whole reply without a literal, and leaves nothing of it.
LEMMA ReadsToTheEnd ==
  ASSUME NEW s \in Seq(AnyPiece), NEW n, Ending("imap", s, n), NoLiteral(s)
  PROVE  Progressed(s) = Len(s)
<1>1. DOMAIN s = 1..Len(s) /\ Len(s) \in Nat /\ Len(s) \in 1..Len(s)
  BY LenProperties, EmptySeq DEF Ending
<1>2. {i \in DOMAIN s : s[i].kind = "literal"} = {}
  BY <1>1 DEF NoLiteral
<1> DEFINE lines == {i \in DOMAIN s : s[i].kind \in {"line", "last"}}
<1>3. Len(s) \in lines /\ lines \subseteq 1..Len(s)
  <2>1. s[Len(s)] = Piece(n, "last")
    BY DEF Ending, FinalsOf
  <2>2. s[Len(s)].kind = "last"
    BY <2>1 DEF Piece
  <2> QED
    BY <1>1, <2>2
<1>4. Progressed(s) = CHOOSE i \in lines : \A j \in lines : j <= i
  BY <1>2, <1>3 DEF Progressed
<1> HIDE DEF lines
<1>5. \A j \in lines : j <= Len(s)
  <2>1. \A j \in 1..Len(s) : j <= Len(s)
    OBVIOUS
  <2> QED
    BY <1>3, <2>1
<1>6. \A i \in lines : (\A j \in lines : j <= i) => i = Len(s)
  <2> SUFFICES ASSUME NEW i \in lines, \A j \in lines : j <= i PROVE i = Len(s)
    OBVIOUS
  <2>1. Len(s) <= i /\ i <= Len(s)
    BY <1>3, <1>5
  <2>2. i \in Int /\ Len(s) \in Int
    BY <1>1, <1>3
  <2> QED
    BY <2>1, <2>2
<1> QED
  BY <1>3, <1>4, <1>5, <1>6

\* One piece of a reply goes: the last one, or one with others behind it.
LEMMA EndingTail ==
  ASSUME NEW p, NEW s \in Seq(AnyPiece), NEW n, Ending(p, s, n)
  PROVE  /\ s[1].kind \in Finals => Len(s) = 1 /\ \E k \in FinalsOf(p) : s[1] = Piece(n, k)
         /\ s[1].kind \notin Finals => Ending(p, Tail(s), n)
<1>1. PICK l \in Nat : l = Len(s) /\ l # 0
  BY LenProperties, EmptySeq DEF Ending
<1>2. 1 \in 1..l /\ l \in 1..l
  BY <1>1
<1>3. ASSUME s[1].kind \in Finals
      PROVE  Len(s) = 1 /\ \E k \in FinalsOf(p) : s[1] = Piece(n, k)
  BY <1>1, <1>2, <1>3 DEF Ending
<1>4. ASSUME s[1].kind \notin Finals PROVE Ending(p, Tail(s), n)
  <2>1. l # 1
    BY <1>1, <1>2, <1>4 DEF Ending
  <2>2. Len(Tail(s)) = l - 1 /\ \A i \in 1..(l - 1) : Tail(s)[i] = s[i + 1]
    BY <1>1, EmptySeq, HeadTailProperties
  <2>3. l - 1 \in 1..(l - 1) /\ (l - 1) + 1 = l
    BY <1>1, <2>1
  <2>4. \E k \in FinalsOf(p) : Tail(s)[l - 1] = Piece(n, k)
    BY <1>1, <2>2, <2>3 DEF Ending
  <2>5. ASSUME NEW i \in 1..(l - 1) PROVE Tail(s)[i].kind \in Finals <=> i = l - 1
    <3>1. i + 1 \in 1..l /\ (i + 1 = l <=> i = l - 1)
      BY <1>1
    <3> QED
      BY <1>1, <2>2, <3>1 DEF Ending
  <2>6. PICK t \in Seq(AnyPiece) : t = Tail(s) /\ Len(t) = l - 1 /\ t # <<>>
    <3>1. s # <<>>
      BY DEF Ending
    <3>2. PICK t \in Seq(AnyPiece) : t = Tail(s)
      BY <3>1, HeadTailProperties
    <3>3. Len(t) = l - 1 /\ l - 1 # 0
      BY <2>1, <2>2, <3>2, <1>1
    <3> QED
      BY <3>2, <3>3, EmptySeq
  <2>7. Ending(p, t, n)
    BY <2>4, <2>5, <2>6 DEF Ending
  <2> QED
    BY <2>6, <2>7
<1> QED
  BY <1>3, <1>4, Zenon

LEMMA NextInTurn == Pipes /\ Dialogue /\ [Next]_vars => Dialogue'
<1> SUFFICES ASSUME Pipes, Dialogue, [Next]_vars,
                    relay' = "up", protocol' = "imap" => atonce'
             PROVE  InTurn'
  BY DEF Dialogue
<1>0. /\ relay = "up" /\ InTurn /\ protocol' = protocol /\ atonce' = atonce
      /\ protocol = "imap" => atonce
  <2> SUFFICES relay = "up" /\ protocol' = protocol /\ atonce' = atonce
    BY DEF Dialogue
  <2>1. CASE ImapRead \/ ReplyRead \/ ReadEnd
    BY <2>1 DEF ImapRead, ReplyRead, ReadEnd, pipes
  <2>2. CASE Enter \/ EnterFails \/ InputEnds
    BY <2>2 DEF Enter, EnterFails, InputEnds, pipes
  <2>3. CASE Server \/ RelayCloses
    BY <2>3 DEF Server, ServerAnswers, ServerTakes, ServerSends, RelayCloses
  <2>4. CASE UNCHANGED vars
    BY <2>4 DEF vars, pipes
  <2> QED
    BY <2>1, <2>2, <2>3, <2>4 DEF Next, Client, EnterEmpty, Over
<1>t. /\ sent \in Nat /\ protocol \in Kinds
      /\ asked \in Seq(Nat) /\ inbox \in Seq(AnyPiece) /\ owed \in Seq(AnyPiece)
  BY DEF Pipes
<1> USE DEF InTurn, Quiet, Stuck
<1>1. CASE UNCHANGED vars
  BY <1>0, <1>1 DEF vars, client, pipes
<1>2. CASE ImapRead
  <2>1. /\ protocol = "imap" /\ pc = "read" /\ inbox # <<>> /\ pc' = "prompt"
        /\ UNCHANGED <<sent, asked, owed>>
    BY <1>2 DEF ImapRead
  <2>2. owed = <<>> /\ asked = <<>> /\ buf = <<>> /\ NoLiteral(inbox)
    BY <1>0, <2>1
  <2>3. Ending(protocol, inbox, sent)
    <3>1. inbox \o <<>> = inbox
      BY <1>t, ConcatEmptySeq
    <3> QED
      BY <1>0, <2>1, <2>2, <3>1
  <2>4. Progressed(inbox) = Len(inbox) /\ Len(inbox) # 0
    BY <1>t, <2>1, <2>2, <2>3, ReadsToTheEnd, EmptySeq
  <2>5. /\ SubSeq(inbox, 1, Len(inbox)) = inbox
        /\ SubSeq(inbox, Len(inbox) + 1, Len(inbox)) = <<>>
    <3>1. Len(inbox) \in 0..Len(inbox)
      BY <1>t, LenProperties
    <3> QED
      BY <1>t, <3>1, Cuts
  <2>6. <<>> \o inbox = inbox
    BY <1>t, ConcatEmptySeq
  <2>7. shown' = inbox[Len(inbox)] /\ buf' = <<>> /\ inbox' = <<>>
    BY <1>0, <1>2, <2>1, <2>2, <2>4, <2>5, <2>6 DEF ImapRead
  <2>8. shown' = Piece(sent, "last")
    BY <2>1, <2>3, <2>7 DEF Ending, FinalsOf
  <2> QED
    BY <1>0, <2>1, <2>2, <2>7, <2>8 DEF NoLiteral
<1>3. CASE ReplyRead
  <2>1. /\ protocol # "imap" /\ pc = "read" /\ inbox # <<>>
        /\ inbox' = Tail(inbox) /\ shown' = Head(inbox)
        /\ UNCHANGED <<sent, buf, asked, owed>>
        /\ pc' = IF Head(inbox).kind = "last" THEN "prompt" ELSE "read"
    BY <1>3 DEF ReplyRead, Ends
  <2>2. asked = <<>> /\ Ending(protocol, inbox \o owed, sent)
    BY <1>0, <2>1
  <2>3. /\ inbox \o owed \in Seq(AnyPiece) /\ (inbox \o owed)[1] = Head(inbox)
        /\ Tail(inbox \o owed) = Tail(inbox) \o owed
        /\ Len(inbox \o owed) = Len(inbox) + Len(owed)
        /\ Len(inbox) \in Nat /\ Len(owed) \in Nat
    BY <1>t, <2>1, Joined, JoinedHead
  <2>4. CASE Head(inbox).kind \in Finals
    <3>1. /\ Len(inbox \o owed) = 1
          /\ \E k \in FinalsOf(protocol) : Head(inbox) = Piece(sent, k)
      BY <2>2, <2>3, <2>4, EndingTail
    <3>2. Len(inbox) = 1 /\ Len(owed) = 0
      <4>1. Len(inbox) # 0
        BY <1>t, <2>1, EmptySeq
      <4>2. PICK a \in Nat, b \in Nat : a = Len(inbox) /\ b = Len(owed) /\ a + b = 1
        <5>1. Len(inbox) + Len(owed) = Len(inbox \o owed)
          BY <2>3
        <5>2. Len(inbox) + Len(owed) = 1
          BY <3>1, <5>1
        <5> QED
          BY <2>3, <5>2
      <4> QED
        BY <4>1, <4>2
    <3>3. Tail(inbox) = <<>> /\ owed = <<>>
      <4>1. owed = <<>>
        BY <1>t, <3>2, EmptySeq
      <4>2. Tail(inbox) \in Seq(AnyPiece) /\ Len(Tail(inbox)) = 0
        BY <1>t, <2>1, <3>2, HeadTailProperties
      <4> QED
        BY <4>1, <4>2, EmptySeq
    <3>4. \/ Head(inbox) = Piece(sent, "last") /\ Head(inbox).kind = "last"
          \/ Head(inbox).kind = "bare" /\ protocol = "smtp"
      BY <3>1 DEF FinalsOf, Finals, Piece
    <3> QED
      BY <1>0, <2>1, <2>2, <3>3, <3>4
  <2>5. CASE Head(inbox).kind \notin Finals
    <3>0. Head(inbox).kind # "last"
      BY <2>5 DEF Finals
    <3>1. Ending(protocol, Tail(inbox) \o owed, sent)
      BY <2>2, <2>3, <2>5, EndingTail
    <3> QED
      BY <1>0, <2>1, <2>2, <3>0, <3>1
  <2> QED
    BY <2>4, <2>5
<1>4. CASE ReadEnd \/ EnterFails
  BY <1>0, <1>4 DEF ReadEnd, EnterFails
<1>5. CASE InputEnds
  BY <1>0, <1>5 DEF InputEnds, Returns, pipes
<1>6. CASE Enter
  <2>1. /\ pc = "prompt" /\ pc' = "read" /\ sent' = sent + 1
        /\ asked' = Append(asked, sent + 1) /\ UNCHANGED <<buf, owed, inbox>>
    BY <1>6 DEF Enter
  <2>2. asked' = <<sent'>>
    BY <1>0, <2>1
  <2> QED
    BY <1>0, <2>1, <2>2
<1>7. CASE ServerAnswers
  <2>1. PICK shape \in Shapes[protocol] :
           (atonce => Plain(shape)) /\ owed' = Reply(Head(asked), shape)
    BY <1>7 DEF ServerAnswers
  <2>2. /\ owed = <<>> /\ asked # <<>> /\ asked' = Tail(asked)
        /\ UNCHANGED <<pc, sent, buf, shown, inbox>>
    BY <1>7 DEF ServerAnswers, client
  <2>3. pc = "read" /\ asked = <<sent>> /\ inbox = <<>>
    BY <1>0, <2>2
  <2>4. Head(asked) = sent /\ asked' = <<>>
    BY <2>2, <2>3
  <2>5. shape \in Seq(PieceKinds) /\ EndsOnce(protocol, shape)
    BY <1>t, ShapesAre
  <2>6. DOMAIN shape = 1..Len(shape)
    BY <2>5, LenProperties
  <2>7. atonce => NoLiteral(owed')
    BY <1>t, <2>1, <2>4, <2>5, <2>6, ReplyEnds DEF Plain
  <2>8. Ending(protocol, owed', sent) /\ owed' \in Seq(AnyPiece)
    BY <1>t, <2>1, <2>4, <2>5, ReplyEnds, ReplyIs
  <2>9. <<>> \o owed' = owed'
    BY <2>8, ConcatEmptySeq
  <2> QED
    BY <1>0, <2>2, <2>3, <2>4, <2>7, <2>8, <2>9 DEF NoLiteral
<1>a. CASE ServerTakes
  <2>1. /\ owed = <<>> /\ asked # <<>> /\ asked' = Tail(asked) /\ taken'
        /\ UNCHANGED <<pc, sent, buf, shown, relay, owed, inbox>>
    BY <1>a DEF ServerTakes, client
  <2>2. pc = "read" /\ asked' = <<>> /\ inbox = <<>>
    BY <1>0, <1>t, <2>1
  <2> QED
    BY <1>0, <2>1, <2>2
<1>8. CASE ServerSends
  <2>1. PICK n : /\ n = IF atonce THEN Len(owed) ELSE 1
                 /\ inbox' = inbox \o SubSeq(owed, 1, n)
                 /\ owed' = SubSeq(owed, n + 1, Len(owed))
    BY <1>8 DEF ServerSends
  <2>2. owed # <<>> /\ UNCHANGED <<pc, sent, buf, shown, asked>>
    BY <1>8 DEF ServerSends, client
  <2>3. pc = "read" /\ asked = <<>> /\ Ending(protocol, inbox \o owed, sent)
    BY <1>0, <2>2
  <2>4. n \in 0..Len(owed)
    BY <1>t, <2>1, <2>2, EmptySeq, LenProperties
  <2>5. PICK h \in Seq(AnyPiece), t \in Seq(AnyPiece) :
           /\ h = SubSeq(owed, 1, n) /\ t = SubSeq(owed, n + 1, Len(owed))
           /\ h \o t = owed /\ (n = Len(owed) => h = owed /\ t = <<>>)
    <3>1. PICK y \in Seq(AnyPiece) : y = owed
      BY <1>t
    <3>2. n \in 0..Len(y)
      BY <2>4, <3>1
    <3>3. /\ SubSeq(y, 1, n) \in Seq(AnyPiece) /\ SubSeq(y, n + 1, Len(y)) \in Seq(AnyPiece)
          /\ SubSeq(y, 1, n) \o SubSeq(y, n + 1, Len(y)) = y
          /\ n = Len(y) => SubSeq(y, 1, n) = y /\ SubSeq(y, n + 1, Len(y)) = <<>>
      BY <3>2, Cuts, ZenonT(30)
    <3> QED
      BY <3>1, <3>3
  <2>6. inbox' \o owed' = inbox \o owed
    <3>1. PICK x \in Seq(AnyPiece) : x = inbox
      BY <1>t
    <3>2. (x \o h) \o t = x \o (h \o t)
      BY ConcatAssociative
    <3> QED
      BY <2>1, <2>5, <3>1, <3>2
  <2>7. CASE protocol = "imap"
    <3>1. inbox = <<>> /\ NoLiteral(owed) /\ h = owed /\ t = <<>>
      BY <1>0, <2>1, <2>2, <2>5, <2>7
    <3>2. inbox' = owed /\ owed' = <<>>
      BY <1>t, <2>1, <2>5, <3>1, ConcatEmptySeq
    <3> QED
      BY <1>0, <2>2, <2>3, <2>6, <3>1, <3>2 DEF NoLiteral
  <2>8. CASE protocol # "imap"
    BY <1>0, <2>2, <2>3, <2>6, <2>8
  <2> QED
    BY <2>7, <2>8
<1>9. CASE RelayCloses
  BY <1>9 DEF RelayCloses
<1> QED
  BY <1>1, <1>2, <1>3, <1>4, <1>5, <1>6, <1>7, <1>a, <1>8, <1>9
     DEF Next, Client, Server, EnterEmpty, Over

(* For any commands and replies: at a prompt the whole reply to the last   *)
(* line is on the screen and nothing is under way, over IMAP where replies *)
(* come in one go.                                                         *)
THEOREM PromptsInStep == Spec => []InStep
<1>1. Dialogue => InStep
  BY DEF Dialogue, InTurn, Quiet, InStep
<1>2. Pipes /\ Dialogue /\ [Next]_vars => Pipes' /\ Dialogue'
  BY NextPipes, NextInTurn
<1> QED
  BY <1>1, <1>2, InitInTurn, PTL DEF Spec

Idle == relay = "up" /\ asked = <<>> /\ owed = <<>> /\ inbox = <<>>

(* Whoever waits with nothing under way is Stuck: a reading client that is *)
(* neither owed a reply nor has a line under way sent one that the server  *)
(* took for a part of something, or is the SMTP one behind a bare line.    *)
(* It waits for no reply to a line it never sent.                          *)
THEOREM WaitsAreOwed ==
  Spec => [](pc = "read" /\ Idle /\ (protocol = "imap" => atonce) => Stuck)
<1>1. Pipes /\ Dialogue => (pc = "read" /\ Idle /\ (protocol = "imap" => atonce) => Stuck)
  <2>1. <<>> \o <<>> = <<>>
    OBVIOUS
  <2> QED
    BY <2>1 DEF Dialogue, InTurn, Idle, Ending
<1>2. Pipes /\ Dialogue /\ [Next]_vars => Pipes' /\ Dialogue'
  BY NextPipes, NextInTurn
<1> QED
  BY <1>1, <1>2, InitInTurn, PTL DEF Spec
=============================================================================
