-------------------------- MODULE ConfigureProofs --------------------------
(***************************************************************************)
(* What saving and appending keep, for any number of runs, any documents   *)
(* and any labels.                                                         *)
(***************************************************************************)
EXTENDS Configure, SequenceTheorems, FiniteSetTheorems, TLAPS

----------------------------------------------------------------------------
(* Documents.                                                              *)

LEMMA Kinds ==
  /\ LineEnd \in Items /\ ~IsAccount(LineEnd) /\ LineEnd.kind # "garbage"
  /\ Garbage \in Items
  /\ \A n \in Names, d \in BOOLEAN :
        /\ Table(n, d) \in Items /\ IsAccount(Table(n, d))
        /\ Table(n, d).name = n /\ Table(n, d).default = d /\ Table(n, d).kind = "table"
  /\ \A item \in Items : IsAccount(item) => item.name \in Names /\ item.default \in BOOLEAN
<1>1. LineEnd \in Items /\ ~IsAccount(LineEnd) /\ LineEnd.kind # "garbage"
  BY DEF Items, LineEnd, IsAccount
<1>2. Garbage \in Items /\ ~IsAccount(Garbage)
  BY DEF Items, Garbage, IsAccount
<1>3. \A n \in Names, d \in BOOLEAN :
        /\ Table(n, d) \in Items /\ IsAccount(Table(n, d))
        /\ Table(n, d).name = n /\ Table(n, d).default = d /\ Table(n, d).kind = "table"
  BY DEF Items, Table, IsAccount
<1>4. \A item \in Items : IsAccount(item) => item.name \in Names /\ item.default \in BOOLEAN
  BY <1>1, <1>2 DEF Items
<1> QED
  BY <1>1, <1>2, <1>3, <1>4

\* A document with one item more.
LEMMA Extended ==
  ASSUME NEW doc \in Seq(Items), NEW item \in Items
  PROVE  LET new == doc \o <<item>> IN
         /\ new \in Seq(Items) /\ Len(doc) \in Nat /\ Len(new) = Len(doc) + 1
         /\ DOMAIN doc = 1..Len(doc) /\ DOMAIN new = 1..(Len(doc) + 1)
         /\ \A i \in 1..Len(doc) : new[i] = doc[i]
         /\ new[Len(doc) + 1] = item
         /\ IsPrefix(doc, new)
<1> DEFINE new == doc \o <<item>>
<1>1. <<item>> \in Seq(Items) /\ Len(<<item>>) = 1 /\ <<item>>[1] = item
  OBVIOUS
<1>2. /\ new \in Seq(Items) /\ Len(doc) \in Nat /\ Len(new) = Len(doc) + 1
      /\ \A i \in 1..(Len(doc) + 1) :
            new[i] = IF i <= Len(doc) THEN doc[i] ELSE <<item>>[i - Len(doc)]
  BY <1>1, ConcatProperties, LenProperties
<1>3. DOMAIN doc = 1..Len(doc) /\ DOMAIN new = 1..(Len(doc) + 1)
  BY <1>2, LenProperties
<1>4. /\ \A i \in 1..Len(doc) : new[i] = doc[i]
      /\ new[Len(doc) + 1] = item
  BY <1>1, <1>2
<1>5. SubSeq(doc, 1, Len(doc)) = SubSeq(new, 1, Len(doc))
  BY <1>2, <1>4
<1> QED
  BY <1>2, <1>3, <1>4, <1>5 DEF IsPrefix

LEMMA TablesExtended ==
  ASSUME NEW doc \in Seq(Items), NEW item \in Items
  PROVE  Tables(doc \o <<item>>) =
            IF IsAccount(item) THEN Tables(doc) \union {item} ELSE Tables(doc)
<1> DEFINE new == doc \o <<item>>
<1>1. /\ Len(doc) \in Nat /\ DOMAIN doc = 1..Len(doc) /\ DOMAIN new = 1..(Len(doc) + 1)
      /\ \A i \in 1..Len(doc) : new[i] = doc[i]
      /\ new[Len(doc) + 1] = item
  BY Extended
<1>2. \A t : t \in Tables(new) <=> \E i \in 1..(Len(doc) + 1) : IsAccount(new[i]) /\ t = new[i]
  BY <1>1 DEF Tables, IsAccount
<1>3. \A t : t \in Tables(doc) <=> \E i \in 1..Len(doc) : IsAccount(doc[i]) /\ t = doc[i]
  BY <1>1 DEF Tables, IsAccount
<1>4. 1..(Len(doc) + 1) = 1..Len(doc) \union {Len(doc) + 1}
  BY <1>1
<1> HIDE DEF new
<1>5. \A t : t \in Tables(new) <=> t \in Tables(doc) \/ (IsAccount(item) /\ t = item)
  BY <1>1, <1>2, <1>3, <1>4
<1> QED
  BY <1>5 DEF new

\* A line end changes nothing a reader sees.
LEMMA LineEndKeeps ==
  ASSUME NEW doc \in Seq(Items), Parses(doc)
  PROVE  LET new == doc \o <<LineEnd>> IN
         /\ Parses(new) /\ Tables(new) = Tables(doc) /\ Held(new) = Held(doc)
<1> DEFINE new == doc \o <<LineEnd>>
<1>1. /\ Len(doc) \in Nat /\ DOMAIN doc = 1..Len(doc) /\ DOMAIN new = 1..(Len(doc) + 1)
      /\ \A i \in 1..Len(doc) : new[i] = doc[i]
      /\ new[Len(doc) + 1] = LineEnd
  BY Extended, Kinds
<1>2. Tables(new) = Tables(doc)
  BY TablesExtended, Kinds
<1>3. 1..(Len(doc) + 1) = 1..Len(doc) \union {Len(doc) + 1}
  BY <1>1
<1>4. ~IsAccount(LineEnd) /\ LineEnd.kind # "garbage"
  BY Kinds
<1> HIDE DEF new
<1>5. \A i \in DOMAIN new : new[i].kind # "garbage"
  BY <1>1, <1>3, <1>4 DEF Parses
<1>6. \A i \in DOMAIN new : IsAccount(new[i]) => i \in 1..Len(doc) /\ new[i] = doc[i]
  BY <1>1, <1>3, <1>4
<1>7. \A i \in DOMAIN new : IsAccount(new[i]) /\ i > 1 => new[i - 1] = LineEnd
  <2> SUFFICES ASSUME NEW i \in DOMAIN new, IsAccount(new[i]), i > 1
               PROVE  new[i - 1] = LineEnd
    OBVIOUS
  <2>1. i \in 1..Len(doc) /\ IsAccount(doc[i]) /\ i - 1 \in 1..Len(doc)
    BY <1>1, <1>6
  <2> QED
    BY <1>1, <2>1 DEF Parses
<1>8. \A i, j \in DOMAIN new :
         IsAccount(new[i]) /\ IsAccount(new[j]) =>
            (new[i].name = new[j].name \/ new[i].kind = "inline" => i = j)
  BY <1>1, <1>6 DEF Parses
<1>9. Parses(new)
  BY <1>2, <1>5, <1>7, <1>8 DEF Parses
<1> QED
  BY <1>2, <1>9 DEF Held, new

\* A table of a name the document does not hold, on a line of its own.
LEMMA TableKeeps ==
  ASSUME NEW doc \in Seq(Items), Parses(doc), doc[Len(doc)] = LineEnd,
         Appendable(doc), NEW n \in Names, n \notin Held(doc), NEW d \in BOOLEAN
  PROVE  LET new == doc \o <<Table(n, d)>> IN
         Parses(new) /\ Tables(new) = Tables(doc) \union {Table(n, d)}
<1> DEFINE t == Table(n, d)  new == doc \o <<t>>
<1>0. t \in Items /\ IsAccount(t) /\ t.name = n /\ t.kind = "table"
  BY Kinds
<1> HIDE DEF t
<1>1. /\ Len(doc) \in Nat /\ DOMAIN doc = 1..Len(doc) /\ DOMAIN new = 1..(Len(doc) + 1)
      /\ \A i \in 1..Len(doc) : new[i] = doc[i]
      /\ new[Len(doc) + 1] = t
  BY <1>0, Extended
<1>2. Tables(new) = Tables(doc) \union {t}
  BY <1>0, TablesExtended
<1>3. 1..(Len(doc) + 1) = 1..Len(doc) \union {Len(doc) + 1}
  BY <1>1
<1> HIDE DEF new
<1>5. \A i \in DOMAIN new : new[i].kind # "garbage"
  BY <1>0, <1>1, <1>3 DEF Parses
<1>6. \A i \in DOMAIN new : IsAccount(new[i]) /\ i > 1 => new[i - 1] = LineEnd
  <2> SUFFICES ASSUME NEW i \in DOMAIN new, IsAccount(new[i]), i > 1
               PROVE  new[i - 1] = LineEnd
    OBVIOUS
  <2>1. CASE i = Len(doc) + 1
    BY <1>1, <2>1
  <2>2. CASE i # Len(doc) + 1
    <3>1. i \in 1..Len(doc) /\ IsAccount(doc[i]) /\ i - 1 \in 1..Len(doc)
      BY <1>1, <2>2
    <3> QED
      BY <1>1, <3>1 DEF Parses
  <2> QED
    BY <2>1, <2>2
<1>7. \A i \in 1..Len(doc) : IsAccount(doc[i]) => doc[i].name # n /\ doc[i].kind = "table"
  BY <1>1 DEF Held, Tables, Appendable
<1>8. \A i, j \in DOMAIN new :
         IsAccount(new[i]) /\ IsAccount(new[j]) =>
            (new[i].name = new[j].name \/ new[i].kind = "inline" => i = j)
  BY <1>0, <1>1, <1>3, <1>7 DEF Parses
<1>9. Parses(new)
  BY <1>2, <1>5, <1>6, <1>8 DEF Parses
<1> QED
  BY <1>2, <1>9 DEF new, t

\* What can be appended to after one item more could be before.
LEMMA AppendableBefore ==
  ASSUME NEW doc \in Seq(Items), NEW item \in Items, Appendable(doc \o <<item>>)
  PROVE  Appendable(doc)
  BY TablesExtended DEF Appendable

LEMMA HeldFinite ==
  ASSUME NEW doc \in Seq(Items)
  PROVE  /\ IsFiniteSet(Held(doc)) /\ Held(doc) \subseteq Names
         /\ (\E t \in Tables(doc) : t.default) \in BOOLEAN
<1> DEFINE I == {i \in 1..Len(doc) : IsAccount(doc[i])}
           f == [i \in I |-> doc[i].name]
<1>1. Len(doc) \in Nat /\ DOMAIN doc = 1..Len(doc) /\ \A i \in 1..Len(doc) : doc[i] \in Items
  BY LenProperties
<1>2. IsFiniteSet(I)
  <2>1. I \in SUBSET (1..Len(doc)) /\ IsFiniteSet(1..Len(doc))
    BY <1>1, FS_Interval
  <2> QED
    BY <2>1, FS_Subset
<1>3. \A x : x \in Held(doc) <=> \E i \in I : x = doc[i].name
  BY <1>1 DEF Held, Tables, IsAccount
<1>4. f \in Surjection(I, Held(doc))
  BY <1>3 DEF Surjection
<1>5. IsFiniteSet(Held(doc))
  BY <1>2, <1>4, FS_Surjection
<1>6. Held(doc) \subseteq Names
  BY <1>1, <1>3, Kinds
<1> QED
  BY <1>5, <1>6

LEMMA Least ==
  ASSUME NEW S \in SUBSET Nat, S # {}
  PROVE  \E k \in S : \A j \in S : k <= j
<1>1. PICK k \in S : \A j \in S : ~(<<j, k>> \in OpToRel(<, Nat))
  BY NatLessThanWellFounded, WFMin
<1>2. \A j \in S : ~(j < k)
  BY <1>1 DEF OpToRel
<1> QED
  BY <1>2

\* One suffix more than there are names to avoid.
LEMMA SomeNameFree ==
  ASSUME NEW taken, IsFiniteSet(taken), NEW label
  PROVE  \E k \in 1..(Cardinality(taken) + 1) : Name(label, k) \notin taken
<1> DEFINE n == Cardinality(taken)
           f == [k \in 1..(n + 1) |-> Name(label, k)]
<1> SUFFICES ASSUME \A k \in 1..(n + 1) : Name(label, k) \in taken PROVE FALSE
  OBVIOUS
<1>1. n \in Nat
  BY FS_CardinalityType
<1>2. IsFiniteSet(1..(n + 1)) /\ n < Cardinality(1..(n + 1))
  BY <1>1, FS_Interval
<1>3. f \in [1..(n + 1) -> taken]
  OBVIOUS
<1>4. PICK x, y \in 1..(n + 1) : x # y /\ f[x] = f[y]
  <2> HIDE DEF f
  <2> QED
    BY <1>2, <1>3, FS_PigeonHole
<1> QED
  BY <1>4 DEF Name

\* The suffix ends on a name nobody holds, however many are taken.
LEMMA NameIsFree ==
  ASSUME NEW label \in STRING, NEW existing,
         IsFiniteSet(UNION {e.names : e \in existing})
  PROVE  /\ AccountName(label, existing) \in Names
         /\ \A e \in existing : AccountName(label, existing) \notin e.names
         /\ label # "" => AccountName(label, existing) # NoName
<1> DEFINE taken == UNION {e.names : e \in existing}
           n     == Cardinality(taken)
           free  == {k \in 1..(n + 1) : Name(label, k) \notin taken}
<1>1. n \in Nat /\ IsFiniteSet(taken)
  BY FS_CardinalityType
<1>2. \E k \in 1..(n + 1) : Name(label, k) \notin taken
  BY <1>1, SomeNameFree
<1>3. PICK k \in free : \A j \in free : k <= j
  <2>1. free \in SUBSET Nat
    <3>1. 1..(n + 1) \subseteq Nat
      BY <1>1
    <3> QED
      BY <3>1
  <2>2. free # {}
    BY <1>2
  <2> HIDE DEF free
  <2> QED
    BY <2>1, <2>2, Least
<1> DEFINE c == CHOOSE i \in free : \A j \in free : i <= j
<1>4. c \in free
  <2> HIDE DEF free
  <2> QED
    BY <1>3
<1>5. AccountName(label, existing) = Name(label, c)
  BY DEF AccountName
<1>6. c \in Nat /\ Name(label, c) \notin taken
  BY <1>1, <1>4
<1> HIDE DEF c
<1>7. Name(label, c) \in Names
  BY <1>6 DEF Name, Names
<1>8. label # "" => Name(label, c) # NoName
  BY DEF Name, NoName
<1> QED
  BY <1>5, <1>6, <1>7, <1>8

----------------------------------------------------------------------------
Stages == {"start", "offer", "read", "wizard", "ask", "save", "write", "open",
           "line", "table", "end", "again", "done", "aborted", "started", "refused"}

Snapshots == [names : {N \in SUBSET Names : IsFiniteSet(N)}, has_default : BOOLEAN]
Accounts  == [name : Names, default : BOOLEAN]

TypeOK ==
    /\ file \in Option(Seq(Items))
    /\ pc \in [Runs -> Stages]
    /\ request \in [Runs -> Requests]
    /\ snapshot \in [Runs -> Option(Snapshots)]
    /\ output \in [Runs -> Option(Accounts)]
    /\ saved \subseteq Runs /\ stale \subseteq Runs
    /\ chosen \in [Runs -> SUBSET Names]

\* What ExistingConfig keeps of a document, and what the wizard makes of it.
Seen(doc) == [names |-> Held(doc), has_default |-> \E t \in Tables(doc) : t.default]
Drafted(label, existing) ==
    [name |-> AccountName(label, existing), default |-> ClaimsDefault(existing)]

\* The account is reached as it is reported.
Reached(doc, o) ==
    IF o.default THEN Resolves(doc, NoName) = {o.name}
    ELSE /\ Resolves(doc, NoName) \notin {{}, {o.name}}
         /\ o.name = TheDefault \/ Resolves(doc, o.name) = {o.name}

(* The stages of a run: what it saves comes from what it read, and a new   *)
(* file is written only where none was found.                              *)
Planned(p) ==
    /\ pc[p] \in {"save", "write"} => snapshot[p] = None
    /\ pc[p] \in {"open", "line", "table", "end"} => snapshot[p] # None
    /\ pc[p] \in {"ask", "save", "write", "open", "line", "table"} =>
          \E label \in Labels : output[p] = Some(Drafted(label, snapshot[p]))
    /\ p \in saved => pc[p] \in {"again", "done", "started", "refused"}
    /\ pc[p] = "end" \/ p \in saved => output[p] # None

(* A run that appends, as long as nobody else touches the file: it parses, *)
(* is what was read until the table is in, which starts on a line.         *)
Kept(p) ==
    Fresh(p) /\ snapshot[p] # None /\ (\A doc \in file : Appendable(doc)) =>
        \E doc \in file :
            /\ Parses(doc)
            /\ pc[p] \in {"wizard", "ask", "open", "line", "table"} =>
                  snapshot[p] = Some(Seen(doc))
            /\ pc[p] = "table" => doc[Len(doc)] = LineEnd
            /\ pc[p] = "end" \/ p \in saved => \A o \in output[p] : Reached(doc, o)

(* A run that creates the file, as long as nobody else touches it.         *)
Created(p) ==
    Fresh(p) /\ snapshot[p] = None =>
        /\ pc[p] \in {"wizard", "ask", "save"} => file = None
        /\ pc[p] = "write" => file = {<<>>}
        /\ p \in saved => \E doc \in file :
              Parses(doc) /\ \A o \in output[p] : o.default /\ Reached(doc, o)
        /\ p \in saved /\ request[p].asked = NoName =>
              /\ pc[p] # "refused"
              /\ pc[p] = "started" => chosen[p] = {o.name : o \in output[p]}

Good(p)  == Planned(p) /\ Kept(p) /\ Created(p)
SavedInv == TypeOK /\ \A p \in Runs : Good(p)
----------------------------------------------------------------------------
LEMMA Options ==
  ASSUME NEW S, NEW x
  PROVE  x \in Option(S) <=> (x = None \/ \E y \in S : x = Some(y))
  BY DEF Option, None, Some

LEMMA FileCases ==
  ASSUME TypeOK
  PROVE  \/ file = None /\ file = {}
         \/ \E doc \in Seq(Items) : file = {doc}
  BY Options DEF TypeOK, None, Some

LEMMA ResolvesNames ==
  ASSUME NEW doc \in Seq(Items), NEW name
  PROVE  Resolves(doc, name) \subseteq Names
  BY HeldFinite DEF Resolves, Held, Tables

LEMMA SeenTyped ==
  ASSUME NEW doc \in Seq(Items)
  PROVE  Seen(doc) \in Snapshots
  BY HeldFinite DEF Seen, Snapshots

LEMMA DraftTyped ==
  ASSUME NEW label \in Labels, NEW existing \in Option(Snapshots)
  PROVE  /\ Drafted(label, existing) \in Accounts
         /\ \A e \in existing : Drafted(label, existing).name \notin e.names
         /\ Drafted(label, existing).default = ClaimsDefault(existing)
         /\ Drafted(label, existing).name # NoName
<1>1. IsFiniteSet(UNION {e.names : e \in existing})
  <2>1. CASE existing = None
    <3>1. UNION {e.names : e \in existing} = {}
      BY <2>1 DEF None
    <3> QED
      BY <3>1, FS_EmptySet
  <2>2. ASSUME NEW e \in Snapshots, existing = Some(e) PROVE <1>1
    <3>1. UNION {x.names : x \in existing} = e.names
      BY <2>2 DEF Some
    <3> QED
      BY <3>1 DEF Snapshots
  <2> QED
    BY <2>1, <2>2, Options
<1>2. label \in STRING /\ label # ""
  BY ConfigureAssumption
<1>3. /\ AccountName(label, existing) \in Names
      /\ AccountName(label, existing) # NoName
      /\ \A e \in existing : AccountName(label, existing) \notin e.names
  BY <1>1, <1>2, NameIsFree
<1>4. ClaimsDefault(existing) \in BOOLEAN
  BY DEF ClaimsDefault
<1> QED
  BY <1>3, <1>4 DEF Drafted, Accounts

LEMMA GeneratedTyped ==
  ASSUME TypeOK, NEW p \in Runs
  PROVE  \/ Generated(p) = {}
         \/ \E o \in Accounts : /\ output[p] = {o} /\ Generated(p) = {Table(o.name, o.default)}
                                /\ Table(o.name, o.default) \in Items
<1>1. output[p] \in Option(Accounts)
  BY DEF TypeOK
<1>2. CASE output[p] = None
  BY <1>2 DEF Generated, None
<1>3. ASSUME NEW o \in Accounts, output[p] = Some(o)
      PROVE  /\ output[p] = {o} /\ Generated(p) = {Table(o.name, o.default)}
             /\ Table(o.name, o.default) \in Items
  BY <1>3, Kinds DEF Generated, Some, Accounts
<1> QED
  BY <1>1, <1>2, <1>3, Options

LEMMA Empty ==
  /\ {} \in Option(Seq(Items)) /\ Some(<<>>) \in Option(Seq(Items))
  /\ \A doc \in Seq(Items) : {doc} \in Option(Seq(Items))
  /\ \A x \in Option(Handmade) : x \in Option(Seq(Items))
  /\ None = {} /\ \A S : None \in Option(S)
<1>1. <<>> \in Seq(Items) /\ Handmade \subseteq Seq(Items)
  BY EmptySeq, ConfigureAssumption
<1> QED
  BY <1>1 DEF Option, None, Some

LEMMA InitTypeOK == Init => TypeOK
  BY Empty DEF Init, TypeOK, Stages

\* The next document of a file that is written at its end.
LEMMA AppendsTyped ==
  ASSUME TypeOK, NEW p \in Runs, NEW item \in Items, Appends(p, item)
  PROVE  file' \in Option(Seq(Items))
<1>1. CASE file = {}
  <2>1. file' = {}
    BY <1>1 DEF Appends
  <2> QED
    BY <2>1, Empty
<1>2. ASSUME NEW doc \in Seq(Items), file = {doc}
      PROVE  file' \in Option(Seq(Items))
  <2>1. file' = {doc \o <<item>>}
    BY <1>2 DEF Appends
  <2>2. doc \o <<item>> \in Seq(Items)
    BY Extended
  <2> QED
    BY <2>1, <2>2, Empty
<1> QED
  BY <1>1, <1>2, FileCases

LEMMA WasAppendable ==
  ASSUME TypeOK, NEW item \in Items, file' = {doc \o <<item>> : doc \in file},
         \A doc \in file' : Appendable(doc)
  PROVE  \A doc \in file : Appendable(doc)
<1> SUFFICES ASSUME NEW doc \in file PROVE Appendable(doc)
  OBVIOUS
<1>1. doc \in Seq(Items) /\ Appendable(doc \o <<item>>)
  BY FileCases
<1> QED
  BY <1>1, AppendableBefore

LEMMA NextTypeOK == TypeOK /\ [Next]_vars => TypeOK'
<1> SUFFICES ASSUME TypeOK, [Next]_vars PROVE TypeOK'
  OBVIOUS
<1> USE DEF TypeOK, Stages, Goes, Onwards, Disturbs
<1>1. CASE UNCHANGED vars
  BY <1>1 DEF vars
<1>2. ASSUME NEW p \in Runs,
             MeetBare(p) \/ CommandConfigure(p) \/ Offer(p) \/ Ask(p) \/ AppendOpen(p) \/ Aborts(p)
      PROVE  TypeOK'
  BY <1>2 DEF MeetBare, CommandConfigure, Offer, Ask, AppendOpen, Aborts
<1>3. ASSUME NEW p \in Runs, Lookup(p) \/ Again(p) PROVE TypeOK'
  <2>1. UNCHANGED <<file, request, snapshot, output, saved, stale>>
    BY <1>3 DEF Lookup, Again
  <2>2. pc' \in [Runs -> Stages]
    BY <1>3 DEF Lookup, Again, Chooses
  <2>3. UNCHANGED chosen \/ \E doc \in file, n \in Names : chosen' = [chosen EXCEPT ![p] = Some(n)]
    BY <1>3, FileCases, ResolvesNames DEF Lookup, Again, Chooses
  <2>4. chosen' \in [Runs -> SUBSET Names]
    BY <2>3 DEF Some
  <2> QED
    BY <2>1, <2>2, <2>4
<1>4. ASSUME NEW p \in Runs, Read(p) PROVE TypeOK'
  <2>1. UNCHANGED <<file, request, output, saved, chosen>>
        /\ pc' \in [Runs -> Stages] /\ stale' \subseteq Runs
    BY <1>4 DEF Read
  <2>2. UNCHANGED snapshot \/ snapshot' = [snapshot EXCEPT ![p] = {Seen(doc) : doc \in file}]
    BY <1>4 DEF Read, Seen
  <2>3. {Seen(doc) : doc \in file} \in Option(Snapshots)
    BY FileCases, SeenTyped DEF Option, None, Some
  <2>4. snapshot' \in [Runs -> Option(Snapshots)]
    BY <2>2, <2>3
  <2> QED
    BY <2>1, <2>4
<1>5. ASSUME NEW p \in Runs, Wizard(p) PROVE TypeOK'
  <2>1. PICK label \in Labels :
           output' = [output EXCEPT ![p] = Some(Drafted(label, snapshot[p]))]
    BY <1>5 DEF Wizard, Drafted
  <2>2. Some(Drafted(label, snapshot[p])) \in Option(Accounts)
    BY DraftTyped DEF Option
  <2>3. output' \in [Runs -> Option(Accounts)]
    BY <2>1, <2>2
  <2> QED
    BY <1>5, <2>3 DEF Wizard
<1>6. ASSUME NEW p \in Runs, SaveOpen(p) PROVE TypeOK'
  <2>1. file' \in Option(Seq(Items))
    BY <1>6, Empty DEF SaveOpen
  <2> QED
    BY <1>6, <2>1 DEF SaveOpen
<1>7. ASSUME NEW p \in Runs, SaveWrite(p) PROVE TypeOK'
  <2>1. PICK t \in Generated(p), rest \in {<<>>, <<Garbage>>} :
           file' = {<<t, LineEnd>> \o rest : doc \in file}
    BY <1>7 DEF SaveWrite
  <2>2. <<t, LineEnd>> \o rest \in Seq(Items)
    <3>1. t \in Items /\ LineEnd \in Items /\ Garbage \in Items
      BY Kinds, GeneratedTyped
    <3>2. <<t, LineEnd>> \in Seq(Items) /\ <<>> \in Seq(Items) /\ <<Garbage>> \in Seq(Items)
      BY <3>1, EmptySeq
    <3> QED
      BY <3>2, ConcatProperties
  <2>3. file' = {} \/ file' = {<<t, LineEnd>> \o rest}
    BY <2>1, FileCases
  <2>4. file' \in Option(Seq(Items))
    BY <2>2, <2>3, Empty
  <2> QED
    BY <1>7, <2>4 DEF SaveWrite
<1>8. ASSUME NEW p \in Runs, AppendLine(p) \/ AppendTable(p) \/ AppendEnd(p) PROVE TypeOK'
  <2>1. file' \in Option(Seq(Items))
    BY <1>8, Kinds, GeneratedTyped, AppendsTyped DEF AppendLine, AppendTable, AppendEnd
  <2> QED
    BY <1>8, <2>1 DEF AppendLine, AppendTable, AppendEnd, Appends
<1>9. CASE Edit
  <2>1. file' \in Option(Seq(Items))
    BY <1>9, ConfigureAssumption DEF Edit, Option
  <2> QED
    BY <1>9, <2>1 DEF Edit
<1>10. CASE Over
  BY <1>10, <1>1 DEF Over
<1> QED
  BY <1>1, <1>2, <1>3, <1>4, <1>5, <1>6, <1>7, <1>8, <1>9, <1>10 DEF Next, Run
----------------------------------------------------------------------------
(* A run that another one, or the user, leaves alone: its own state is as  *)
(* it was, and either the file is too or the run knows no more of it.      *)
Undisturbed(q) ==
    /\ pc'[q] = pc[q] /\ request'[q] = request[q] /\ snapshot'[q] = snapshot[q]
    /\ output'[q] = output[q] /\ chosen'[q] = chosen[q]
    /\ q \in saved' <=> q \in saved
    /\ q \in stale' \/ (file' = file /\ (q \in stale' <=> q \in stale))

LEMMA UndisturbedStays ==
  ASSUME NEW q \in Runs, Good(q), Undisturbed(q) PROVE Good(q)'
<1> USE DEF Good, Undisturbed, Fresh
<1>1. Planned(q)'
  BY DEF Planned
<1>2. Kept(q)'
  BY DEF Kept
<1>3. Created(q)'
  BY DEF Created
<1> QED
  BY <1>1, <1>2, <1>3

LEMMA OthersUndisturbed ==
  ASSUME TypeOK, NEW p \in Runs, Run(p), NEW q \in Runs, q # p
  PROVE  Undisturbed(q)
<1> USE DEF TypeOK, Undisturbed, Goes, Disturbs
<1>1. CASE MeetBare(p) \/ CommandConfigure(p) \/ Offer(p) \/ Ask(p) \/ AppendOpen(p) \/ Aborts(p)
  BY <1>1 DEF MeetBare, CommandConfigure, Offer, Ask, AppendOpen, Aborts
<1>2. CASE Lookup(p) \/ Again(p)
  BY <1>2 DEF Lookup, Again, Chooses
<1>3. CASE Read(p)
  BY <1>3 DEF Read
<1>4. CASE Wizard(p)
  BY <1>4 DEF Wizard
<1>5. CASE SaveOpen(p) \/ SaveWrite(p)
  BY <1>5 DEF SaveOpen, SaveWrite
<1>6. CASE AppendLine(p) \/ AppendTable(p) \/ AppendEnd(p)
  BY <1>6 DEF AppendLine, AppendTable, AppendEnd, Appends
<1> QED
  BY <1>1, <1>2, <1>3, <1>4, <1>5, <1>6 DEF Run

LEMMA InitSaved == Init => SavedInv
<1>1. Init => TypeOK
  BY InitTypeOK
<1>2. ASSUME Init, NEW p \in Runs PROVE Good(p)
  BY <1>2 DEF Init, Good, Planned, Kept, Created
<1> QED
  BY <1>1, <1>2 DEF SavedInv

----------------------------------------------------------------------------
(* How an account is reached once its table is in.                         *)
LEMMA FirstReached ==
  ASSUME NEW n \in Names
  PROVE  LET doc == <<Table(n, TRUE), LineEnd>> IN
         Parses(doc) /\ Resolves(doc, NoName) = {n}
<1> DEFINE t == Table(n, TRUE)  doc == <<t, LineEnd>>
<1>1. IsAccount(t) /\ t.name = n /\ t.default /\ t.kind = "table"
  BY Kinds
<1>2. LineEnd.kind = "line end" /\ ~IsAccount(LineEnd)
  BY Kinds DEF LineEnd
<1> HIDE DEF t
<1>3. DOMAIN doc = {1, 2} /\ doc[1] = t /\ doc[2] = LineEnd
  OBVIOUS
<1> HIDE DEF doc
<1>4. Tables(doc) = {t}
  BY <1>1, <1>2, <1>3 DEF Tables
<1>5. Parses(doc)
  <2>1. \A i \in DOMAIN doc : IsAccount(doc[i]) => i = 1
    BY <1>2, <1>3
  <2>2. \A i \in DOMAIN doc : doc[i].kind # "garbage"
    BY <1>1, <1>2, <1>3
  <2>3. Tables(doc) # {}
    BY <1>4
  <2>4. \A i \in DOMAIN doc : IsAccount(doc[i]) /\ i > 1 => doc[i - 1] = LineEnd
    BY <2>1
  <2> QED
    BY <2>1, <2>2, <2>3, <2>4 DEF Parses
<1>6. Resolves(doc, NoName) = {n}
  BY <1>1, <1>4 DEF Resolves
<1> QED
  BY <1>5, <1>6 DEF doc, t

LEMMA AppendedReached ==
  ASSUME NEW doc \in Seq(Items), Parses(doc), NEW o \in Accounts,
         o.name \notin Held(doc), o.name # NoName,
         o.default <=> ~\E t \in Tables(doc) : t.default,
         NEW new, Tables(new) = Tables(doc) \union {Table(o.name, o.default)}
  PROVE  Reached(new, o)
<1> DEFINE t == Table(o.name, o.default)
<1>1. t.name = o.name /\ t.default = o.default
  BY DEF Table
<1>2. \A u \in Tables(doc) : u.name # o.name
  BY DEF Held
<1> HIDE DEF t
<1>3. CASE o.default
  <2>1. {u \in Tables(new) : u.default} = {t}
    BY <1>1, <1>3 DEF t
  <2>2. Resolves(new, NoName) = {o.name}
    BY <1>1, <2>1 DEF Resolves
  <2> QED
    BY <1>3, <2>2 DEF Reached
<1>4. CASE ~o.default
  <2>1. PICK u \in Tables(doc) : u.default
    BY <1>4
  <2>2. u.name \in Resolves(new, NoName) /\ u.name # o.name
    BY <1>2, <2>1 DEF Resolves
  <2>3. o.name # TheDefault => Resolves(new, o.name) = {o.name}
    BY <1>1 DEF Resolves, Held, t
  <2> QED
    BY <1>4, <2>2, <2>3 DEF Reached
<1> QED
  BY <1>3, <1>4
----------------------------------------------------------------------------
LEMMA QuietSteps ==
  ASSUME SavedInv, NEW p \in Runs,
         MeetBare(p) \/ CommandConfigure(p) \/ Offer(p) \/ Lookup(p) \/ Ask(p)
           \/ AppendOpen(p) \/ Aborts(p)
  PROVE  Good(p)'
<1> USE DEF SavedInv, TypeOK, Good, Fresh, Goes, Onwards
<1>1. /\ UNCHANGED <<file, request, snapshot, output, saved, stale>>
      /\ p \notin saved
      /\ pc'[p] \in {"offer", "done", "read", "again", "started", "refused", "save", "open",
                     "line", "aborted"}
      /\ pc'[p] = "save" => pc[p] = "ask" /\ snapshot[p] = None
      /\ pc'[p] = "open" => pc[p] = "ask" /\ snapshot[p] # None
      /\ pc'[p] = "line" => pc[p] = "open"
  <2>1. CASE MeetBare(p) \/ CommandConfigure(p) \/ Offer(p)
    BY <2>1 DEF MeetBare, CommandConfigure, Offer, Planned
  <2>2. CASE Lookup(p)
    BY <2>2 DEF Lookup, Chooses, Planned
  <2>3. CASE Ask(p)
    BY <2>3 DEF Ask, Planned
  <2>4. CASE AppendOpen(p) \/ Aborts(p)
    BY <2>4 DEF AppendOpen, Aborts, Planned
  <2> QED
    BY <2>1, <2>2, <2>3, <2>4
<1>2. Planned(p)'
  BY <1>1 DEF Planned
<1>3. Kept(p)'
  BY <1>1 DEF Kept
<1>4. Created(p)'
  BY <1>1 DEF Created
<1> QED
  BY <1>2, <1>3, <1>4

LEMMA AgainStep ==
  ASSUME SavedInv, NEW p \in Runs, Again(p) PROVE Good(p)'
<1> USE DEF SavedInv, TypeOK, Good, Fresh, Goes
<1>1. /\ UNCHANGED <<file, request, snapshot, output, saved, stale>>
      /\ pc[p] = "again" /\ pc'[p] \in {"started", "refused"}
  BY DEF Again, Chooses
<1>2. Planned(p)' /\ Kept(p)'
  BY <1>1 DEF Planned, Kept
<1>3. ASSUME p \in saved, Fresh(p), snapshot[p] = None, request[p].asked = NoName
      PROVE  pc'[p] = "started" /\ chosen'[p] = {o.name : o \in output[p]}
  <2>1. PICK doc \in file : Parses(doc) /\ \A o \in output[p] : o.default /\ Reached(doc, o)
    BY <1>3 DEF Created
  <2>2. PICK o : output[p] = {o}
    <3>1. output[p] \in Option(Accounts) /\ output[p] # None
      BY <1>3 DEF Planned
    <3> QED
      BY <3>1, Options DEF Some
  <2>3. Resolves(doc, NoName) = {o.name}
    BY <2>1, <2>2 DEF Reached
  <2>4. file = {doc}
    BY <2>1, FileCases
  <2>5. /\ pc'[p] = "started"
        /\ \E n \in Resolves(doc, NoName) : chosen' = [chosen EXCEPT ![p] = Some(n)]
    BY <1>3, <2>1, <2>3, <2>4 DEF Again, Chooses
  <2>6. chosen'[p] = {o.name}
    BY <2>3, <2>5 DEF Some
  <2> QED
    BY <2>2, <2>5, <2>6
<1>4. Created(p)'
  BY <1>1, <1>3 DEF Created
<1> QED
  BY <1>2, <1>4

LEMMA ReadStep ==
  ASSUME SavedInv, NEW p \in Runs, Read(p) PROVE Good(p)'
<1> USE DEF SavedInv, TypeOK, Good, Fresh, Goes
<1>1. /\ UNCHANGED <<file, request, output, saved, chosen>> /\ pc[p] = "read" /\ p \notin saved
  BY DEF Read, Planned
<1>2. CASE UNCHANGED <<snapshot, stale>> /\ pc'[p] = "aborted"
  BY <1>1, <1>2 DEF Planned, Kept, Created
<1>3. CASE /\ snapshot'[p] = {Seen(doc) : doc \in file} /\ pc'[p] = "wizard"
           /\ \A doc \in file : Parses(doc)
  <2>1. Planned(p)'
    BY <1>1, <1>3 DEF Planned
  <2>2. Kept(p)'
    <3>1. CASE file = {}
      BY <1>3, <3>1 DEF Kept, None
    <3>2. ASSUME NEW doc, file = {doc} PROVE Kept(p)'
      <4>1. snapshot'[p] = Some(Seen(doc)) /\ Parses(doc) /\ doc \in file'
        BY <1>1, <1>3, <3>2 DEF Some
      <4> QED
        BY <1>1, <1>3, <4>1 DEF Kept
    <3> QED
      BY <3>1, <3>2, FileCases
  <2>3. Created(p)'
    <3>1. CASE file = None
      BY <1>1, <1>3, <3>1 DEF Created
    <3>2. ASSUME NEW doc, file = {doc} PROVE Created(p)'
      <4>1. Seen(doc) \in snapshot'[p]
        BY <1>3, <3>2
      <4> QED
        BY <4>1 DEF Created, None
    <3> QED
      BY <3>1, <3>2, FileCases
  <2> QED
    BY <2>1, <2>2, <2>3
<1> QED
  BY <1>2, <1>3 DEF Read, Seen

LEMMA WizardStep ==
  ASSUME SavedInv, NEW p \in Runs, Wizard(p) PROVE Good(p)'
<1> USE DEF SavedInv, TypeOK, Good, Fresh, Goes, Onwards
<1>1. /\ UNCHANGED <<file, request, snapshot, saved, chosen, stale>>
      /\ pc[p] = "wizard" /\ p \notin saved
      /\ pc'[p] \in {"ask", "again", "done"}
  BY DEF Wizard, Planned
<1>2. PICK label \in Labels : output'[p] = Some(Drafted(label, snapshot[p]))
  BY DEF Wizard, Drafted
<1>3. Planned(p)'
  <2>1. Drafted(label, snapshot'[p]) = Drafted(label, snapshot[p])
    BY <1>1
  <2> QED
    BY <1>1, <1>2, <2>1 DEF Planned
<1>4. Kept(p)' /\ Created(p)'
  BY <1>1 DEF Kept, Created
<1> QED
  BY <1>3, <1>4

LEMMA SaveSteps ==
  ASSUME SavedInv, NEW p \in Runs, SaveOpen(p) \/ SaveWrite(p) PROVE Good(p)'
<1> USE DEF SavedInv, TypeOK, Good, Fresh, Goes, Onwards, Disturbs
<1>1. CASE SaveOpen(p)
  <2>1. /\ UNCHANGED <<request, snapshot, output, saved, chosen>>
        /\ pc[p] = "save" /\ pc'[p] = "write" /\ p \notin saved
        /\ file' = {<<>>}
    BY <1>1 DEF SaveOpen, Planned, Some
  <2>2. Planned(p)' /\ Kept(p)' /\ Created(p)'
    BY <2>1 DEF Planned, Kept, Created
  <2> QED
    BY <2>2
<1>2. CASE SaveWrite(p)
  <2>1. /\ UNCHANGED <<request, snapshot, output, chosen>>
        /\ pc[p] = "write" /\ pc'[p] \in {"again", "done"}
        /\ p \in saved' /\ (Fresh(p)' => Fresh(p))
        /\ snapshot[p] = None
    BY <1>2 DEF SaveWrite, Planned
  <2>2. PICK label \in Labels : output[p] = Some(Drafted(label, snapshot[p]))
    BY <2>1 DEF Planned
  <2> DEFINE o == Drafted(label, snapshot[p])
  <2>3. o \in Accounts /\ o.name \in Names /\ o.default = TRUE
    BY <2>1, DraftTyped DEF Accounts, ClaimsDefault, None
  <2> HIDE DEF o
  <2>4. output[p] = {o} /\ Generated(p) = {Table(o.name, TRUE)}
    BY <2>2, <2>3 DEF o, Some, Generated
  <2>5. ASSUME Fresh(p) PROVE file' = {<<Table(o.name, TRUE), LineEnd>>}
    <3>1. file = {<<>>}
      BY <2>1, <2>5 DEF Created
    <3>2. PICK t \in Generated(p), rest \in IF file \subseteq {<<>>} THEN {<<>>} ELSE {<<>>, <<Garbage>>} :
             file' = {<<t, LineEnd>> \o rest : doc \in file}
      BY <1>2 DEF SaveWrite
    <3>3. t = Table(o.name, TRUE) /\ rest = <<>>
      BY <2>4, <3>1, <3>2
    <3>4. file' = {<<t, LineEnd>> \o rest}
      BY <3>1, <3>2
    <3>5. <<t, LineEnd>> \o <<>> = <<t, LineEnd>>
      OBVIOUS
    <3> QED
      BY <3>3, <3>4, <3>5
  <2> DEFINE new == <<Table(o.name, TRUE), LineEnd>>
  <2>6. Parses(new) /\ Reached(new, o)
    BY <2>3, FirstReached DEF Reached
  <2> HIDE DEF new
  <2>7. Planned(p)' /\ Kept(p)'
    BY <2>1, <2>4 DEF Planned, Kept, None
  <2>8. Created(p)'
    <3>1. ASSUME Fresh(p)'
          PROVE  \E doc \in file' : Parses(doc) /\ \A x \in output[p] : x.default /\ Reached(doc, x)
      <4>1. file' = {new}
        BY <2>1, <2>5, <3>1 DEF new
      <4> QED
        BY <2>3, <2>4, <2>6, <4>1
    <3> QED
      BY <2>1, <3>1 DEF Created
  <2> QED
    BY <2>7, <2>8
<1> QED
  BY <1>1, <1>2

LEMMA AppendSteps ==
  ASSUME SavedInv, NEW p \in Runs, AppendLine(p) \/ AppendTable(p) \/ AppendEnd(p)
  PROVE  Good(p)'
<1> USE DEF SavedInv, TypeOK, Good, Fresh, Goes, Onwards, Disturbs
<1>1. /\ UNCHANGED <<request, snapshot, output, chosen>>
      /\ pc[p] \in {"line", "table", "end"} /\ snapshot[p] # None /\ p \notin saved
      /\ Fresh(p)' => Fresh(p)
  BY DEF AppendLine, AppendTable, AppendEnd, Appends, Planned
<1>2. Created(p)'
  BY <1>1 DEF Created
<1>3. CASE AppendLine(p)
  <2>1. pc[p] = "line" /\ pc'[p] = "table" /\ saved' = saved
        /\ file' = {doc \o <<LineEnd>> : doc \in file}
    BY <1>3 DEF AppendLine, Appends
  <2>2. ASSUME Fresh(p)', \A doc \in file' : Appendable(doc)
        PROVE  \E doc \in file' : /\ Parses(doc) /\ snapshot'[p] = Some(Seen(doc))
                                  /\ doc[Len(doc)] = LineEnd
    <3>0. \A doc \in file : Appendable(doc)
      BY <2>1, <2>2, Kinds, WasAppendable
    <3>1. PICK doc \in file : Parses(doc) /\ snapshot[p] = Some(Seen(doc))
      BY <1>1, <2>1, <2>2, <3>0 DEF Kept
    <3>2. doc \in Seq(Items) /\ doc \o <<LineEnd>> \in file'
      BY <2>1, <3>1, FileCases
    <3>3. Parses(doc \o <<LineEnd>>) /\ Seen(doc \o <<LineEnd>>) = Seen(doc)
      BY <3>1, <3>2, LineEndKeeps DEF Seen
    <3>4. (doc \o <<LineEnd>>)[Len(doc \o <<LineEnd>>)] = LineEnd
      BY <3>2, Extended, Kinds
    <3> QED
      BY <1>1, <3>1, <3>2, <3>3, <3>4
  <2>3. Kept(p)'
    BY <1>1, <2>1, <2>2 DEF Kept
  <2>4. Planned(p)'
    BY <1>1, <2>1 DEF Planned
  <2> QED
    BY <1>2, <2>3, <2>4
<1>4. CASE AppendTable(p)
  <2>1. pc[p] = "table" /\ pc'[p] = "end" /\ saved' = saved
    BY <1>4 DEF AppendTable, Appends
  <2>2. PICK label \in Labels : output[p] = Some(Drafted(label, snapshot[p]))
    BY <2>1 DEF Planned
  <2> DEFINE o == Drafted(label, snapshot[p])
  <2>3. /\ o \in Accounts /\ o.name \in Names /\ o.default \in BOOLEAN /\ o.name # NoName
        /\ \A e \in snapshot[p] : o.name \notin e.names
        /\ o.default = ClaimsDefault(snapshot[p])
    BY DraftTyped DEF Accounts
  <2>4. output[p] = {o}
    BY <2>2 DEF Some
  <2> HIDE DEF o
  <2>5. Generated(p) = {Table(o.name, o.default)}
    BY <2>4 DEF Generated
  <2>6. file' = {doc \o <<Table(o.name, o.default)>> : doc \in file}
    BY <1>4, <2>5 DEF AppendTable, Appends
  <2>7. ASSUME Fresh(p)', \A doc \in file' : Appendable(doc)
        PROVE  \E doc \in file' : Parses(doc) /\ Reached(doc, o)
    <3>0. \A doc \in file : Appendable(doc)
      <4>1. Table(o.name, o.default) \in Items
        BY <2>3, Kinds
      <4> QED
        BY <2>6, <2>7, <4>1, WasAppendable
    <3>1. PICK doc \in file : /\ Parses(doc) /\ snapshot[p] = Some(Seen(doc))
                              /\ doc[Len(doc)] = LineEnd
      BY <1>1, <2>1, <2>7, <3>0 DEF Kept
    <3> DEFINE new == doc \o <<Table(o.name, o.default)>>
    <3>2. doc \in Seq(Items) /\ new \in file'
      BY <2>6, <3>1, FileCases
    <3>3. o.name \notin Held(doc)
      BY <2>3, <3>1 DEF Some, Seen
    <3>4. o.default <=> ~\E t \in Tables(doc) : t.default
      BY <2>3, <3>1 DEF Some, Seen, ClaimsDefault
    <3>5. Parses(new) /\ Tables(new) = Tables(doc) \union {Table(o.name, o.default)}
      BY <2>3, <3>0, <3>1, <3>2, <3>3, TableKeeps
    <3> HIDE DEF new
    <3>6. Reached(new, o)
      BY <2>3, <3>1, <3>2, <3>3, <3>4, <3>5, AppendedReached
    <3> QED
      BY <3>2, <3>5, <3>6
  <2>8. Kept(p)'
    BY <1>1, <2>1, <2>4, <2>7 DEF Kept
  <2>9. Planned(p)'
    BY <1>1, <2>1, <2>4 DEF Planned, None
  <2> QED
    BY <1>2, <2>8, <2>9
<1>5. CASE AppendEnd(p)
  <2>1. pc[p] = "end" /\ pc'[p] \in {"again", "done"} /\ p \in saved'
        /\ file' = {doc \o <<LineEnd>> : doc \in file}
    BY <1>5 DEF AppendEnd, Appends
  <2>2. ASSUME Fresh(p)', \A doc \in file' : Appendable(doc)
        PROVE  \E doc \in file' : Parses(doc) /\ \A o \in output[p] : Reached(doc, o)
    <3>0. \A doc \in file : Appendable(doc)
      BY <2>1, <2>2, Kinds, WasAppendable
    <3>1. PICK doc \in file : Parses(doc) /\ \A o \in output[p] : Reached(doc, o)
      BY <1>1, <2>1, <2>2, <3>0 DEF Kept
    <3>2. doc \in Seq(Items) /\ doc \o <<LineEnd>> \in file'
      BY <2>1, <3>1, FileCases
    <3>3. /\ Parses(doc \o <<LineEnd>>)
          /\ \A n : Resolves(doc \o <<LineEnd>>, n) = Resolves(doc, n)
      BY <3>1, <3>2, LineEndKeeps DEF Resolves
    <3> QED
      BY <3>1, <3>2, <3>3 DEF Reached
  <2>3. Kept(p)'
    BY <1>1, <2>1, <2>2 DEF Kept
  <2>4. Planned(p)'
    BY <1>1, <2>1 DEF Planned
  <2> QED
    BY <1>2, <2>3, <2>4
<1> QED
  BY <1>3, <1>4, <1>5
----------------------------------------------------------------------------
LEMMA NextSaved == SavedInv /\ [Next]_vars => SavedInv'
<1> SUFFICES ASSUME SavedInv, [Next]_vars PROVE SavedInv'
  OBVIOUS
<1>1. TypeOK'
  BY NextTypeOK DEF SavedInv
<1>2. CASE UNCHANGED vars \/ Edit
  <2>1. \A q \in Runs : Undisturbed(q)
    BY <1>2 DEF vars, Edit, Undisturbed
  <2> QED
    BY <1>1, <2>1, UndisturbedStays DEF SavedInv
<1>3. ASSUME NEW p \in Runs, Run(p) PROVE SavedInv'
  <2>1. \A q \in Runs : q # p => Good(q)'
    BY <1>3, OthersUndisturbed, UndisturbedStays DEF SavedInv
  <2>2. Good(p)'
    BY <1>3, QuietSteps, AgainStep, ReadStep, WizardStep, SaveSteps, AppendSteps DEF Run
  <2> QED
    BY <1>1, <2>1, <2>2 DEF SavedInv
<1> QED
  BY <1>2, <1>3 DEF Next, Over

LEMMA SavedAlways == Spec => []SavedInv
  BY InitSaved, NextSaved, PTL DEF Spec

(* A configuration sound when it was read is sound after every write of    *)
(* the run that appends to it, and after a kill between two of them.       *)
THEOREM AppendIsSafe == Spec => []AppendKeepsParsing
<1>1. SavedInv => AppendKeepsParsing
  BY DEF SavedInv, Good, Kept, AppendKeepsParsing
<1> QED
  BY <1>1, SavedAlways, PTL

(* An account reported as saved is reached the way the report says.        *)
THEOREM SavedReached == Spec => []SavedIsReached
<1>1. ASSUME SavedInv, NEW p \in saved, Fresh(p), \A doc \in file : Appendable(doc)
      PROVE  \E doc \in file : Parses(doc) /\ \A o \in output[p] : Reached(doc, o)
  <2>1. Kept(p) /\ Created(p)
    BY <1>1 DEF SavedInv, TypeOK, Good
  <2> QED
    BY <1>1, <2>1 DEF Kept, Created
<1>2. SavedInv => SavedIsReached
  BY <1>1 DEF SavedIsReached, Reached
<1> QED
  BY <1>2, SavedAlways, PTL

(* A command whose first run saved an account goes on with that account.   *)
THEOREM FirstRun == Spec => []FirstRunWorks
<1>1. SavedInv => FirstRunWorks
  BY DEF SavedInv, TypeOK, Good, Created, FirstRunWorks
<1> QED
  BY <1>1, SavedAlways, PTL

\* What a run writes into a file nobody else touched since it read it.
LEMMA StepsLose ==
  ASSUME SavedInv, NEW p \in Runs, Run(p), Fresh(p), NEW doc \in file
  PROVE  \E new \in file' : IsPrefix(doc, new)
<1> USE DEF SavedInv, TypeOK, Good, Goes
<1>1. doc \in Seq(Items) /\ file = {doc}
  BY FileCases
<1>2. CASE file' = file
  <2>1. Len(doc) \in Nat /\ IsPrefix(doc, doc)
    BY <1>1, LenProperties DEF IsPrefix
  <2> QED
    BY <1>2, <2>1
<1>3. ASSUME NEW item \in Items, Appends(p, item)
      PROVE  \E new \in file' : IsPrefix(doc, new)
  <2>1. doc \o <<item>> \in file'
    BY <1>3 DEF Appends
  <2> QED
    BY <1>1, <2>1, Extended
<1>4. CASE AppendLine(p) \/ AppendTable(p) \/ AppendEnd(p)
  BY <1>3, <1>4, Kinds, GeneratedTyped DEF AppendLine, AppendTable, AppendEnd
<1>5. CASE SaveOpen(p)
  <2>1. file = None
    BY <1>5 DEF SaveOpen, Planned, Created
  <2> QED
    BY <1>1, <2>1 DEF None
<1>6. CASE SaveWrite(p)
  <2>1. doc = <<>>
    BY <1>1, <1>6 DEF SaveWrite, Planned, Created
  <2>2. PICK t \in Generated(p), rest \in {<<>>, <<Garbage>>} :
           file' = {<<t, LineEnd>> \o rest : d \in file}
    BY <1>6 DEF SaveWrite
  <2>3. <<t, LineEnd>> \o rest \in Seq(Items)
    <3>1. t \in Items /\ LineEnd \in Items /\ Garbage \in Items
      BY Kinds, GeneratedTyped
    <3>2. <<t, LineEnd>> \in Seq(Items) /\ <<>> \in Seq(Items) /\ <<Garbage>> \in Seq(Items)
      BY <3>1, EmptySeq
    <3> QED
      BY <3>2, ConcatProperties
  <2>4. PICK new \in file' : new \in Seq(Items)
    BY <1>1, <2>2, <2>3
  <2>5. IsPrefix(<<>>, new)
    BY <2>4, LenProperties DEF IsPrefix
  <2> QED
    BY <2>1, <2>4, <2>5
<1>7. CASE ~(AppendLine(p) \/ AppendTable(p) \/ AppendEnd(p) \/ SaveOpen(p) \/ SaveWrite(p))
  <2>1. file' = file
    BY <1>7 DEF Run, MeetBare, CommandConfigure, Lookup, Again, Offer, Read, Wizard, Ask,
                AppendOpen, Aborts
  <2> QED
    BY <1>2, <2>1
<1> QED
  BY <1>4, <1>5, <1>6, <1>7

(* A run writes over nothing that was in the file when it read it.         *)
THEOREM NothingIsLost == Spec => NothingLost
<1>1. SavedInv /\ [Next]_vars =>
         [\A p \in Runs : Fresh(p) /\ pc'[p] # pc[p] =>
             \A doc \in file : \E new \in file' : IsPrefix(doc, new)]_vars
  <2> SUFFICES ASSUME SavedInv, [Next]_vars, NEW p \in Runs, Fresh(p), pc'[p] # pc[p],
                      NEW doc \in file
               PROVE  \E new \in file' : IsPrefix(doc, new)
    OBVIOUS
  <2>1. PICK q \in Runs : Run(q)
    BY DEF vars, Next, Edit, Over
  <2>2. q = p
    BY <2>1, OthersUndisturbed DEF SavedInv, Undisturbed
  <2> QED
    BY <2>1, <2>2, StepsLose
<1> QED
  BY <1>1, SavedAlways, PTL DEF NothingLost, Spec
=============================================================================
