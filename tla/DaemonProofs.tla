---------------------------- MODULE DaemonProofs ----------------------------
(***************************************************************************)
(* What Daemon promises for any number of processes, protocols and paths.  *)
(***************************************************************************)
EXTENDS Daemon, FlattenProofs

Binding == {"look", "remove", "create"}

(* What `start` makes of the account and of its command line: protocols,   *)
(* each of them once.                                                      *)
Once(s)    == \A i, j \in 1..Len(s) : s[i] = s[j] => i = j
Selectable == {s \in Seq(Protocols) : Once(s)}

LEMMA PushedOnce ==
  ASSUME NEW s \in Selectable, NEW p \in Protocols, ~Contains(s, p)
  PROVE  Append(s, p) \in Selectable
<1>1. s \in Seq(Protocols) /\ Once(s)
  BY DEF Selectable
<1>2. /\ Append(s, p) \in Seq(Protocols) /\ Len(s) \in Nat
      /\ Len(Append(s, p)) = Len(s) + 1
      /\ Append(s, p)[Len(s) + 1] = p
      /\ \A i \in 1..Len(s) : Append(s, p)[i] = s[i] /\ s[i] # p
  BY <1>1, AppendProperties, LenProperties DEF Contains
<1> HIDE DEF Contains
<1>3. ASSUME NEW i \in 1..(Len(s) + 1), NEW j \in 1..(Len(s) + 1),
             Append(s, p)[i] = Append(s, p)[j]
      PROVE  i = j
  <2>1. i = Len(s) + 1 \/ i \in 1..Len(s)
    BY <1>2
  <2>2. j = Len(s) + 1 \/ j \in 1..Len(s)
    BY <1>2
  <2> QED
    BY <1>1, <1>2, <1>3, <2>1, <2>2 DEF Once
<1> QED
  BY <1>2, <1>3 DEF Once, Selectable

LEMMA NothingSelected == <<>> \in Selectable
  BY EmptySeq DEF Selectable, Once

LEMMA DeclaredOnce ==
  ASSUME NEW blocks PROVE DeclaredProtocols(blocks) \in Selectable
<1> DEFINE s == [i \in 1..Len(ALL) |-> IF ALL[i] \in blocks THEN <<ALL[i]>> ELSE <<>>]
<1>1. Len(ALL) = 3 /\ ALL[1] = "imap" /\ ALL[2] = "smtp" /\ ALL[3] = "sieve"
  BY DEF ALL
<1>2. \A i \in 1..3 : ALL[i] \in Protocols
  BY <1>1 DEF Protocols, ALL
<1>3. s \in Seq(Seq(Protocols)) /\ Len(s) = 3
  <2>1. \A i \in 1..3 : <<ALL[i]>> \in Seq(Protocols) /\ <<>> \in Seq(Protocols)
    BY <1>2
  <2>2. s \in [1..3 -> Seq(Protocols)]
    BY <1>1, <2>1
  <2> HIDE DEF s
  <2>3. PICK S : S = Seq(Protocols)
    OBVIOUS
  <2>4. s \in [1..3 -> S]
    BY <2>2, <2>3
  <2>5. s \in Seq(S)
    BY <2>4, SeqDef
  <2>6. Len(s) = 3
    BY <2>4, <2>5, LenProperties
  <2> QED
    BY <2>3, <2>5, <2>6
<1>4. \A i \in 1..3 : s[i] = IF ALL[i] \in blocks THEN <<ALL[i]>> ELSE <<>>
  BY <1>1
<1> HIDE DEF s
<1>5. PICK f : Running(f, s, Len(s), Protocols)
  BY <1>3, RunningExists
<1>6. FlattenSeq(s) = f[3]
  BY <1>3, <1>5, FlattenIs
<1>7. ASSUME NEW i \in 1..3
      PROVE  /\ f[i] = f[i - 1] \/ f[i] = Append(f[i - 1], ALL[i])
             /\ f[i - 1] \in Seq(Protocols)
  <2>1. f[i] = Cat(f[i - 1], s[i]) /\ f[i - 1] \in Seq(Protocols)
    <3>1. i - 1 \in 0..3
      OBVIOUS
    <3> QED
      BY <1>3, <1>5, <3>1 DEF Running
  <2>2. PICK x \in Seq(Protocols), p \in Protocols : x = f[i - 1] /\ p = ALL[i]
    BY <1>2, <2>1
  <2>3. Cat(x, <<>>) = x /\ Cat(x, <<p>>) = Append(x, p)
    BY CatEmpty, AppendIsConcat DEF Cat
  <2> QED
    BY <1>4, <2>1, <2>2, <2>3
<1>8. f[0] = <<>> /\ f[0] \in Selectable
  BY <1>5, NothingSelected DEF Running
<1>9. ASSUME NEW i \in 1..3, f[i - 1] \in Selectable, ~Contains(f[i - 1], ALL[i])
      PROVE  /\ f[i] \in Selectable
             /\ \A p : Contains(f[i], p) => Contains(f[i - 1], p) \/ p = ALL[i]
  <2>1. PICK x \in Selectable, p \in Protocols : x = f[i - 1] /\ p = ALL[i]
    BY <1>2, <1>9
  <2>2. Append(x, p) \in Selectable
    BY <1>9, <2>1, PushedOnce
  <2>3. \A q : Contains(Append(x, p), q) => Contains(x, q) \/ q = p
    BY AppendProperties DEF Contains, Selectable
  <2> QED
    BY <1>7, <2>1, <2>2, <2>3
<1>10. ~Contains(f[0], ALL[1]) /\ \A p : ~Contains(f[0], p)
  BY <1>8 DEF Contains
<1>11. f[1] \in Selectable /\ \A p : Contains(f[1], p) => p = ALL[1]
  <2>1. 1 \in 1..3 /\ 1 - 1 = 0
    OBVIOUS
  <2> QED
    BY <1>8, <1>9, <1>10, <2>1
<1>12. f[2] \in Selectable /\ \A p : Contains(f[2], p) => p \in {ALL[1], ALL[2]}
  <2>1. 2 \in 1..3 /\ 2 - 1 = 1
    OBVIOUS
  <2>2. ~Contains(f[1], ALL[2])
    BY <1>1, <1>11
  <2> QED
    BY <1>9, <1>11, <2>1, <2>2
<1>13. f[3] \in Selectable
  <2>1. 3 \in 1..3 /\ 3 - 1 = 2
    OBVIOUS
  <2>2. ~Contains(f[2], ALL[3])
    BY <1>1, <1>12
  <2> QED
    BY <1>9, <1>12, <2>1, <2>2
<1> QED
  BY <1>6, <1>13 DEF DeclaredProtocols, s

LEMMA AskedOnce ==
  ASSUME NEW asked \in Seq(Protocols), NEW blocks
  PROVE  SelectProtocols(blocks, asked) \in Selectable
<1>1. PICK n \in Nat : n = Len(asked)
  BY LenProperties
<1> DEFINE Push(x, p) == IF Contains(x, p) THEN x ELSE Append(x, p)
           Step(h) == [i \in 0..n |-> IF i = 0 THEN <<>> ELSE Push(h[i - 1], asked[i])]
           c == CHOOSE h : h = Step(h)
           step == [i \in 1..n |-> [x \in Selectable |-> Push(x, asked[i])]]
<1>2. \A i \in 1..n : asked[i] \in Protocols
  BY <1>1, ElementOfSeq
<1>3. ASSUME NEW x \in Selectable, NEW p \in Protocols PROVE Push(x, p) \in Selectable
  BY PushedOnce
<1> HIDE DEF Push
<1>4. step \in [1..n -> [Selectable -> Selectable]]
  BY <1>2, <1>3
<1>5. PICK f : Steps(f, <<>>, n, step, Selectable)
  <2> HIDE DEF step
  <2>1. PICK g \in [1..n -> [Selectable -> Selectable]], o \in Selectable :
           g = step /\ o = <<>>
    BY <1>4, NothingSelected
  <2>2. \E f : Steps(f, o, n, g, Selectable)
    BY Stepwise
  <2> QED
    BY <2>1, <2>2
<1>6. f = Step(f)
  <2>1. f \in [0..n -> Selectable] /\ f[0] = <<>>
    BY <1>5 DEF Steps
  <2>2. ASSUME NEW i \in 1..n PROVE f[i] = Push(f[i - 1], asked[i])
    <3>1. i - 1 \in 0..n
      OBVIOUS
    <3>2. f[i - 1] \in Selectable
      BY <2>1, <3>1
    <3>3. f[i] = step[i][f[i - 1]]
      BY <1>5 DEF Steps
    <3> QED
      BY <3>2, <3>3
  <2>3. \A i \in 0..n : i = 0 \/ i \in 1..n
    OBVIOUS
  <2>4. \A i \in 0..n : f[i] = IF i = 0 THEN <<>> ELSE Push(f[i - 1], asked[i])
    BY <2>1, <2>2, <2>3
  <2> QED
    BY <2>1, <2>4
<1>7. c = Step(c)
  <2> HIDE DEF Step
  <2> QED
    BY <1>6
<1>8. \A i \in 0..n : c[i] = IF i = 0 THEN <<>> ELSE Push(c[i - 1], asked[i])
  <2>1. \A i \in 0..n : Step(c)[i] = IF i = 0 THEN <<>> ELSE Push(c[i - 1], asked[i])
    <3> HIDE DEF c
    <3> QED
      OBVIOUS
  <2> HIDE DEF c, Step
  <2> QED
    BY <1>7, <2>1
<1>9. asked # <<>> /\ ~(blocks = {} \/ ~(ToSet(asked) \subseteq blocks))
         => SelectProtocols(blocks, asked) = c[n]
  BY <1>1 DEF SelectProtocols, Push
<1> HIDE DEF c, Step
<1>10. c[n] \in Selectable
  <2> DEFINE Bad == {i \in 0..n : c[i] \notin Selectable}
  <2>1. ASSUME Bad # {} PROVE FALSE
    <3>1. PICK i \in Bad : \A j \in Bad : i <= j
      <4>1. Bad \in SUBSET Nat
        OBVIOUS
      <4> HIDE DEF Bad
      <4> QED
        BY <2>1, <4>1, LeastOne
    <3>2. i \in 0..n /\ c[i] \notin Selectable
      BY <3>1
    <3>3. i \in 1..n
      BY <1>8, <3>2, NothingSelected
    <3>4. i - 1 \in 0..n /\ ~(i <= i - 1)
      BY <3>3
    <3>5. c[i - 1] \in Selectable
      BY <3>1, <3>4
    <3> QED
      BY <1>2, <1>3, <1>8, <3>2, <3>3, <3>5
  <2> QED
    BY <2>1
<1> QED
  BY <1>9, <1>10, DeclaredOnce, NothingSelected DEF SelectProtocols

THEOREM SelectedOnce ==
  \A s \in Selections : s \in Seq(Protocols) /\ Once(s)
  BY AskedOnce, DaemonAssumption DEF Selections, Selectable

LEMMA Serving ==
  ASSUME serves \in [Procs -> Selections], NEW d \in Procs
  PROVE  /\ serves[d] \in Seq(Protocols) /\ Len(serves[d]) \in Nat
         /\ Served(d) \subseteq Protocols
         /\ \A i \in 1..Len(serves[d]) : serves[d][i] \in Served(d)
         /\ serves[d] # <<>> => Len(serves[d]) >= 1
<1>1. serves[d] \in Seq(Protocols)
  BY SelectedOnce
<1> QED
  BY <1>1 DEF Served

LEMMA CurrentServed ==
  ASSUME TypeOK, NEW d \in Procs,
         phase[d] \in {"open", "look", "remove", "create", "serve"}
  PROVE  /\ next[d] \in 1..Len(serves[d]) /\ Current(d) \in Served(d)
         /\ Current(d) \in Protocols
         /\ IsLast(d) <=> next[d] = Len(serves[d])
         /\ ~IsLast(d) => next[d] + 1 \in 1..Len(serves[d])
  BY Serving DEF TypeOK, Current, IsLast

LEMMA PathTyped == \A p \in Protocols : SockPath(p) \in Paths
  BY DaemonAssumption DEF SockPath, OrElse, Some, None

(* The steps that only move a worker along its loop.                       *)
Strolls(d, p) ==
    /\ \E from, to \in {"check", "accept", "client"} : Moves(d, p, from, to)
    /\ UNCHANGED <<serves, phase, next, cached, sessions, listening, running, outcome,
                   status, file>>

LEMMA LoopSteps ==
  ASSUME NEW d, NEW p,
         WorkerCheck(d, p) \/ WorkerIdles(d, p) \/ Attach(d, p) \/ Detach(d, p)
  PROVE  Strolls(d, p)
  BY DEF WorkerCheck, WorkerIdles, Attach, Detach, Strolls

----------------------------------------------------------------------------
LEMMA InitTypeOK == Init => TypeOK
  BY DaemonAssumption DEF Init, TypeOK, Fresh, Absent, Socket

LEMMA NextTypeOK == TypeOK /\ [Next]_vars => TypeOK'
<1> SUFFICES ASSUME TypeOK, [Next]_vars PROVE TypeOK'
  OBVIOUS
<1> USE DEF TypeOK
<1>1. CASE UNCHANGED vars
  BY <1>1 DEF vars, own
<1>2. ASSUME NEW d \in Procs, Start(d) PROVE TypeOK'
  BY <1>2, Serving DEF Start, Fresh
<1>3. ASSUME NEW d \in Procs, Open(d) PROVE TypeOK'
  <2>0. phase[d] = "open" /\ serves' = serves
    BY <1>3 DEF Open
  <2>1. /\ next[d] \in 1..Len(serves[d]) /\ Current(d) \in Protocols
        /\ ~IsLast(d) => next[d] + 1 \in 1..Len(serves[d])
        /\ Len(serves[d]) >= 1 /\ SecretOf[Current(d)] \in Secrets
    BY <2>0, CurrentServed, DaemonAssumption
  <2>3. cached' \in [Procs -> SUBSET Secrets]
    <3>1. cached \in [Procs -> SUBSET Secrets]
      OBVIOUS
    <3>2. PICK S \in SUBSET Secrets : cached' = [cached EXCEPT ![d] = S]
      <4>1. CASE ~IsLast(d)
        <5>1. cached[d] \union {SecretOf[Current(d)]} \in SUBSET Secrets
          BY <2>1, <3>1
        <5> QED
          BY <1>3, <4>1, <5>1 DEF Open
      <4>2. CASE IsLast(d)
        BY <1>3, <4>2 DEF Open
      <4> QED
        BY <4>1, <4>2
    <3> QED
      BY <3>1, <3>2
  <2>4. /\ next' \in [Procs -> Nat \ {0}]
        /\ \A e \in Procs : next'[e] = next[e] \/ (e = d /\ next'[e] <= Len(serves[e]))
    <3>1. PICK n \in 1..Len(serves[d]) : next' = [next EXCEPT ![d] = n]
      <4>1. CASE IsLast(d)
        BY <1>3, <2>1, <4>1 DEF Open
      <4>2. CASE ~IsLast(d)
        BY <1>3, <2>1, <4>2 DEF Open
      <4> QED
        BY <4>1, <4>2
    <3>2. n \in Nat \ {0} /\ Len(serves[d]) \in Nat /\ n <= Len(serves[d])
      BY <3>1, Serving
    <3> QED
      BY <3>1, <3>2
  <2>5. sessions' \in [Procs -> SUBSET Protocols]
    BY <1>3, <2>1 DEF Open
  <2>6. phase' = [phase EXCEPT ![d] = IF IsLast(d) THEN "look" ELSE "open"]
    BY <1>3 DEF Open
  <2>7. \A e \in Procs : phase'[e] \in {"open", "look", "remove", "create", "serve"} =>
           next'[e] <= Len(serves'[e])
    BY <2>0, <2>1, <2>4, <2>6
  <2> QED
    BY <1>3, <2>3, <2>4, <2>5, <2>6, <2>7 DEF Open
<1>4. ASSUME NEW d \in Procs, BindLook(d) PROVE TypeOK'
  BY <1>4 DEF BindLook
<1>5. ASSUME NEW d \in Procs, BindRemove(d) PROVE TypeOK'
  BY <1>5, DaemonAssumption DEF BindRemove, Absent, Socket
<1>6. ASSUME NEW d \in Procs, BindCreate(d) PROVE TypeOK'
  <2>0. phase[d] = "create" /\ serves' = serves
    BY <1>6 DEF BindCreate
  <2>1. /\ next[d] \in 1..Len(serves[d]) /\ Current(d) \in Protocols
        /\ ~IsLast(d) => next[d] + 1 \in 1..Len(serves[d])
        /\ Len(serves[d]) >= 1
    BY <2>0, CurrentServed
  <2>2. file' \in [Paths -> [proc : Procs \union {NoProc}, protocol : Protocols \union {"none"}]]
    BY <1>6, <2>1 DEF BindCreate, Socket
  <2>3. /\ next' \in [Procs -> Nat \ {0}]
        /\ \A e \in Procs : next'[e] = next[e] \/ (e = d /\ next'[e] <= Len(serves[e]))
    <3>1. PICK n \in 1..Len(serves[d]) : next' = [next EXCEPT ![d] = n]
      <4>1. CASE IsLast(d)
        BY <1>6, <2>1, <4>1 DEF BindCreate
      <4>2. CASE ~IsLast(d)
        BY <1>6, <2>1, <4>2 DEF BindCreate
      <4> QED
        BY <4>1, <4>2
    <3>2. n \in Nat \ {0} /\ Len(serves[d]) \in Nat /\ n <= Len(serves[d])
      BY <3>1, Serving
    <3> QED
      BY <3>1, <3>2
  <2>4. listening' \in [Procs -> SUBSET Protocols]
    BY <1>6, <2>1 DEF BindCreate
  <2>5. phase' = [phase EXCEPT ![d] = IF IsLast(d) THEN "serve" ELSE "look"]
    BY <1>6 DEF BindCreate
  <2>6. worker' \in [Procs -> [Protocols -> {"none", "check", "accept", "client", "left", "done"}]]
    <3>1. CASE IsLast(d)
      <4>1. PICK w \in [Protocols -> {"none", "check"}] : worker' = [worker EXCEPT ![d] = w]
        BY <1>6, <3>1 DEF BindCreate
      <4> QED
        BY <4>1
    <3>2. CASE ~IsLast(d)
      BY <1>6, <3>2 DEF BindCreate
    <3> QED
      BY <3>1, <3>2
  <2>7. \A e \in Procs : phase'[e] \in {"open", "look", "remove", "create", "serve"} =>
           next'[e] <= Len(serves'[e])
    BY <2>0, <2>1, <2>3, <2>5
  <2> QED
    BY <1>6, <2>2, <2>3, <2>4, <2>5, <2>6, <2>7 DEF BindCreate
<1>7. ASSUME NEW d \in Procs,
             StartRefused(d) \/ OpenFails(d) \/ BindRaced(d) \/ BindFails(d)
               \/ Crash(d) \/ Finish(d)
      PROVE TypeOK'
  BY <1>7 DEF StartRefused, OpenFails, BindRaced, BindFails, Crash, Finish, Exits
<1>8. ASSUME NEW d \in Procs, NEW p \in Protocols,
             Worker(d, p) \/ WorkerFails(d, p) \/ Attach(d, p) \/ Detach(d, p)
      PROVE TypeOK'
  <2>1. CASE Strolls(d, p)
    BY <2>1 DEF Strolls, Moves
  <2>2. CASE WorkerStops(d, p)
    BY <2>2 DEF WorkerStops, Leaves, Moves
  <2>3. CASE WorkerFails(d, p)
    BY <2>3 DEF WorkerFails, Leaves, Moves
  <2>4. CASE WorkerClears(d, p)
    BY <2>4 DEF WorkerClears, Moves
  <2> QED
    BY <1>8, <2>1, <2>2, <2>3, <2>4, LoopSteps DEF Worker
<1> QED
  BY <1>1, <1>2, <1>3, <1>4, <1>5, <1>6, <1>7, <1>8 DEF Next, Startup

(* Every state of the daemon is well typed.                                *)
THEOREM TypeCorrect == Spec => []TypeOK
<1>1. Spec => Init /\ [][Next]_vars
  BY DEF Spec, ThreadSpec
<1> QED
  BY <1>1, InitTypeOK, NextTypeOK, PTL

----------------------------------------------------------------------------
(* The stages of a start.  Before the last session is open no socket is    *)
(* bound; from then on the resolver is gone; a worker is what closes the   *)
(* session it was given.                                                   *)
Staged(d) ==
    /\ phase[d] \in {"off", "open", "exited"} => listening[d] = {}
    /\ phase[d] = "open" =>
         \A i \in 1..Len(serves[d]) : i < next[d] => serves[d][i] \in sessions[d]
    /\ phase[d] \in Binding \union {"serve"} => cached[d] = {}
    /\ phase[d] \in Binding => \A p \in Served(d) : p \in sessions[d]
    /\ phase[d] = "serve" =>
         \A p \in Served(d) : worker[d][p] \notin {"left", "done"} => p \in sessions[d]

StagedInv == TypeOK /\ \A d \in Procs : Staged(d)

LEMMA InitStaged == Init => StagedInv
  BY InitTypeOK DEF Init, StagedInv, Staged, Binding

LEMMA NextStaged == StagedInv /\ [Next]_vars => StagedInv'
<1> SUFFICES ASSUME StagedInv, [Next]_vars PROVE \A e \in Procs : Staged(e)'
  BY NextTypeOK DEF StagedInv
<1> TAKE e \in Procs
<1> USE DEF StagedInv, Staged, Binding, TypeOK
<1>0. serves' = serves /\ Served(e)' = Served(e) /\ Served(e) \subseteq Protocols
  BY Serving DEF Next, Start, StartRefused, Open, OpenFails, BindLook, BindRemove,
     BindCreate, BindRaced, BindFails, Startup, Worker, WorkerCheck, WorkerStops, WorkerIdles,
     WorkerFails, WorkerClears, Leaves, Attach, Detach, Crash, Finish, vars, Served
<1>1. CASE UNCHANGED vars
  BY <1>0, <1>1 DEF vars, own
<1>2. ASSUME NEW d \in Procs, Start(d) PROVE Staged(e)'
  BY <1>0, <1>2 DEF Start
<1>3. ASSUME NEW d \in Procs, Open(d) PROVE Staged(e)'
  <2>0. phase[d] = "open"
    BY <1>3 DEF Open
  <2>1. CASE e # d
    BY <1>0, <1>3, <2>1 DEF Open
  <2>2. CASE e = d
    <3>1. /\ next[d] \in 1..Len(serves[d]) /\ Len(serves[d]) \in Nat
          /\ IsLast(d) <=> next[d] = Len(serves[d])
      BY <2>0, CurrentServed, Serving
    <3>2. /\ sessions'[d] = sessions[d] \union {serves[d][next[d]]}
          /\ listening'[d] = {}
      BY <1>3 DEF Open, Current
    <3>3. \A i \in 1..Len(serves[d]) : i < next[d] + 1 => serves[d][i] \in sessions'[d]
      BY <2>0, <3>1, <3>2
    <3>4. CASE ~IsLast(d)
      <4>1. phase'[d] = "open" /\ next'[d] = next[d] + 1
        BY <1>3, <2>0, <3>4 DEF Open
      <4> QED
        BY <1>0, <2>2, <3>2, <3>3, <4>1
    <3>5. CASE IsLast(d)
      <4>1. phase'[d] = "look" /\ cached'[d] = {}
        BY <1>3, <3>5 DEF Open
      <4>2. \A p \in Served(d) : p \in sessions'[d]
        <5>1. \A i \in 1..Len(serves[d]) : i < next[d] + 1
          BY <3>1, <3>5
        <5> QED
          BY <3>3, <5>1 DEF Served
      <4> QED
        BY <1>0, <2>2, <4>1, <4>2
    <3> QED
      BY <3>4, <3>5
  <2> QED
    BY <2>1, <2>2
<1>4. ASSUME NEW d \in Procs, BindLook(d) PROVE Staged(e)'
  BY <1>0, <1>4 DEF BindLook
<1>5. ASSUME NEW d \in Procs, BindRemove(d) PROVE Staged(e)'
  BY <1>0, <1>5 DEF BindRemove
<1>6. ASSUME NEW d \in Procs, BindCreate(d) PROVE Staged(e)'
  BY <1>0, <1>6 DEF BindCreate
<1>7. ASSUME NEW d \in Procs,
             StartRefused(d) \/ OpenFails(d) \/ BindRaced(d) \/ BindFails(d)
               \/ Crash(d) \/ Finish(d)
      PROVE Staged(e)'
  <2>1. \E st : Exits(d, st)
    BY <1>7 DEF StartRefused, OpenFails, BindRaced, BindFails, Crash, Finish
  <2>2. UNCHANGED <<next, worker>>
    BY <1>7 DEF StartRefused, OpenFails, BindRaced, BindFails, Crash, Finish
  <2>3. CASE e = d
    BY <1>0, <2>1, <2>2, <2>3 DEF Exits
  <2>4. CASE e # d
    BY <1>0, <2>1, <2>2, <2>4 DEF Exits
  <2> QED
    BY <2>3, <2>4
<1>8. ASSUME NEW d \in Procs, NEW p \in Protocols,
             Worker(d, p) \/ WorkerFails(d, p) \/ Attach(d, p) \/ Detach(d, p)
      PROVE Staged(e)'
  <2>1. CASE Strolls(d, p)
    BY <1>0, <2>1 DEF Strolls, Moves
  <2>2. CASE WorkerStops(d, p)
    BY <1>0, <2>2 DEF WorkerStops, Leaves, Moves
  <2>3. CASE WorkerFails(d, p)
    BY <1>0, <2>3 DEF WorkerFails, Leaves, Moves
  <2>4. CASE WorkerClears(d, p)
    BY <1>0, <2>4 DEF WorkerClears, Moves
  <2> QED
    BY <1>8, <2>1, <2>2, <2>3, <2>4, LoopSteps DEF Worker
<1> QED
  BY <1>1, <1>2, <1>3, <1>4, <1>5, <1>6, <1>7, <1>8 DEF Next, Startup

LEMMA StagedSuffices == StagedInv => OpenBeforeBind
  BY DEF StagedInv, Staged, Binding, OpenBeforeBind, TypeOK

(* However many protocols and processes there are, a process with a socket *)
(* bound has every session open whose worker is not over, and holds no     *)
(* plaintext secret any more.                                              *)
THEOREM NothingBoundHalfOpen == Spec => []OpenBeforeBind
<1>1. Spec => Init /\ [][Next]_vars
  BY DEF Spec, ThreadSpec
<1> QED
  BY <1>1, InitStaged, NextStaged, StagedSuffices, PTL

----------------------------------------------------------------------------
(* Why a run stops.  An outcome is known exactly once its worker left, and *)
(* the first one to be known is a failure: Ok is only returned once the    *)
(* flag is down, and only a worker that left puts it down.                 *)
Accounted(d) ==
    /\ phase[d] \in Binding \union {"open"} => \A p \in Protocols : worker[d][p] = "none"
    /\ \A p \in Protocols : worker[d][p] \in {"left", "done"} <=> outcome[d][p] # "none"
    /\ \A p \in Protocols : worker[d][p] # "none" => p \in Served(d)
    /\ ~running[d] => \E p \in Protocols : outcome[d][p] = "err"
    /\ \A p \in Protocols : outcome[d][p] = "ok" =>
          \E q \in Protocols : outcome[d][q] = "err"
    /\ status[d] # "ok"

FailureInv == TypeOK /\ \A d \in Procs : Accounted(d)

LEMMA InitFailure == Init => FailureInv
  BY InitTypeOK DEF Init, FailureInv, Accounted, Fresh, Binding

LEMMA NextFailure == FailureInv /\ [Next]_vars => FailureInv'
<1> SUFFICES ASSUME FailureInv, [Next]_vars PROVE \A e \in Procs : Accounted(e)'
  BY NextTypeOK DEF FailureInv
<1> TAKE e \in Procs
<1> USE DEF FailureInv, Accounted, Binding, TypeOK
<1>0. serves' = serves /\ Served(e)' = Served(e) /\ Served(e) \subseteq Protocols
  BY Serving DEF Next, Start, StartRefused, Open, OpenFails, BindLook, BindRemove,
     BindCreate, BindRaced, BindFails, Startup, Worker, WorkerCheck, WorkerStops, WorkerIdles,
     WorkerFails, WorkerClears, Leaves, Attach, Detach, Crash, Finish, vars, Served
<1>1. CASE UNCHANGED vars
  BY <1>0, <1>1 DEF vars, own
<1>2. ASSUME NEW d \in Procs, Start(d) PROVE Accounted(e)'
  BY <1>0, <1>2 DEF Start, Fresh
<1>3. ASSUME NEW d \in Procs, Open(d) \/ BindLook(d) \/ BindRemove(d) PROVE Accounted(e)'
  <2>1. /\ UNCHANGED <<running, worker, outcome, status>>
        /\ phase[d] \in Binding \union {"open"}
        /\ \E st \in Binding \union {"open"} : phase' = [phase EXCEPT ![d] = st]
    <3>1. CASE Open(d)
      <4>1. phase' = [phase EXCEPT ![d] = IF IsLast(d) THEN "look" ELSE "open"]
        BY <3>1 DEF Open
      <4> QED
        BY <3>1, <4>1 DEF Open
    <3>2. CASE BindLook(d)
      BY <3>2 DEF BindLook
    <3>3. CASE BindRemove(d)
      BY <3>3 DEF BindRemove
    <3> QED
      BY <1>3, <3>1, <3>2, <3>3
  <2> QED
    BY <1>0, <2>1
<1>4. ASSUME NEW d \in Procs, BindCreate(d) PROVE Accounted(e)'
  <2>1. /\ phase[d] \in Binding /\ UNCHANGED <<running, outcome, status>>
        /\ phase' = [phase EXCEPT ![d] = IF IsLast(d) THEN "serve" ELSE "look"]
    BY <1>4 DEF BindCreate
  <2>2. \A p \in Protocols :
           /\ worker'[e][p] \in {"left", "done"} <=> worker[e][p] \in {"left", "done"}
           /\ worker'[e][p] # "none" => worker[e][p] # "none" \/ p \in Served(e)
           /\ worker'[e][p] # worker[e][p] => e = d /\ IsLast(d)
    <3>1. CASE IsLast(d)
      BY <1>4, <2>1, <3>1 DEF BindCreate
    <3>2. CASE ~IsLast(d)
      BY <1>4, <3>2 DEF BindCreate
    <3> QED
      BY <3>1, <3>2
  <2> QED
    BY <1>0, <2>1, <2>2
<1>5. ASSUME NEW d \in Procs,
             StartRefused(d) \/ OpenFails(d) \/ BindRaced(d) \/ BindFails(d) \/ Crash(d)
      PROVE Accounted(e)'
  <2>1. \E st \in {"err", "killed"} : Exits(d, st)
    BY <1>5 DEF StartRefused, OpenFails, BindRaced, BindFails, Crash
  <2>2. UNCHANGED <<running, worker, outcome>>
    BY <1>5 DEF StartRefused, OpenFails, BindRaced, BindFails, Crash
  <2> QED
    BY <1>0, <2>1, <2>2 DEF Exits
<1>6. ASSUME NEW d \in Procs, Finish(d) PROVE Accounted(e)'
  <2>0. phase[d] = "serve" /\ Current(d) \in Served(d) /\ Current(d) \in Protocols
    BY <1>6, CurrentServed DEF Finish
  <2>1. outcome[d][Current(d)] # "none"
    BY <1>6, <2>0 DEF Finish
  <2>2. \E p \in Served(d) : outcome[d][p] = "err"
    <3>1. PICK p \in Protocols : outcome[d][p] = "err"
      BY <2>0, <2>1
    <3>2. p \in Served(d)
      BY <3>1
    <3> QED
      BY <3>1, <3>2
  <2> QED
    BY <1>0, <1>6, <2>2 DEF Finish, Exits
<1>7. ASSUME NEW d \in Procs, NEW p \in Protocols, Strolls(d, p) PROVE Accounted(e)'
  BY <1>0, <1>7 DEF Strolls, Moves
<1>8. ASSUME NEW d \in Procs, NEW p \in Protocols, WorkerStops(d, p) PROVE Accounted(e)'
  <2>1. PICK q \in Protocols : outcome[d][q] = "err"
    BY <1>8 DEF WorkerStops
  <2>2. outcome[d][p] = "none" /\ p # q
    BY <1>8, <2>1 DEF WorkerStops, Leaves, Moves
  <2>3. outcome'[d][q] = "err"
    BY <1>8, <2>1, <2>2 DEF WorkerStops, Leaves
  <2> QED
    BY <1>0, <1>8, <2>3 DEF WorkerStops, Leaves, Moves
<1>9. ASSUME NEW d \in Procs, NEW p \in Protocols, WorkerFails(d, p) PROVE Accounted(e)'
  <2>1. outcome'[d][p] = "err"
    BY <1>9 DEF WorkerFails, Leaves
  <2> QED
    BY <1>0, <1>9, <2>1 DEF WorkerFails, Leaves, Moves
<1>10. ASSUME NEW d \in Procs, NEW p \in Protocols, WorkerClears(d, p) PROVE Accounted(e)'
  <2>1. \E q \in Protocols : outcome[d][q] = "err"
    BY <1>10 DEF WorkerClears, Moves
  <2> QED
    BY <1>0, <1>10, <2>1 DEF WorkerClears, Moves
<1> QED
  BY <1>1, <1>2, <1>3, <1>4, <1>5, <1>6, <1>7, <1>8, <1>9, <1>10,
     LoopSteps DEF Next, Startup, Worker

(* A run stops for a failure only, with any number of protocols: a flag    *)
(* that is down, or a worker that returned Ok, has a failed worker behind  *)
(* it.                                                                     *)
THEOREM StopsOnlyForAFailure == Spec => []StopsForAFailure
<1>1. Spec => Init /\ [][Next]_vars
  BY DEF Spec, ThreadSpec
<1>2. FailureInv => StopsForAFailure
  BY DEF FailureInv, Accounted, StopsForAFailure
<1> QED
  BY <1>1, <1>2, InitFailure, NextFailure, PTL

(* No daemon ever exits with success, with any number of protocols.        *)
THEOREM EveryExitIsAFailure == Spec => []NeverExitsClean
<1>1. Spec => Init /\ [][Next]_vars
  BY DEF Spec, ThreadSpec
<1>2. FailureInv => NeverExitsClean
  BY DEF FailureInv, Accounted, NeverExitsClean
<1> QED
  BY <1>1, <1>2, InitFailure, NextFailure, PTL

----------------------------------------------------------------------------
(* The workers of Daemon are those module Session implements: serving      *)
(* begins with each of them at its start, and whatever any process does    *)
(* from then on is a step of Worker for each of them, or none.             *)
At(w)   == IF w = "done" THEN "left" ELSE w
W(d, p) == INSTANCE Worker WITH at <- At(worker[d][p]), outcome <- outcome[d][p],
                                running <- running[d]

WorkerSteps(d, p) ==
    IF phase[d] = "serve" THEN [W(d, p)!Next]_(W(d, p)!workerVars) ELSE W(d, p)!Init'

RunsWorkers ==
    [][\A d \in Procs : phase'[d] = "serve" => \A p \in Served(d) : WorkerSteps(d, p)]_vars

LEMMA NextRunsWorkers ==
  ASSUME FailureInv, [Next]_vars,
         NEW e \in Procs, phase'[e] = "serve", NEW q \in Served(e)
  PROVE  WorkerSteps(e, q)
<1> USE DEF FailureInv, TypeOK
<1>0. q \in Protocols /\ serves' = serves
  <2>1. q \in Protocols
    BY Serving
  <2>2. serves' = serves
    BY DEF Next, Start, StartRefused, Open, OpenFails, BindLook, BindRemove,
       BindCreate, BindRaced, BindFails, Startup, Worker, WorkerCheck, WorkerStops, WorkerIdles,
       WorkerFails, WorkerClears, Leaves, Attach, Detach, Crash, Finish, vars
  <2> QED
    BY <2>1, <2>2
<1> DEFINE Still == UNCHANGED <<phase[e], worker[e][q], outcome[e][q], running[e]>>
<1>1. ASSUME Still PROVE WorkerSteps(e, q)
  BY <1>1 DEF WorkerSteps, W!workerVars
<1>2. CASE UNCHANGED vars
  <2>1. Still
    BY <1>2 DEF vars, own
  <2> QED
    BY <1>1, <2>1
<1>3. ASSUME NEW d \in Procs,
             \/ Start(d) \/ StartRefused(d) \/ Open(d) \/ OpenFails(d) \/ BindLook(d)
             \/ BindRemove(d) \/ BindRaced(d) \/ BindFails(d) \/ Crash(d) \/ Finish(d)
      PROVE  WorkerSteps(e, q)
  <2>1. phase'[d] # "serve"
    BY <1>3 DEF Start, StartRefused, Open, OpenFails, BindLook, BindRemove, BindRaced,
       BindFails, Crash, Finish, Exits
  <2>2. e # d
    BY <2>1
  <2>3. Still
    BY <1>3, <2>2 DEF Start, StartRefused, Open, OpenFails, BindLook, BindRemove, BindRaced,
       BindFails, Crash, Finish, Exits
  <2> QED
    BY <1>1, <2>3
<1>4. ASSUME NEW d \in Procs, BindCreate(d) PROVE WorkerSteps(e, q)
  <2>1. CASE e # d
    <3>1. Still
      BY <1>4, <2>1 DEF BindCreate
    <3> QED
      BY <1>1, <3>1
  <2>2. CASE e = d
    <3>1. phase[e] = "create" /\ IsLast(e)
      BY <1>4, <2>2 DEF BindCreate
    <3>2. /\ worker'[e][q] = "check" /\ UNCHANGED <<outcome, running>>
      BY <1>0, <1>4, <2>2, <3>1 DEF BindCreate
    <3>3. \A p \in Protocols : outcome[e][p] = "none"
      BY <3>1 DEF Accounted, Binding
    <3>4. running[e] = TRUE
      BY <3>3 DEF Accounted
    <3> QED
      BY <1>0, <3>1, <3>2, <3>3, <3>4 DEF WorkerSteps, W!Init, At
  <2> QED
    BY <2>1, <2>2
<1>5. ASSUME NEW d \in Procs, NEW p \in Protocols,
             Worker(d, p) \/ WorkerFails(d, p) \/ Attach(d, p) \/ Detach(d, p)
      PROVE  WorkerSteps(e, q)
  <2> USE DEF Moves, Leaves
  <2>1. CASE e # d
    <3>1. Still
      BY <1>5, <2>1 DEF Worker, WorkerCheck, WorkerStops, WorkerIdles, WorkerClears,
         WorkerFails, Attach, Detach
    <3> QED
      BY <1>1, <3>1
  <2>2. CASE e = d /\ WorkerClears(d, p)
    <3>1. /\ phase[e] = "serve" /\ running'[e] = FALSE /\ outcome' = outcome
          /\ At(worker'[e][q]) = At(worker[e][q])
      BY <1>0, <2>2 DEF WorkerClears, At
    <3> QED
      BY <3>1 DEF WorkerSteps, W!Next, W!FlagFalls
  <2>3. CASE e = d /\ p # q /\ ~WorkerClears(d, p)
    <3>1. Still
      BY <1>0, <1>5, <2>3 DEF Worker, WorkerCheck, WorkerStops, WorkerIdles, WorkerFails,
         Attach, Detach
    <3> QED
      BY <1>1, <3>1
  <2>4. CASE e = d /\ p = q /\ ~WorkerClears(d, p)
    <3> SUFFICES ASSUME phase[e] = "serve" PROVE W(e, q)!Next
      BY <1>5, <2>4 DEF Worker, WorkerCheck, WorkerStops, WorkerIdles, WorkerFails,
         Attach, Detach, WorkerSteps
    <3> USE DEF W!Next, W!Own, W!Goes, W!Returns, At
    <3>1. CASE WorkerCheck(d, p)
      BY <1>0, <2>4, <3>1 DEF WorkerCheck, W!Polls
    <3>2. CASE WorkerStops(d, p)
      BY <1>0, <2>4, <3>2 DEF WorkerStops, W!Stops
    <3>3. CASE WorkerIdles(d, p)
      BY <1>0, <2>4, <3>3 DEF WorkerIdles, W!Idles
    <3>4. CASE WorkerFails(d, p)
      BY <1>0, <2>4, <3>4 DEF WorkerFails, W!Fails
    <3>5. CASE Attach(d, p)
      BY <1>0, <2>4, <3>5 DEF Attach, W!Accepts
    <3>6. CASE Detach(d, p)
      BY <1>0, <2>4, <3>6 DEF Detach, W!Frees
    <3> QED
      BY <1>5, <2>4, <3>1, <3>2, <3>3, <3>4, <3>5, <3>6 DEF Worker
  <2> QED
    BY <2>1, <2>2, <2>3, <2>4
<1> QED
  BY <1>2, <1>3, <1>4, <1>5 DEF Next, Startup

THEOREM ServesWithWorkers == Spec => RunsWorkers
<1>1. Spec => Init /\ [][Next]_vars
  BY DEF Spec, ThreadSpec
<1>2. FailureInv /\ [Next]_vars =>
        [\A d \in Procs : phase'[d] = "serve" => \A p \in Served(d) : WorkerSteps(d, p)]_vars
  BY NextRunsWorkers
<1> QED
  BY <1>1, <1>2, InitFailure, NextFailure, PTL DEF RunsWorkers

(* And a worker may take each of its own steps there, whatever the others  *)
(* are at: the flag falls when a sibling clears it, and everything else    *)
(* that Worker does, Daemon has an action for.  So no behaviour of the     *)
(* accept loop escapes what is proved of Daemon.                           *)
OnlyOf(d, p) ==
    /\ worker' = [worker EXCEPT ![d][p] = worker'[d][p]]
    /\ outcome' = [outcome EXCEPT ![d][p] = outcome'[d][p]]
    /\ LET held(S) == IF worker'[d][p] = "left" THEN S \ {p} ELSE S
       IN  /\ sessions' = [sessions EXCEPT ![d] = held(@)]
           /\ listening' = [listening EXCEPT ![d] = held(@)]
    /\ UNCHANGED <<serves, phase, next, cached, running, status, file>>

THEOREM WorkersAreServed ==
  ASSUME TypeOK, MayFail, NEW d \in Procs, phase[d] = "serve", NEW p \in Protocols,
         worker[d][p] # "done", worker'[d][p] # "done", OnlyOf(d, p), W(d, p)!Own
  PROVE  Next
<1> USE DEF TypeOK, OnlyOf, Moves, Leaves, At, W!Goes, W!Returns
<1>0. ASSUME worker'[d][p] # "left", outcome'[d][p] = outcome[d][p]
      PROVE  UNCHANGED <<outcome, sessions, listening>>
  <2>1. [outcome EXCEPT ![d][p] = outcome[d][p]] = outcome
    OBVIOUS
  <2> QED
    BY <1>0, <2>1
<1>1. CASE W(d, p)!Polls
  <2>1. WorkerCheck(d, p)
    BY <1>0, <1>1 DEF W!Polls, WorkerCheck
  <2> QED
    BY <2>1 DEF Next, Worker
<1>2. CASE W(d, p)!Idles
  <2>1. WorkerIdles(d, p)
    BY <1>0, <1>2 DEF W!Idles, WorkerIdles
  <2> QED
    BY <2>1 DEF Next, Worker
<1>3. CASE W(d, p)!Accepts
  <2>1. Attach(d, p)
    BY <1>0, <1>3 DEF W!Accepts, Attach
  <2> QED
    BY <2>1 DEF Next
<1>4. CASE W(d, p)!Frees
  <2>1. Detach(d, p)
    BY <1>0, <1>4 DEF W!Frees, Detach
  <2> QED
    BY <2>1 DEF Next
<1>5. CASE W(d, p)!Stops
  <2>1. WorkerStops(d, p)
    BY <1>5 DEF W!Stops, WorkerStops
  <2> QED
    BY <2>1 DEF Next, Worker
<1>6. CASE W(d, p)!Fails
  <2>1. WorkerFails(d, p)
    BY <1>6 DEF W!Fails, WorkerFails
  <2> QED
    BY <2>1 DEF Next
<1> QED
  BY <1>1, <1>2, <1>3, <1>4, <1>5, <1>6 DEF W!Own
=============================================================================
