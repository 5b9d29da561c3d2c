---------------------------- MODULE SocketProofs ----------------------------
(***************************************************************************)
(* Who owns which socket file, for any number of units, any command lines  *)
(* and any paths, as long as each protocol has a path of its own.          *)
(***************************************************************************)
EXTENDS DaemonProofs

PathsDiffer == \A p, q \in Protocols : SockPath(p) = SockPath(q) => p = q

(* A listener is the one its file names; what a start has bound is what it *)
(* has passed; the path it is about to create is free.                     *)
Owned(d) ==
    /\ phase[d] = "create" => file[SockPath(Current(d))] = Absent
    /\ \A p \in listening[d] :
          file[SockPath(p)] = Socket(d, p) /\ p \in Served(d) /\ phase[d] # "off"
    /\ phase[d] \in Binding =>
          /\ \A p \in listening[d] : \E i \in 1..Len(serves[d]) :
                i < next[d] /\ p = serves[d][i]
          /\ \A i \in 1..Len(serves[d]) : i < next[d] => serves[d][i] \in listening[d]
    /\ phase[d] = "serve" => \A p \in Protocols :
          worker[d][p] \in {"check", "accept", "client"} => p \in listening[d]

(* A file, stale or live, names a protocol its process serves and is at    *)
(* the path of that protocol.                                              *)
Named ==
    \A q \in Paths : file[q].proc \in Procs =>
        /\ file[q].protocol \in Served(file[q].proc) /\ phase[file[q].proc] # "off"
        /\ q = SockPath(file[q].protocol)

OwnedInv == StagedInv /\ (Apart => Named /\ \A d \in Procs : Owned(d))

----------------------------------------------------------------------------
(* What a process serves never changes, and no process becomes one that    *)
(* was never started.                                                      *)
LEMMA Constant ==
  ASSUME StagedInv, [Next]_vars
  PROVE  /\ serves' = serves /\ \A d : Served(d)' = Served(d)
         /\ \A d \in Procs : phase[d] # "off" => phase'[d] # "off"
<1> USE DEF StagedInv, TypeOK
<1>1. serves' = serves
  BY DEF Next, Start, StartRefused, Open, OpenFails, BindLook, BindRemove,
     BindCreate, BindRaced, BindFails, Startup, Worker, WorkerCheck, WorkerStops, WorkerIdles,
     WorkerFails, WorkerClears, Leaves, Attach, Detach, Crash, Finish, vars
<1>2. UNCHANGED phase \/ \E d \in Procs, st \in
         {"open", "look", "remove", "create", "serve", "exited"} :
             phase' = [phase EXCEPT ![d] = st]
  <2>1. CASE UNCHANGED vars
    BY <2>1 DEF vars, own
  <2>2. ASSUME NEW d \in Procs, Start(d) \/ BindLook(d) \/ BindRemove(d)
        PROVE  <1>2!2
    BY <2>2 DEF Start, BindLook, BindRemove
  <2>3. ASSUME NEW d \in Procs, Open(d) \/ BindCreate(d) PROVE <1>2
    BY <2>3 DEF Open, BindCreate
  <2>4. ASSUME NEW d \in Procs, StartRefused(d) \/ OpenFails(d) \/ BindRaced(d)
                 \/ BindFails(d) \/ Crash(d) \/ Finish(d)
        PROVE  <1>2!2
    BY <2>4 DEF StartRefused, OpenFails, BindRaced, BindFails, Crash, Finish, Exits
  <2>5. ASSUME NEW d \in Procs, NEW p \in Protocols,
               Worker(d, p) \/ WorkerFails(d, p) \/ Attach(d, p) \/ Detach(d, p)
        PROVE  UNCHANGED phase
    BY <2>5 DEF Worker, WorkerCheck, WorkerStops, WorkerIdles, WorkerFails, WorkerClears,
       Leaves, Attach, Detach
  <2> QED
    BY <2>1, <2>2, <2>3, <2>4, <2>5 DEF Next, Startup
<1> QED
  BY <1>1, <1>2 DEF Served

LEMMA StillApart ==
  ASSUME StagedInv, [Next]_vars, Apart' PROVE Apart
  BY Constant DEF Apart

(* No listener, of this start or of another unit, is at the path a start   *)
(* binds next.                                                             *)
LEMMA NobodyThere ==
  ASSUME PathsDiffer, OwnedInv, Apart,
         NEW d \in Procs, phase[d] \in Binding,
         NEW e \in Procs, NEW q \in listening[e]
  PROVE  SockPath(q) # SockPath(Current(d))
<1> USE DEF OwnedInv, StagedInv
<1> SUFFICES ASSUME SockPath(q) = SockPath(Current(d)) PROVE FALSE
  OBVIOUS
<1>1. /\ next[d] \in 1..Len(serves[d]) /\ Current(d) \in Served(d)
      /\ Current(d) \in Protocols /\ q \in Served(e) /\ q \in Protocols
  BY CurrentServed, Serving DEF Binding, Owned, TypeOK
<1>2. q = Current(d)
  BY <1>1 DEF PathsDiffer
<1>3. e = d
  BY <1>1, <1>2 DEF Apart, Owned, Binding
<1>4. PICK i \in 1..Len(serves[d]) : i < next[d] /\ q = serves[d][i]
  BY <1>3 DEF Owned
<1>5. Len(serves[d]) \in Nat /\ serves[d] \in Selections
  BY Serving DEF TypeOK
<1>6. i = next[d]
  BY <1>1, <1>2, <1>4, <1>5, SelectedOnce DEF Once, Current
<1> QED
  BY <1>1, <1>4, <1>5, <1>6

LEMMA InitOwned == Init => OwnedInv
<1> SUFFICES ASSUME Init PROVE OwnedInv
  OBVIOUS
<1>1. StagedInv
  BY InitStaged
<1>2. Named
  BY DaemonAssumption DEF Init, Named, Absent, Socket
<1>3. \A d \in Procs : Owned(d)
  BY DEF Init, Owned, Binding
<1> QED
  BY <1>1, <1>2, <1>3 DEF OwnedInv

----------------------------------------------------------------------------
LEMMA NextNamed ==
  ASSUME OwnedInv, [Next]_vars, Apart' PROVE Named'
<1> USE DEF OwnedInv, StagedInv, TypeOK
<1>0. /\ serves' = serves /\ \A d : Served(d)' = Served(d)
      /\ \A d \in Procs : phase[d] # "off" => phase'[d] # "off"
      /\ Named /\ \A p : SockPath(p)' = SockPath(p)
  BY Constant, StillApart DEF SockPath
<1>1. CASE UNCHANGED file
  BY <1>0, <1>1 DEF Named
<1>2. ASSUME NEW d \in Procs, BindRemove(d) PROVE Named'
  <2>1. file' = [file EXCEPT ![SockPath(Current(d))] = Absent]
    BY <1>2 DEF BindRemove
  <2>2. \A q \in Paths : file'[q] = file[q] \/ file'[q].proc = NoProc
    BY <2>1 DEF Absent, Socket
  <2> QED
    BY <1>0, <2>2, DaemonAssumption DEF Named
<1>3. ASSUME NEW d \in Procs, BindCreate(d) PROVE Named'
  <2>1. /\ file' = [file EXCEPT ![SockPath(Current(d))] = Socket(d, Current(d))]
        /\ phase[d] = "create"
    BY <1>3 DEF BindCreate
  <2>2. Current(d) \in Served(d) /\ phase'[d] # "off"
    BY <1>0, <2>1, CurrentServed
  <2>3. \A q \in Paths : file'[q] = file[q]
           \/ (q = SockPath(Current(d)) /\ file'[q] = Socket(d, Current(d)))
    BY <2>1
  <2>4. Socket(d, Current(d)).proc = d /\ Socket(d, Current(d)).protocol = Current(d)
    BY DEF Socket
  <2> QED
    BY <1>0, <2>2, <2>3, <2>4 DEF Named
<1>4. UNCHANGED file \/ \E d \in Procs : BindRemove(d) \/ BindCreate(d)
  BY DEF Next, Start, StartRefused, Open, OpenFails, BindLook, BindRaced, BindFails, Startup,
     Worker, WorkerCheck, WorkerStops, WorkerIdles, WorkerFails, WorkerClears, Leaves,
     Attach, Detach, Crash, Finish, vars
<1> QED
  BY <1>1, <1>2, <1>3, <1>4

LEMMA NextOwns ==
  ASSUME PathsDiffer, OwnedInv, [Next]_vars, Apart', NEW e \in Procs
  PROVE  Owned(e)'
<1> USE DEF OwnedInv, StagedInv, TypeOK, Owned, Binding
<1>0. /\ serves' = serves /\ \A d : Served(d)' = Served(d)
      /\ \A d \in Procs : phase[d] # "off" => phase'[d] # "off"
      /\ Apart /\ Named /\ \A d \in Procs : Owned(d)
      /\ \A p : SockPath(p)' = SockPath(p)
      /\ \A d, p : Socket(d, p)' = Socket(d, p)
      /\ Absent' = Absent
      /\ Served(e) \subseteq Protocols
  BY Constant, StillApart, Serving DEF SockPath, Socket, Absent
<1>1. CASE UNCHANGED vars
  BY <1>0, <1>1 DEF vars, own, Current
<1>2. ASSUME NEW d \in Procs, Start(d) PROVE Owned(e)'
  <2>1. listening[d] = {}
    BY <1>2 DEF Start, Staged
  <2>2. Current(e)' = Current(e) \/ e = d
    BY <1>0, <1>2 DEF Start, Current
  <2>3. phase'[e] = IF e = d THEN "open" ELSE phase[e]
    BY <1>2 DEF Start
  <2> QED
    BY <1>0, <1>2, <2>1, <2>2, <2>3 DEF Start
<1>3. ASSUME NEW d \in Procs, Open(d) PROVE Owned(e)'
  <2>1. /\ phase[d] = "open" /\ listening' = listening /\ file' = file /\ worker' = worker
        /\ phase'[e] = IF e = d THEN IF IsLast(d) THEN "look" ELSE "open" ELSE phase[e]
    BY <1>3 DEF Open
  <2>2. CASE e = d
    <3>1. listening'[e] = {}
      BY <2>1, <2>2 DEF StagedInv, Staged
    <3>2. IsLast(d) => next'[e] = 1
      BY <1>3, <2>2 DEF Open
    <3>3. phase'[e] = "look" => IsLast(d)
      BY <2>1, <2>2
    <3>4. Len(serves[e]) \in Nat
      BY Serving
    <3> QED
      BY <1>0, <2>1, <2>2, <3>1, <3>2, <3>3, <3>4
  <2>3. CASE e # d
    <3>1. next'[e] = next[e] /\ Current(e)' = Current(e)
      BY <1>0, <1>3, <2>3 DEF Open, Current
    <3> QED
      BY <1>0, <2>1, <2>3, <3>1
  <2> QED
    BY <2>2, <2>3
<1>4. ASSUME NEW d \in Procs, BindLook(d) PROVE Owned(e)'
  <2>1. /\ UNCHANGED <<next, listening, worker, file>> /\ Current(e)' = Current(e)
    BY <1>0, <1>4 DEF BindLook, Current
  <2>2. phase'[e] = IF e = d THEN IF file[SockPath(Current(d))] = Absent THEN "create" ELSE "remove"
                             ELSE phase[e]
    BY <1>4 DEF BindLook
  <2>3. phase[d] = "look"
    BY <1>4 DEF BindLook
  <2>4. CASE e = d
    BY <1>0, <2>1, <2>2, <2>3, <2>4
  <2>5. CASE e # d
    BY <1>0, <2>1, <2>2, <2>5
  <2> QED
    BY <2>4, <2>5
<1>5. ASSUME NEW d \in Procs, BindRemove(d) PROVE Owned(e)'
  <2>1. /\ UNCHANGED <<next, listening, worker>> /\ Current(e)' = Current(e)
        /\ phase[d] = "remove"
        /\ phase'[e] = IF e = d THEN "create" ELSE phase[e]
        /\ file' = [file EXCEPT ![SockPath(Current(d))] = Absent]
    BY <1>0, <1>5 DEF BindRemove, Current
  <2>2. Current(d) \in Protocols /\ SockPath(Current(d)) \in Paths
    BY <2>1, CurrentServed, PathTyped
  <2>3. \A p \in listening'[e] : file'[SockPath(p)] = Socket(e, p)
    BY <1>0, <2>1, <2>2, NobodyThere
  <2>4. phase'[e] = "create" => file'[SockPath(Current(e))] = Absent
    BY <1>0, <2>1, <2>2
  <2> QED
    BY <1>0, <2>1, <2>3, <2>4
<1>6. ASSUME NEW d \in Procs, BindCreate(d) PROVE Owned(e)'
  <2>1. /\ phase[d] = "create"
        /\ file' = [file EXCEPT ![SockPath(Current(d))] = Socket(d, Current(d))]
        /\ listening' = [listening EXCEPT ![d] = @ \union {Current(d)}]
    BY <1>6 DEF BindCreate
  <2>2. /\ next[d] \in 1..Len(serves[d]) /\ Current(d) \in Served(d) /\ Current(d) \in Protocols
        /\ (IsLast(d) <=> next[d] = Len(serves[d]))
        /\ SockPath(Current(d)) \in Paths
        /\ Len(serves[d]) \in Nat
    BY <2>1, CurrentServed, PathTyped, Serving
  <2>3. CASE e # d
    <3>1. /\ next'[e] = next[e] /\ Current(e)' = Current(e) /\ worker'[e] = worker[e]
          /\ phase'[e] = phase[e] /\ listening'[e] = listening[e]
      BY <1>0, <1>6, <2>3 DEF BindCreate, Current
    <3>2. \A p \in listening[e] : file'[SockPath(p)] = file[SockPath(p)]
      BY <2>1, <2>2, NobodyThere, <1>0
    <3>3. phase[e] = "create" => SockPath(Current(e)) # SockPath(Current(d))
      <4>1. SUFFICES ASSUME phase[e] = "create" PROVE Current(e) # Current(d)
        BY <2>2, CurrentServed DEF PathsDiffer
      <4> QED
        BY <1>0, <2>1, <2>2, <2>3, <4>1, CurrentServed DEF Apart
    <3>4. phase[e] = "create" => file'[SockPath(Current(e))] = Absent
      BY <1>0, <2>1, <3>3
    <3>5. \A p \in listening'[e] :
             file'[SockPath(p)] = Socket(e, p) /\ p \in Served(e) /\ phase'[e] # "off"
      BY <1>0, <3>1, <3>2
    <3> QED
      BY <1>0, <3>1, <3>4, <3>5
  <2>4. CASE e = d
    <3>0. \A p \in listening[e] : SockPath(p) # SockPath(Current(e))
      BY <1>0, <2>1, <2>4, NobodyThere
    <3>1. /\ listening'[e] = listening[e] \union {Current(e)}
          /\ file'[SockPath(Current(e))] = Socket(e, Current(e))
          /\ \A p \in listening[e] : file'[SockPath(p)] = file[SockPath(p)]
      <4>1. file'[SockPath(Current(e))] = Socket(e, Current(e))
        BY <2>1, <2>2, <2>4
      <4>2. listening'[e] = listening[e] \union {Current(e)}
        BY <2>1, <2>4
      <4>3. \A p \in listening[e] : SockPath(p) \in Paths
        BY PathTyped
      <4> QED
        BY <2>1, <2>4, <3>0, <4>1, <4>2, <4>3
    <3>2. \A p \in listening'[e] : file'[SockPath(p)] = Socket(e, p) /\ p \in Served(e)
      BY <1>0, <2>2, <2>4, <3>1
    <3>3. CASE IsLast(d)
      <4>1. phase'[e] = "serve"
        BY <1>6, <2>4, <3>3 DEF BindCreate
      <4>2. \A p \in Protocols : worker'[e][p] # "none" => p \in Served(e)
        BY <1>6, <2>4, <3>3 DEF BindCreate
      <4>3. \A i \in 1..Len(serves[e]) : i < next[e] \/ i = next[e]
        BY <2>2, <2>4, <3>3
      <4>4. \A p \in Served(e) : p \in listening'[e]
        BY <1>0, <2>1, <2>2, <2>4, <3>1, <4>3 DEF Served, Current
      <4> QED
        BY <1>0, <3>2, <4>1, <4>2, <4>4
    <3>4. CASE ~IsLast(d)
      <4>1. phase'[e] = "look" /\ next'[e] = next[e] + 1
        BY <1>6, <2>4, <3>4 DEF BindCreate
      <4>2. \A p \in listening'[e] : \E i \in 1..Len(serves[e]) :
               i < next[e] + 1 /\ p = serves[e][i]
        BY <1>0, <2>1, <2>2, <2>4, <3>1 DEF Current
      <4>3. \A i \in 1..Len(serves[e]) : i < next[e] + 1 => serves[e][i] \in listening'[e]
        <5>1. \A i \in 1..Len(serves[e]) : i < next[e] + 1 => i < next[e] \/ i = next[e]
          BY <2>2, <2>4
        <5> QED
          BY <1>0, <2>1, <2>4, <3>1, <5>1 DEF Current
      <4> QED
        BY <1>0, <3>2, <4>1, <4>2, <4>3
    <3> QED
      BY <3>3, <3>4
  <2> QED
    BY <2>3, <2>4
<1>7. ASSUME NEW d \in Procs,
             StartRefused(d) \/ OpenFails(d) \/ BindRaced(d) \/ BindFails(d)
               \/ Crash(d) \/ Finish(d)
      PROVE Owned(e)'
  <2>1. PICK st : Exits(d, st)
    BY <1>7 DEF StartRefused, OpenFails, BindRaced, BindFails, Crash, Finish
  <2>2. UNCHANGED <<next, worker, file>> /\ Current(e)' = Current(e)
    BY <1>0, <1>7 DEF StartRefused, OpenFails, BindRaced, BindFails, Crash, Finish, Current
  <2>3. /\ phase'[e] = IF e = d THEN "exited" ELSE phase[e]
        /\ listening'[e] = IF e = d THEN {} ELSE listening[e]
    BY <2>1 DEF Exits
  <2> QED
    BY <1>0, <2>2, <2>3
<1>8. ASSUME NEW d \in Procs, NEW p \in Protocols,
             Worker(d, p) \/ WorkerFails(d, p) \/ Attach(d, p) \/ Detach(d, p)
      PROVE Owned(e)'
  <2>0. UNCHANGED <<phase, next, file>> /\ Current(e)' = Current(e)
    BY <1>0, <1>8, LoopSteps DEF Worker, Strolls, WorkerStops, WorkerFails, WorkerClears,
       Leaves, Current
  <2>1. CASE Strolls(d, p)
    BY <1>0, <2>0, <2>1 DEF Strolls, Moves
  <2>2. CASE WorkerStops(d, p) \/ WorkerFails(d, p)
    <3>1. \E res : Leaves(d, p, "check", res) \/ Leaves(d, p, "accept", res)
      BY <2>2 DEF WorkerStops, WorkerFails
    <3>2. /\ phase[d] = "serve"
          /\ worker' = [worker EXCEPT ![d][p] = "left"]
          /\ listening' = [listening EXCEPT ![d] = @ \ {p}]
      BY <3>1 DEF Leaves, Moves
    <3> QED
      BY <1>0, <2>0, <3>2
  <2>3. CASE WorkerClears(d, p)
    BY <1>0, <2>0, <2>3 DEF WorkerClears, Moves
  <2> QED
    BY <1>8, <2>1, <2>2, <2>3, LoopSteps DEF Worker
<1> QED
  BY <1>1, <1>2, <1>3, <1>4, <1>5, <1>6, <1>7, <1>8 DEF Next, Startup

LEMMA NextOwned ==
  ASSUME PathsDiffer PROVE OwnedInv /\ [Next]_vars => OwnedInv'
<1> SUFFICES ASSUME OwnedInv, [Next]_vars PROVE OwnedInv'
  OBVIOUS
<1>1. StagedInv'
  BY NextStaged DEF OwnedInv
<1>2. ASSUME Apart' PROVE Named' /\ \A d \in Procs : Owned(d)'
  BY <1>2, NextNamed, NextOwns
<1> QED
  BY <1>1, <1>2 DEF OwnedInv

LEMMA OwnedForever ==
  ASSUME PathsDiffer PROVE Spec => []OwnedInv
<1>1. Spec => Init /\ [][Next]_vars
  BY DEF Spec, ThreadSpec
<1>2. OwnedInv /\ [Next]_vars => OwnedInv'
  BY NextOwned
<1> QED
  BY <1>1, <1>2, InitOwned, PTL

(* Whatever the units that share a directory are, as long as no two serve  *)
(* the same protocol, each is reached at every socket it serves, through   *)
(* failed starts, kills and restarts of any of them.                       *)
THEOREM UnitsAreReached ==
  ASSUME PathsDiffer PROVE Spec => []ReachedAtItsSockets
<1>1. OwnedInv => ReachedAtItsSockets
  BY DEF OwnedInv, Owned, ReachedAtItsSockets
<1> QED
  BY <1>1, OwnedForever, PTL

(* Nor does one of them ever find the path of a socket taken: what a kill  *)
(* left behind is cleared by the next start.                               *)
THEOREM RestartsFindTheirPaths ==
  ASSUME PathsDiffer PROVE Spec => []PathIsFree
<1>1. OwnedInv => PathIsFree
  BY DEF OwnedInv, Owned, PathIsFree
<1> QED
  BY <1>1, OwnedForever, PTL

(* And none of them removes or replaces the file of a live listener, of    *)
(* its own or of another unit.                                             *)
THEOREM StaleOnly ==
  ASSUME PathsDiffer PROVE Spec => OnlyStaleRemoved
<1>1. Spec => Init /\ [][Next]_vars
  BY DEF Spec, ThreadSpec
<1>2. OwnedInv /\ [Next]_vars =>
        [Apart => \A q \in Paths : file'[q] # file[q] => ~Live(file[q])]_vars
  <2> SUFFICES ASSUME OwnedInv, [Next]_vars, Apart,
                      NEW q \in Paths, file'[q] # file[q], Live(file[q])
               PROVE  FALSE
    OBVIOUS
  <2>1. PICK d \in Procs : BindRemove(d) \/ BindCreate(d)
    BY DEF Next, Start, StartRefused, Open, OpenFails, BindLook, BindRaced, BindFails, Startup,
       Worker, WorkerCheck, WorkerStops, WorkerIdles, WorkerFails, WorkerClears, Leaves,
       Attach, Detach, Crash, Finish, vars
  <2>2. phase[d] \in Binding /\ q = SockPath(Current(d))
    BY <2>1 DEF BindRemove, BindCreate, Binding, OwnedInv, StagedInv, TypeOK
  <2>3. file[q].proc \in Procs /\ file[q].protocol \in listening[file[q].proc]
    BY DEF Live
  <2>4. q = SockPath(file[q].protocol)
    BY <2>3 DEF OwnedInv, Named
  <2> QED
    BY <2>2, <2>3, <2>4, NobodyThere
<1> QED
  BY <1>1, <1>2, OwnedForever, PTL DEF OnlyStaleRemoved
=============================================================================
