------------------------------- MODULE Daemon -------------------------------
(***************************************************************************)
(* `sirup start`: Command::execute's Start arm, session::open, serve and   *)
(* bind, up to the exit of the process.  A start opens the upstream of     *)
(* each protocol in turn, drops the secrets, binds one socket per          *)
(* protocol, then runs one worker thread per protocol (module Session)     *)
(* under one shared flag.                                                  *)
(*                                                                         *)
(* Several service units may run it for one account, each with a command   *)
(* line of its own, and each may be killed and started again.  They share  *)
(* the directory of the sockets.                                           *)
(***************************************************************************)
EXTENDS Accounts

CONSTANTS
    Procs,         \* the units that run `sirup start`
    Blocks,        \* the protocols the account declares
    CommandLines,  \* the protocols a unit may ask for
    Paths,         \* where sockets may be
    SockFile,      \* the path a block names itself, if any
    DerivedPath,   \* the one derived from account and protocol otherwise
    Secrets, SecretOf, \* the credential each block names
    NoProc,        \* no process
    MayFail,       \* opening, binding and serving may fail
    MayCrash       \* a process may be killed

Selections == {SelectProtocols(Blocks, asked) : asked \in CommandLines}

ASSUME DaemonAssumption ==
    /\ CommandLines \subseteq Seq(Protocols)
    /\ DerivedPath \in [Protocols -> Paths]
    /\ \A p \in Protocols : SockFile[p] = None \/ \E q \in Paths : SockFile[p] = Some(q)
    /\ SecretOf \in [Protocols -> Secrets]
    /\ NoProc \notin Procs
    /\ MayFail \in BOOLEAN /\ MayCrash \in BOOLEAN

VARIABLES
    serves,     \* the protocols each process serves, in order
    phase,      \* where it stands
    next,       \* the position in `serves` it opens or binds next
    cached,     \* the secrets its SecretResolver holds
    sessions,   \* the upstreams it has open
    listening,  \* the protocols it has a listener for
    running,    \* the flag its workers share
    worker,     \* where each worker stands
    outcome,    \* what each worker's serve_one returned
    status,     \* what the process exited with
    file        \* per path: the listener the socket file names, if any

own  == <<phase, next, cached, sessions, listening, running, worker, outcome,
          status>>
vars == <<serves, own, file>>

\* The protocol a process opens or binds next, and all it serves.
Current(d) == serves[d][next[d]]
Served(d)  == {serves[d][i] : i \in 1..Len(serves[d])}
IsLast(d)  == next[d] >= Len(serves[d])
Fresh      == [p \in Protocols |-> "none"]

----------------------------------------------------------------------------
(* Slips of the code the runs must notice.  Each stands for one definition *)
(* below and no specification uses it.                                     *)

\* The sock-file of whichever block of the account names one.
SockPathPerAccount(p) ==
    OrElse(UNION {SockFile[q] : q \in Blocks}, DerivedPath[p])

\* A session bound as soon as it is open.
OpenAndBind(d) ==
    /\ phase[d] = "open"
    /\ sessions' = [sessions EXCEPT ![d] = @ \union {Current(d)}]
    /\ listening' = [listening EXCEPT ![d] = @ \union {Current(d)}]
    /\ next' = [next EXCEPT ![d] = IF IsLast(d) THEN 1 ELSE @ + 1]
    /\ phase' = [phase EXCEPT ![d] = IF IsLast(d) THEN "look" ELSE "open"]
    /\ UNCHANGED <<serves, cached, running, worker, outcome, status, file>>

\* Off by one in the last protocol of the loop.
OpenPastTheLast(d) ==
    /\ phase[d] = "open"
    /\ sessions' = [sessions EXCEPT ![d] = @ \union {Current(d)}]
    /\ next' = [next EXCEPT ![d] = @ + 1]
    /\ phase' = [phase EXCEPT ![d] = IF next[d] <= Len(serves[d]) THEN "open" ELSE "look"]
    /\ UNCHANGED <<serves, cached, listening, running, worker, outcome, status, file>>

\* The existing file is not removed.
BindLookAway(d) ==
    /\ phase[d] = "look"
    /\ phase' = [phase EXCEPT ![d] = "create"]
    /\ UNCHANGED <<serves, next, cached, sessions, listening, running, worker, outcome,
                   status, file>>

\* An idle poll breaks out of the loop to its Ok(()).
WorkerIdlesOk(d, p) ==
    /\ phase[d] = "serve" /\ worker[d][p] = "accept"
    /\ worker' = [worker EXCEPT ![d][p] = "left"]
    /\ outcome' = [outcome EXCEPT ![d][p] = "ok"]
    /\ UNCHANGED <<serves, phase, next, cached, sessions, listening, running, status, file>>

\* The worker's outcome is returned before the flag is cleared.
WorkerClearsNothing(d, p) ==
    /\ phase[d] = "serve" /\ worker[d][p] = "left"
    /\ worker' = [worker EXCEPT ![d][p] = "done"]
    /\ UNCHANGED <<serves, phase, next, cached, sessions, listening, running, outcome,
                   status, file>>

\* The flag starts down.
StartDown(d) ==
    /\ phase[d] \in {"off", "exited"}
    /\ phase' = [phase EXCEPT ![d] = "open"] /\ next' = [next EXCEPT ![d] = 1]
    /\ running' = [running EXCEPT ![d] = FALSE]
    /\ worker' = [worker EXCEPT ![d] = [p \in Protocols |-> "none"]]
    /\ outcome' = [outcome EXCEPT ![d] = [p \in Protocols |-> "none"]]
    /\ status' = [status EXCEPT ![d] = "none"]
    /\ UNCHANGED <<serves, cached, sessions, listening, file>>

----------------------------------------------------------------------------
\* The block's own sock-file, or the path derived from account and protocol.
SockPath(p)  == OrElse(SockFile[p], DerivedPath[p])
Socket(d, p) == [proc |-> d, protocol |-> p]
Absent       == Socket(NoProc, "none")
Live(s)      == s.proc \in Procs /\ s.protocol \in listening[s.proc]

Init ==
    /\ serves \in [Procs -> Selections]
    /\ phase = [d \in Procs |-> "off"] /\ next = [d \in Procs |-> 1]
    /\ cached = [d \in Procs |-> {}] /\ sessions = [d \in Procs |-> {}]
    /\ listening = [d \in Procs |-> {}] /\ running = [d \in Procs |-> TRUE]
    /\ worker = [d \in Procs |-> Fresh] /\ outcome = [d \in Procs |-> Fresh]
    /\ status = [d \in Procs |-> "none"]
    /\ file = [q \in Paths |-> Absent]

\* The process is over: what it held is released, its socket files stay.
Exits(d, st) ==
    /\ phase' = [phase EXCEPT ![d] = "exited"]
    /\ status' = [status EXCEPT ![d] = st]
    /\ cached' = [cached EXCEPT ![d] = {}]
    /\ sessions' = [sessions EXCEPT ![d] = {}]
    /\ listening' = [listening EXCEPT ![d] = {}]

(* A start, the first one or a supervisor's restart.                       *)
Start(d) ==
    /\ phase[d] \in {"off", "exited"} /\ serves[d] # <<>>
    /\ phase' = [phase EXCEPT ![d] = "open"] /\ next' = [next EXCEPT ![d] = 1]
    /\ running' = [running EXCEPT ![d] = TRUE]
    /\ worker' = [worker EXCEPT ![d] = Fresh]
    /\ outcome' = [outcome EXCEPT ![d] = Fresh]
    /\ status' = [status EXCEPT ![d] = "none"]
    /\ UNCHANGED <<serves, cached, sessions, listening, file>>

\* Nothing to serve, or a protocol that is not declared.
StartRefused(d) ==
    /\ phase[d] \in {"off", "exited"} /\ serves[d] = <<>>
    /\ Exits(d, "err")
    /\ UNCHANGED <<serves, next, running, worker, outcome, file>>

(* One pass of the loop: resolve the connection, through the one resolver  *)
(* of the account, then open and authenticate the session.  The last one   *)
(* drops the resolver.                                                     *)
Open(d) ==
    /\ phase[d] = "open"
    /\ sessions' = [sessions EXCEPT ![d] = @ \union {Current(d)}]
    /\ IF IsLast(d)
         THEN /\ next' = [next EXCEPT ![d] = 1]
              /\ cached' = [cached EXCEPT ![d] = {}]
              /\ phase' = [phase EXCEPT ![d] = "look"]
         ELSE /\ next' = [next EXCEPT ![d] = @ + 1]
              /\ cached' = [cached EXCEPT ![d] = @ \union {SecretOf[Current(d)]}]
              /\ UNCHANGED phase
    /\ UNCHANGED <<serves, listening, running, worker, outcome, status, file>>

\* A secret that cannot be resolved, a server that refuses: `?`.
OpenFails(d) ==
    /\ MayFail /\ phase[d] = "open"
    /\ Exits(d, "err")
    /\ UNCHANGED <<serves, next, running, worker, outcome, file>>

----------------------------------------------------------------------------
(* bind(): exists, remove_file, then UnixListener::bind, each a system     *)
(* call of its own.                                                        *)
BindLook(d) ==
    /\ phase[d] = "look"
    /\ phase' = [phase EXCEPT ![d] =
                    IF file[SockPath(Current(d))] = Absent THEN "create" ELSE "remove"]
    /\ UNCHANGED <<serves, next, cached, sessions, listening, running, worker, outcome,
                   status, file>>

BindRemove(d) ==
    /\ phase[d] = "remove"
    /\ file[SockPath(Current(d))] # Absent
    /\ file' = [file EXCEPT ![SockPath(Current(d))] = Absent]
    /\ phase' = [phase EXCEPT ![d] = "create"]
    /\ UNCHANGED <<serves, next, cached, sessions, listening, running, worker, outcome,
                   status>>

\* The last listener bound, serve() spawns every worker.
BindCreate(d) ==
    /\ phase[d] = "create"
    /\ file[SockPath(Current(d))] = Absent
    /\ LET p == Current(d) IN
          /\ file' = [file EXCEPT ![SockPath(p)] = Socket(d, p)]
          /\ listening' = [listening EXCEPT ![d] = @ \union {p}]
    /\ IF IsLast(d)
         THEN /\ next' = [next EXCEPT ![d] = 1]
              /\ phase' = [phase EXCEPT ![d] = "serve"]
              /\ worker' = [worker EXCEPT ![d] =
                   [p \in Protocols |-> IF p \in Served(d) THEN "check" ELSE "none"]]
         ELSE /\ next' = [next EXCEPT ![d] = @ + 1]
              /\ phase' = [phase EXCEPT ![d] = "look"]
              /\ UNCHANGED worker
    /\ UNCHANGED <<serves, cached, sessions, running, outcome, status>>

\* Removed, or created, by somebody else since bind() looked.
BindRaced(d) ==
    /\ \/ phase[d] = "remove" /\ file[SockPath(Current(d))] = Absent
       \/ phase[d] = "create" /\ file[SockPath(Current(d))] # Absent
    /\ Exits(d, "err")
    /\ UNCHANGED <<serves, next, running, worker, outcome, file>>

\* The directory cannot be created, or the file removed.
BindFails(d) ==
    /\ MayFail /\ phase[d] \in {"remove", "create"}
    /\ Exits(d, "err")
    /\ UNCHANGED <<serves, next, running, worker, outcome, file>>

----------------------------------------------------------------------------
(* The worker of p runs serve_one: it checks the flag, polls its listener  *)
(* and serves at most one client before it checks again.                   *)
Moves(d, p, from, to) ==
    /\ phase[d] = "serve" /\ worker[d][p] = from
    /\ worker' = [worker EXCEPT ![d][p] = to]

\* serve_one returned: its upstream and its listener are dropped.
Leaves(d, p, from, res) ==
    /\ Moves(d, p, from, "left")
    /\ outcome' = [outcome EXCEPT ![d][p] = res]
    /\ sessions' = [sessions EXCEPT ![d] = @ \ {p}]
    /\ listening' = [listening EXCEPT ![d] = @ \ {p}]
    /\ UNCHANGED <<serves, phase, next, cached, running, status, file>>

WorkerCheck(d, p) ==
    /\ running[d] /\ Moves(d, p, "check", "accept")
    /\ UNCHANGED <<serves, phase, next, cached, sessions, listening, running, outcome,
                   status, file>>

WorkerStops(d, p) == ~running[d] /\ Leaves(d, p, "check", "ok")

\* Nobody to accept: the keepalive and the sleep, then the flag again.
WorkerIdles(d, p) ==
    /\ Moves(d, p, "accept", "check")
    /\ UNCHANGED <<serves, phase, next, cached, sessions, listening, running, outcome,
                   status, file>>

\* A failed accept, keepalive or greeting, never a failed proxy.
WorkerFails(d, p) == MayFail /\ Leaves(d, p, "accept", "err")

WorkerClears(d, p) ==
    /\ Moves(d, p, "left", "done")
    /\ running' = [running EXCEPT ![d] = FALSE]
    /\ UNCHANGED <<serves, phase, next, cached, sessions, listening, outcome,
                   status, file>>

\* Every worker joined, in order: the first failure, or Ok.
Finish(d) ==
    /\ phase[d] = "serve" /\ \A p \in Served(d) : worker[d][p] = "done"
    /\ Exits(d, IF \E p \in Served(d) : outcome[d][p] = "err" THEN "err" ELSE "ok")
    /\ UNCHANGED <<serves, next, running, worker, outcome, file>>

----------------------------------------------------------------------------
(* The environment: clients and signals.  A client may have connected      *)
(* before the socket file was replaced, so it need not be there any more.  *)
Attach(d, p) ==
    /\ Moves(d, p, "accept", "client")
    /\ UNCHANGED <<serves, phase, next, cached, sessions, listening, running, outcome,
                   status, file>>

Detach(d, p) ==
    /\ Moves(d, p, "client", "check")
    /\ UNCHANGED <<serves, phase, next, cached, sessions, listening, running, outcome,
                   status, file>>

Crash(d) ==
    /\ MayCrash /\ phase[d] \notin {"off", "exited"}
    /\ Exits(d, "killed")
    /\ UNCHANGED <<serves, next, running, worker, outcome, file>>

Startup(d)    == Open(d) \/ OpenFails(d) \/ BindLook(d) \/ BindRemove(d)
                 \/ BindCreate(d) \/ BindRaced(d) \/ BindFails(d)
Worker(d, p)  == WorkerCheck(d, p) \/ WorkerStops(d, p)
                 \/ WorkerIdles(d, p) \/ WorkerClears(d, p)

Next ==
    \E d \in Procs :
        \/ Start(d) \/ StartRefused(d) \/ Startup(d) \/ Finish(d) \/ Crash(d)
        \/ \E p \in Protocols :
              Worker(d, p) \/ WorkerFails(d, p) \/ Attach(d, p) \/ Detach(d, p)

(* The operating system runs the process and its workers.  Nobody has to   *)
(* start, fail or kill it.                                                 *)
ThreadsRun ==
    \A d \in Procs :
        /\ WF_vars(Startup(d)) /\ WF_vars(Finish(d))
        /\ \A p \in Protocols : WF_vars(Worker(d, p))
\* A client that attaches leaves some day.
ClientsLeave == \A d \in Procs, p \in Protocols : WF_vars(Detach(d, p))

ThreadSpec == Init /\ [][Next]_vars /\ ThreadsRun
Spec       == ThreadSpec /\ ClientsLeave

----------------------------------------------------------------------------
TypeOK ==
    /\ phase \in [Procs -> {"off", "open", "look", "remove", "create", "serve", "exited"}]
    /\ serves \in [Procs -> Selections]
    /\ next \in [Procs -> Nat \ {0}]
    /\ \A d \in Procs : phase[d] \in {"open", "look", "remove", "create", "serve"} =>
          next[d] <= Len(serves[d])
    /\ cached \in [Procs -> SUBSET Secrets]
    /\ sessions \in [Procs -> SUBSET Protocols]
    /\ listening \in [Procs -> SUBSET Protocols]
    /\ running \in [Procs -> BOOLEAN]
    /\ worker \in [Procs -> [Protocols ->
                      {"none", "check", "accept", "client", "left", "done"}]]
    /\ outcome \in [Procs -> [Protocols -> {"none", "ok", "err"}]]
    /\ status \in [Procs -> {"none", "ok", "err", "killed"}]
    /\ file \in [Paths -> [proc : Procs \union {NoProc}, protocol : Protocols \union {"none"}]]

(* While a process has any socket bound, every session of the account is   *)
(* open but those whose worker is over, and no plaintext is left in the    *)
(* resolver: "either every session up or none", whatever order sessions    *)
(* open, sockets bind and workers end in.                                  *)
OpenBeforeBind ==
    \A d \in Procs : listening[d] # {} =>
        /\ cached[d] = {}
        /\ \A p \in Served(d) : worker[d][p] \notin {"left", "done"} => p \in sessions[d]

(* A worker that returns Ok does so because another one failed: so the     *)
(* flag is down, or a worker left with Ok, only if some worker failed.     *)
StopsForAFailure ==
    \A d \in Procs :
        ~running[d] \/ (\E p \in Protocols : outcome[d][p] = "ok")
            => \E p \in Protocols : outcome[d][p] = "err"

(* A daemon that served never exits with success, so its supervisor sees   *)
(* every end of it as the failure it is.                                   *)
NeverExitsClean == \A d \in Procs : status[d] # "ok"

(* No two units that were ever started serve the same protocol, as with    *)
(* one unit per protocol, or one for the whole account.                    *)
Apart ==
    \A d, e \in Procs :
        d # e /\ phase[d] # "off" /\ phase[e] # "off" => Served(d) \cap Served(e) = {}

(* Units apart are reached at every socket they serve: the file is there   *)
(* and names their listener until the worker is over, through failed       *)
(* starts, crashes and restarts of any of them.                            *)
ReachedAtItsSockets ==
    Apart => \A d \in Procs, p \in Protocols :
        worker[d][p] \in {"check", "accept", "client"} /\ phase[d] = "serve" =>
            p \in listening[d] /\ file[SockPath(p)] = Socket(d, p)

(* "Removes a stale socket": the bind of units apart takes the file of no  *)
(* live listener, one the same process has bound included.                 *)
OnlyStaleRemoved ==
    [][Apart => \A q \in Paths : file'[q] # file[q] => ~Live(file[q])]_vars

(* Units apart never find a path taken when they create a socket, wherever *)
(* an earlier start was killed: a file that a restart cannot clear would   *)
(* fail every start that follows.                                          *)
PathIsFree ==
    Apart => \A d \in Procs :
        phase[d] = "create" => file[SockPath(Current(d))] = Absent

----------------------------------------------------------------------------
Failed(d) == \E p \in Protocols : worker[d][p] = "left" /\ outcome[d][p] = "err"

(* "The first failure ends the whole run": one failed worker takes the     *)
(* process down with it, its siblings' clients having left.                *)
FailureEndsRun == \A d \in Procs : Failed(d) ~> (phase[d] # "serve")
=============================================================================
