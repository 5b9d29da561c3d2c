------------------------------ MODULE Session ------------------------------
(***************************************************************************)
(* session::serve_one: the accept loop of one protocol.  It polls its      *)
(* listener, keeps the idle upstream warm with a NOOP, greets one client   *)
(* at a time and hands it to the proxy (module Proxy, here only what it    *)
(* leaves behind).                                                         *)
(*                                                                         *)
(* A reply on the upstream stream is told apart by what it answers: a      *)
(* command or a NOOP, and whose.  Time is counted in ticks of the poll.    *)
(***************************************************************************)
EXTENDS Integers, Sequences, SequencesExt

CONSTANTS
    Clients,       \* the local programs that may attach
    Daemon,        \* who sends the keepalive NOOP
    Kinds,         \* the protocols the upstream may speak
    Interval,      \* KEEPALIVE_INTERVAL, in ticks
    MaxQuiet,      \* bound: the clock of the silent server stops there
    MaxPending,    \* bound: answers under way at once
    Smooth         \* which days a run looks at, see `smooth`

ASSUME SessionAssumption ==
    /\ Daemon \notin Clients
    /\ Kinds \subseteq {"imap", "smtp", "sieve"}
    /\ Interval \in Nat \ {0} /\ MaxQuiet \in Nat /\ MaxPending \in Nat
    /\ Smooth \subseteq BOOLEAN

VARIABLES
    pc,        \* where serve_one stands
    outcome,   \* what it returned
    running,   \* the flag every worker of the daemon shares
    current,   \* the client accepted last, Daemon when there is none
    mode,      \* of the upstream stream
    idle,      \* ticks since last_keepalive
    queue,     \* connections the listener has not accepted yet
    client,    \* where each client stands
    protocol,  \* what the upstream speaks: imap, smtp or sieve
    smooth,    \* clients collect their answers, and speak, right before they
               \* leave, and no descriptor is ever refused
    server,    \* the upstream server
    partial,   \* who left the stream in the middle of a command, else Daemon
    asked,     \* what the server was asked and has not answered
    answers,   \* answers nobody has read yet
    quiet      \* ticks since the server was last sent anything, on smooth days

loop   == <<pc, outcome, current, mode, idle>>
stream == <<protocol, smooth, server, partial, asked, answers, quiet>>
vars   == <<loop, running, queue, client, stream>>

\* What goes up the stream: a command, or a NOOP whose tag the answer echoes.
Request(by, noop) == [by |-> by, noop |-> noop]
Requests == [by : Clients \union {Daemon}, noop : BOOLEAN]
Mine     == Request(Daemon, TRUE)

(* Bytes that follow half a command become its second half, the NOOP's     *)
(* included, or are swallowed by a literal that has room left.             *)
Ask(r) ==
    IF partial = Daemon THEN asked' = Append(asked, r) /\ UNCHANGED partial
    ELSE \/ asked' = Append(asked, Request(partial, FALSE)) /\ partial' = Daemon
         \/ UNCHANGED <<asked, partial>>

Attached == pc \in {"greet", "proxy"}
Pending  == asked \o answers
Returns(res) == pc' = "ended" /\ outcome' = res

Init ==
    /\ pc = "check" /\ outcome = "none" /\ running = TRUE
    /\ current = Daemon /\ mode = "blocking" /\ idle = 0
    /\ queue = <<>> /\ client = [c \in Clients |-> "away"]
    /\ protocol \in Kinds /\ smooth \in Smooth
    /\ server = "up" /\ partial = Daemon /\ asked = <<>> /\ answers = <<>> /\ quiet = 0

----------------------------------------------------------------------------
(* Slips of the code the runs must notice.  Each stands for one action     *)
(* below and no specification uses it.                                     *)

\* loop { } in place of while running.load().
CheckForever ==
    /\ pc = "check"
    /\ pc' = "accept"
    /\ UNCHANGED <<outcome, current, mode, idle, running, queue, client, stream>>

\* The sleep comes before the elapsed time is looked at.
AcceptNothingLate ==
    /\ pc = "accept" /\ queue = <<>>
    /\ pc' = "sleep"
    /\ UNCHANGED <<outcome, current, mode, idle, running, queue, client, stream>>

\* The tag of the answer is not looked at.
AcceptedAny(a) == a \in Requests

\* A failed NOOP is logged, and the loop goes on.
NoopFailsContinues ==
    /\ pc = "noop" /\ answers = <<>>
    /\ pc' = "sleep" /\ idle' = 0
    /\ UNCHANGED <<outcome, current, mode, running, queue, client, stream>>

\* A failed NOOP breaks out of the loop to its Ok(()).
NoopFailsOk ==
    /\ pc = "noop" /\ answers = <<>>
    /\ Returns("ok")
    /\ UNCHANGED <<current, mode, idle, running, queue, client, stream>>

\* The accepted client is put back: the listener is a stack.
AcceptLast ==
    /\ pc = "accept" /\ queue # <<>>
    /\ pc' = "greet" /\ current' = queue[Len(queue)]
    /\ queue' = SubSeq(queue, 1, Len(queue) - 1)
    /\ UNCHANGED <<outcome, mode, idle, running, client, stream>>

\* The keepalive NOOP goes out before the listener is polled and returns
\* without reading its answer.
NoopSendOnly ==
    /\ pc = "accept" /\ queue = <<>> /\ idle >= Interval /\ server = "up"
    /\ pc' = "sleep" /\ idle' = 0
    /\ asked' = Append(asked, Mine)
    /\ quiet' = 0
    /\ UNCHANGED <<outcome, current, mode, running, queue, client,
                   protocol, smooth, server, partial, answers>>

----------------------------------------------------------------------------
(* while running.load(): a cleared flag is the only way to return Ok.      *)
Check ==
    /\ pc = "check"
    /\ IF running THEN pc' = "accept" /\ UNCHANGED outcome
                  ELSE Returns("ok")
    /\ UNCHANGED <<current, mode, idle, running, queue, client, stream>>

Accept ==
    /\ pc = "accept" /\ queue # <<>>
    /\ pc' = "greet" /\ current' = Head(queue) /\ queue' = Tail(queue)
    /\ UNCHANGED <<outcome, mode, idle, running, client, stream>>

\* accept() fails with anything but WouldBlock.
AcceptFails ==
    /\ pc = "accept"
    /\ Returns("err")
    /\ UNCHANGED <<current, mode, idle, running, queue, client, stream>>

\* WouldBlock, the NOOP not due: sleep for ACCEPT_POLL.
AcceptNothing ==
    /\ pc = "accept" /\ queue = <<>> /\ idle < Interval
    /\ pc' = "sleep"
    /\ UNCHANGED <<outcome, current, mode, idle, running, queue, client, stream>>

Sleep ==
    /\ pc = "sleep"
    /\ pc' = "check"
    /\ idle' = idle + 1 /\ quiet' = IF smooth /\ quiet < MaxQuiet THEN quiet + 1 ELSE quiet
    /\ UNCHANGED <<outcome, current, mode, running, queue, client,
                   protocol, smooth, server, partial, asked, answers>>

(* WouldBlock, the NOOP due: arm the read deadline and send it.  A write   *)
(* to a server that is gone may fail, or be accepted for nobody.           *)
NoopSend ==
    /\ pc = "accept" /\ queue = <<>> /\ idle >= Interval
    /\ pc' = "noop"
    /\ IF server = "up" THEN Ask(Mine) ELSE UNCHANGED <<asked, partial>>
    /\ quiet' = 0
    /\ UNCHANGED <<outcome, current, mode, idle, running, queue, client,
                   protocol, smooth, server, answers>>

NoopSendFails ==
    /\ pc = "accept" /\ queue = <<>> /\ idle >= Interval /\ server = "closed"
    /\ Returns("err")
    /\ UNCHANGED <<current, mode, idle, running, queue, client, stream>>

(* Which answer the protocol's client takes for the NOOP's.  IMAP reads on *)
(* to its own tag; SMTP has none, and takes the next reply; ManageSieve    *)
(* takes the next one too, and Session::noop then accepts an echo of its   *)
(* tag or no echo at all.                                                  *)
Skipped(a)  == protocol = "imap" /\ a # Mine
Accepted(a) == \/ a = Mine
               \/ protocol = "smtp"
               \/ protocol = "sieve" /\ ~a.noop

NoopSkips ==
    /\ pc = "noop" /\ answers # <<>> /\ Skipped(Head(answers))
    /\ answers' = Tail(answers)
    /\ UNCHANGED <<loop, running, queue, client,
                   protocol, smooth, server, partial, asked, quiet>>

NoopAnswered ==
    /\ pc = "noop" /\ answers # <<>> /\ Accepted(Head(answers))
    /\ answers' = Tail(answers)
    /\ pc' = "sleep" /\ idle' = 0
    /\ UNCHANGED <<outcome, current, mode, running, queue, client,
                   protocol, smooth, server, partial, asked, quiet>>

\* The answer echoes a tag that is not KEEPALIVE_TAG.
NoopMismatch ==
    /\ pc = "noop" /\ answers # <<>>
    /\ ~Skipped(Head(answers)) /\ ~Accepted(Head(answers))
    /\ answers' = Tail(answers)
    /\ Returns("err")
    /\ UNCHANGED <<current, mode, idle, running, queue, client,
                   protocol, smooth, server, partial, asked, quiet>>

(* Nothing to read: the stream ended, or the read deadline passed before   *)
(* the answer came, or the stream was left non-blocking and reports        *)
(* WouldBlock at once.                                                     *)
NoopFails ==
    /\ pc = "noop" /\ answers = <<>>
    /\ Returns("err")
    /\ UNCHANGED <<current, mode, idle, running, queue, client, stream>>

----------------------------------------------------------------------------
\* The greeting is written, and the client is handed to the proxy.
Greet ==
    /\ pc = "greet" /\ client[current] = "waiting"
    /\ pc' = "proxy" /\ mode' = "nonblocking"
    /\ client' = [client EXCEPT ![current] = "attached"]
    /\ UNCHANGED <<outcome, current, idle, running, queue, stream>>

\* write_all(greeting)? to a client that has left already.
GreetFails ==
    /\ pc = "greet" /\ client[current] = "gone"
    /\ Returns("err")
    /\ client' = [client EXCEPT ![current] = "away"]
    /\ UNCHANGED <<current, mode, idle, running, queue, stream>>

\* proxy() is over, whatever it returned: the timer restarts.
BackToLoop(m) ==
    /\ pc' = "check" /\ idle' = 0 /\ mode' = m
    /\ current' = Daemon
    /\ client' = [client EXCEPT ![current] = "away"]
    /\ UNCHANGED <<outcome, running, queue>>

\* proxy() fails between set_nonblocking(true) and its threads.
ProxySetupFails ==
    /\ ~smooth
    /\ pc = "greet" /\ client[current] = "waiting"
    /\ BackToLoop("nonblocking")
    /\ UNCHANGED stream

\* The client's command or NOOP goes up the stream; it takes a tag of its
\* own in the answer to tell the two apart.
ClientAsks ==
    /\ pc = "proxy" /\ server = "up" /\ Len(Pending) < MaxPending
    /\ \E noop \in (IF protocol = "sieve" THEN BOOLEAN ELSE {FALSE}) :
          Ask(Request(current, noop))
    /\ quiet' = 0
    /\ UNCHANGED <<loop, running, queue, client, protocol, smooth, server, answers>>

\* Only a part of a command goes up, the rest later or never.
ClientAsksInPart ==
    /\ pc = "proxy" /\ server = "up" /\ partial = Daemon
    /\ partial' = current /\ quiet' = 0
    /\ UNCHANGED <<loop, running, queue, client, protocol, smooth, server, asked, answers>>

\* The pump hands the client whatever comes down the stream.
ClientReads ==
    /\ pc = "proxy" /\ answers # <<>>
    /\ answers' = Tail(answers)
    /\ UNCHANGED <<loop, running, queue, client,
                   protocol, smooth, server, partial, asked, quiet>>

\* The client detaches, and the pump restores the blocking mode.
ClientLeaves ==
    /\ pc = "proxy"
    /\ smooth => Pending = <<>> /\ partial = Daemon /\ quiet = 0
    /\ BackToLoop("blocking")
    /\ UNCHANGED stream

\* The pump reads the end of the upstream: serve_one only logs it.
UpstreamEnds ==
    /\ pc = "proxy" /\ server = "closed" /\ answers = <<>>
    /\ BackToLoop("blocking")
    /\ UNCHANGED stream

\* The client stays attached and silent for a while: only the clock tells.
AttachedTick ==
    /\ pc = "proxy" /\ smooth /\ quiet < MaxQuiet
    /\ quiet' = quiet + 1
    /\ UNCHANGED <<loop, running, queue, client,
                   protocol, smooth, server, partial, asked, answers>>

ServeOne ==
    \/ Check \/ Accept \/ AcceptFails \/ AcceptNothing \/ Sleep
    \/ NoopSend \/ NoopSendFails \/ NoopSkips
    \/ NoopAnswered \/ NoopMismatch \/ NoopFails
    \/ Greet \/ GreetFails \/ ProxySetupFails \/ UpstreamEnds

----------------------------------------------------------------------------
(* The environment: clients that connect and give up, the server, and a    *)
(* sibling worker whose failure clears the shared flag.                    *)
Connect(c) ==
    /\ client[c] = "away"
    /\ client' = [client EXCEPT ![c] = "waiting"]
    /\ queue' = Append(queue, c)
    /\ UNCHANGED <<loop, running, stream>>

GiveUp(c) ==
    /\ client[c] = "waiting"
    /\ client' = [client EXCEPT ![c] = "gone"]
    /\ UNCHANGED <<loop, running, queue, stream>>

ServerAnswers ==
    /\ server = "up" /\ asked # <<>>
    /\ asked' = Tail(asked) /\ answers' = Append(answers, Head(asked))
    /\ UNCHANGED <<loop, running, queue, client,
                   protocol, smooth, server, partial, quiet>>

ServerCloses ==
    /\ server = "up" /\ server' = "closed"
    /\ asked' = <<>> /\ partial' = Daemon
    /\ UNCHANGED <<loop, running, queue, client, protocol, smooth, answers, quiet>>

SiblingFails ==
    /\ running /\ running' = FALSE
    /\ UNCHANGED <<loop, queue, client, stream>>

Stopped == pc = "ended" /\ UNCHANGED vars

\* What goes on around the loop is of no interest once it is over.
Around ==
    /\ pc # "ended"
    /\ \/ ClientAsks \/ ClientAsksInPart \/ ClientReads \/ ClientLeaves \/ AttachedTick
       \/ \E c \in Clients : Connect(c) \/ GiveUp(c)
       \/ ServerAnswers \/ ServerCloses \/ SiblingFails

Next == ServeOne \/ Around \/ Stopped

(* The worker's thread runs, the pump relays what comes down and a client  *)
(* that may leave does so some day: clients are short-lived tools.         *)
(* Nothing is asked of the server.                                         *)
Fairness == WF_vars(ServeOne) /\ WF_vars(ClientReads) /\ WF_vars(ClientLeaves)

Spec == Init /\ [][Next]_vars /\ Fairness

----------------------------------------------------------------------------
(* Types, and the parts of the state that go together: there is a current  *)
(* client exactly while one is served, nobody waits twice for the listener,*)
(* and the outcome is known once the loop is over.                         *)
TypeOK ==
    /\ pc \in {"check", "accept", "sleep", "noop", "greet", "proxy", "ended"}
    /\ outcome \in {"none", "ok", "err"} /\ (pc = "ended" <=> outcome # "none")
    /\ running \in BOOLEAN
    /\ current \in Clients \union {Daemon}
    /\ pc # "ended" => (Attached <=> current # Daemon)
    /\ mode \in {"blocking", "nonblocking"}
    /\ idle \in 0..Interval /\ quiet \in 0..MaxQuiet
    /\ queue \in Seq(Clients) /\ IsInjective(queue)
    /\ client \in [Clients -> {"away", "waiting", "attached", "gone"}]
    /\ protocol \in Kinds /\ smooth \in Smooth /\ server \in {"up", "closed"}
    /\ partial \in Clients \union {Daemon}
    /\ asked \in Seq(Requests) /\ answers \in Seq(Requests)

(* "Only one NOOP is ever in flight, the keepalive firing from the accept  *)
(* loop with no client attached": its answer never outlives the exchange,  *)
(* so no client ever reads it.  On IMAP the tag sees to it whatever the    *)
(* clients leave behind; on the others they have to leave nothing.         *)
NoopAlone ==
    protocol = "imap" \/ smooth =>
        /\ pc \notin {"noop", "ended"} => \A i \in DOMAIN Pending : Pending[i] # Mine
        /\ \A i, j \in DOMAIN Pending : Pending[i] = Mine /\ Pending[j] = Mine => i = j

\* How far behind an exchange finds the stream: the answers to come and the
\* half command in front of it, its own NOOP not counted.
Lag == Len(Pending) + (IF partial # Daemon THEN 1 ELSE 0)
                    - (IF pc = "noop" THEN 1 ELSE 0)

(* "It fails rather than proxying a desynchronised session to the next     *)
(* client": whatever clients left on the stream, of any protocol, and      *)
(* however many NOOPs run before the next visit, the loop serves on only   *)
(* when it found the stream no further out of step than they left it.  A   *)
(* NOOP whose answer is late, or swallowed by half a command, is never     *)
(* followed by another client.                                             *)
NoDrift == [][(pc # "proxy" /\ pc' # "ended") => Lag' <= Lag]_vars

(* While no client is attached, an upstream that is up has heard from      *)
(* sirup within the keepalive interval, traffic and NOOPs sharing one      *)
(* timer; and the stream is in blocking mode again, which the read         *)
(* deadline of the NOOP needs.  On smooth days: a proxy that cannot clone  *)
(* its sockets leaves the stream non-blocking, and a visit in which        *)
(* nothing was said restarts the timer.                                    *)
KeptWarm ==
    smooth /\ ~Attached /\ pc # "ended" =>
        mode = "blocking" /\ (server = "up" => quiet <= Interval)

(* The accept loop is the worker `serve` counts on, whatever clients, the  *)
(* server and siblings do: it returns Ok only with the flag down, looks at *)
(* the flag between any two clients, and fails between clients only.       *)
At == CASE pc \in {"noop", "sleep", "greet"} -> "accept"
        [] pc = "proxy"                      -> "client"
        [] pc = "ended"                      -> "left"
        [] OTHER                             -> pc

W == INSTANCE Worker WITH at <- At

ServesAsWorker == W!Spec

(* "A reply carrying any other tag ends the run": the NOOP exchange only   *)
(* ever completes on the NOOP's own answer.                                *)
NoopTakesItsOwn ==
    [][(pc = "noop" /\ pc' = "sleep") => Head(answers) = Mine]_vars

(* "Short-lived clients attach and detach freely": a client that leaves    *)
(* before its greeting does not end the run.                               *)
ClientCannotEndRun == [][pc = "greet" => pc' # "ended"]_vars

----------------------------------------------------------------------------
(* An upstream that is gone ends the run once clients stay away: it takes  *)
(* the next keepalive to find out, whatever a client and its proxy saw.    *)
DeadUpstreamEnds == <>[](server = "closed" /\ ~Attached) => <>(pc = "ended")

(* A sibling's failure ends this loop too, once its client has left; one   *)
(* that waits for its answers may have to wait for ever.                   *)
SiblingEnds == (~running /\ ~smooth) ~> (pc = "ended")

(* Everyone who waits is attached in the end, unless it left or the run    *)
(* is over.                                                                *)
EveryoneServed ==
    \A c \in Clients :
        (client[c] = "waiting" /\ ~smooth) ~> (client[c] # "waiting" \/ pc = "ended")
=============================================================================
