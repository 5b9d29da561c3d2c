------------------------------- MODULE Proxy -------------------------------
(***************************************************************************)
(* session::proxy: one attached client and the upstream session.  Two      *)
(* threads run it: the reader (client_to_channel) blocks on the client     *)
(* socket and feeds a channel; the pump (upstream_pump) alone owns the     *)
(* upstream and alternates non-blocking reads of it with writes of what    *)
(* the channel holds.  They share the flag `running` and the client socket.*)
(*                                                                         *)
(* A unit of traffic is a number: the i-th unit an endpoint sends is i.    *)
(* Every socket buffer holds at most SockCap units.  The client and the    *)
(* upstream server are the environment.                                    *)
(***************************************************************************)
EXTENDS Naturals, Sequences, SequencesExt, FiniteSets

CONSTANTS
    Cmds,          \* units a client sends, at most
    ReplyLen,      \* units the server answers each of them with
    Backlog,       \* replies the server is ready to owe before it reads on
    SockCap,       \* units a socket buffer holds
    ReadMax,       \* units one read returns, at most (the 8 KiB buffers)
    CloneMayFail   \* duplicating the client socket may fail

ASSUME ProxyAssumption ==
    /\ Cmds \in Nat /\ ReplyLen \in Nat /\ Backlog \in Nat
    /\ SockCap \in Nat \ {0} /\ ReadMax \in Nat \ {0}
    /\ CloneMayFail \in BOOLEAN

VARIABLES
    ppc, rpc,      \* where the pump's thread and the reader stand
    mode,          \* of the upstream stream: blocking, or non-blocking
    running,       \* the flag the two threads share
    shut,          \* the client socket was shut down, both ways
    pout, rout,    \* outcomes of upstream_pump and client_to_channel
    result,        \* what proxy returned
    c2r, rbuf, chan, pchunk, p2u,  \* commands: client socket, reader, channel,
                                   \* pump, upstream socket
    u2p, pbuf, p2c,                \* replies: upstream socket, pump, client socket
    client, csent, cgot,           \* the client: state, units sent, units read
    server, owed, ssent, sgot      \* the server: state, units owed, sent, read

control  == <<ppc, rpc, mode, running, shut, pout, rout, result>>
commands == <<c2r, rbuf, chan, pchunk, p2u>>
replies  == <<u2p, pbuf, p2c>>
ends     == <<client, csent, cgot, server, owed, ssent, sgot>>
vars     == <<control, commands, replies, ends>>

----------------------------------------------------------------------------
Numbered(n)  == [i \in 1..n |-> i]
Rest(s, n)   == SubSeq(s, n + 1, Len(s))
Least(m, n)  == IF m < n THEN m ELSE n
Room(buf)    == SockCap - Len(buf)

\* The lengths a read of a socket holding buf may return.
Readable(buf) == 1..Least(ReadMax, Len(buf))

InLoop  == ppc \in {"enter", "clone", "check", "read", "forward", "recv", "write"}
Leaving == ppc \in {"restore", "clear", "shut", "join"}
\* client_to_channel has returned: its sender is dropped.
SenderGone   == rpc = "done"
\* upstream_pump has returned: its receiver is dropped.
ReceiverGone == ppc \in {"join", "returned"}

Init ==
    /\ ppc = "enter" /\ rpc = "unborn"
    /\ mode = "blocking" /\ running = TRUE /\ shut = FALSE
    /\ pout = "ok" /\ rout = "ok" /\ result = "none"
    /\ c2r = <<>> /\ rbuf = <<>> /\ chan = <<>> /\ pchunk = <<>> /\ p2u = <<>>
    /\ u2p = <<>> /\ pbuf = <<>> /\ p2c = <<>>
    /\ client = "open" /\ csent = 0 /\ cgot = <<>>
    /\ server = "up" /\ owed = 0 /\ ssent = 0 /\ sgot = <<>>

----------------------------------------------------------------------------
(* Slips of the code the runs must notice.  Each stands for one action     *)
(* below and no specification uses it.                                     *)

\* The reader's `Ok(n) if send.is_ok()` guard negated.
ReaderSendSwapped ==
    /\ rpc = "send"
    /\ rbuf' = <<>> /\ rpc' = "stop" /\ chan' = Append(chan, rbuf)
    /\ UNCHANGED <<ppc, mode, running, shut, pout, rout, result,
                   c2r, pchunk, p2u, replies, ends>>

\* A failed upstream read returns with `?`, past the clean-up.
PumpReadEndEarly ==
    /\ ppc = "read" /\ u2p = <<>> /\ server # "up"
    /\ ppc' = "join" /\ pout' = "err"
    /\ UNCHANGED <<rpc, mode, running, shut, rout, result, commands, replies, ends>>

\* WouldBlock taken for the end of the stream.
PumpReadNothingEnds ==
    /\ ppc = "read" /\ u2p = <<>> /\ server = "up"
    /\ ppc' = "restore"
    /\ UNCHANGED <<rpc, mode, running, shut, pout, rout, result, commands, replies, ends>>

\* An idle read starts the next pass at once, past the channel.
PumpReadNothingSkips ==
    /\ ppc = "read" /\ u2p = <<>> /\ server = "up"
    /\ ppc' = "check"
    /\ UNCHANGED <<rpc, mode, running, shut, pout, rout, result, commands, replies, ends>>

\* The client's buffer is trusted to take a whole read at once.
PumpForwardWhole ==
    /\ ppc = "forward" /\ client \in {"open", "half"}
    /\ p2c' = p2c \o pbuf /\ pbuf' = <<>>
    /\ ppc' = "read"
    /\ UNCHANGED <<rpc, mode, running, shut, pout, rout, result, commands, u2p, ends>>

\* client.write in place of client.write_all.
PumpForwardOnce ==
    /\ ppc = "forward" /\ client \in {"open", "half"}
    /\ SockCap > Len(p2c)
    /\ p2c' = Append(p2c, Head(pbuf)) /\ pbuf' = <<>>
    /\ ppc' = "read"
    /\ UNCHANGED <<rpc, mode, running, shut, pout, rout, result, commands, u2p, ends>>

\* rx.recv in place of rx.try_recv: the pump waits for the client.
PumpRecvBlocks ==
    /\ ppc = "recv" /\ chan = <<>> /\ rpc = "done"
    /\ ppc' = "restore"
    /\ UNCHANGED <<rpc, mode, running, shut, pout, rout, result, commands, replies, ends>>

\* The count a short write reports is ignored.
PumpWriteOnce ==
    /\ ppc = "write" /\ SockCap > Len(p2u)
    /\ p2u' = Append(p2u, Head(pchunk)) /\ pchunk' = <<>>
    /\ ppc' = "recv"
    /\ UNCHANGED <<rpc, mode, running, shut, pout, rout, result,
                   c2r, rbuf, chan, replies, ends>>

\* The client socket is not shut down after the loop.
PumpShutSkipped ==
    /\ ppc = "shut"
    /\ ppc' = "join"
    /\ UNCHANGED <<rpc, mode, running, shut, pout, rout, result, commands, replies, ends>>

----------------------------------------------------------------------------
\* Session::set_nonblocking, which takes the retry strategy along.
SetNonblocking(on) == mode' = IF on THEN "nonblocking" ELSE "blocking"

(* proxy(): puts the upstream in non-blocking mode, duplicates the client  *)
(* socket twice, spawns the reader and becomes the pump.                   *)
Enter ==
    /\ ppc = "enter"
    /\ ppc' = "clone" /\ SetNonblocking(TRUE)
    /\ UNCHANGED <<rpc, running, shut, pout, rout, result, commands, replies, ends>>

Spawn ==
    /\ ppc = "clone"
    /\ ppc' = "check" /\ rpc' = "check"
    /\ UNCHANGED <<mode, running, shut, pout, rout, result, commands, replies, ends>>

\* try_clone()? returns before anything restores the blocking mode.
CloneFails ==
    /\ ppc = "clone" /\ CloneMayFail
    /\ ppc' = "returned" /\ result' = "err"
    /\ UNCHANGED <<rpc, mode, running, shut, pout, rout, commands, replies, ends>>

\* proxy() joins the reader and returns pump.and(reader).
Join ==
    /\ ppc = "join" /\ rpc = "done"
    /\ ppc' = "returned"
    /\ result' = IF pout = "err" THEN "err" ELSE rout
    /\ UNCHANGED <<rpc, mode, running, shut, pout, rout, commands, replies, ends>>

----------------------------------------------------------------------------
(* client_to_channel: the reader.                                          *)
ReaderCheck ==
    /\ rpc = "check"
    /\ rpc' = IF running THEN "read" ELSE "stop"
    /\ UNCHANGED <<ppc, mode, running, shut, pout, rout, result, commands, replies, ends>>

ReaderRead ==
    /\ rpc = "read"
    /\ \E n \in Readable(c2r) :
          /\ rbuf' = SubSeq(c2r, 1, n)
          /\ c2r' = Rest(c2r, n)
    /\ rpc' = "send"
    /\ UNCHANGED <<ppc, mode, running, shut, pout, rout, result,
                   chan, pchunk, p2u, replies, ends>>

\* Ok(0): the client ended its stream, or the pump shut the socket.
ReaderEof ==
    /\ rpc = "read" /\ c2r = <<>>
    /\ client \in {"half", "closed"} \/ shut
    /\ rpc' = "stop"
    /\ UNCHANGED <<ppc, mode, running, shut, pout, rout, result, commands, replies, ends>>

\* Any other error: a client that left without reading what it was sent.
ReaderFails ==
    /\ rpc = "read" /\ c2r = <<>> /\ client = "reset"
    /\ rpc' = "done" /\ rout' = "err" /\ running' = FALSE
    /\ UNCHANGED <<ppc, mode, shut, pout, result, commands, replies, ends>>

ReaderSend ==
    /\ rpc = "send"
    /\ rbuf' = <<>>
    /\ IF ReceiverGone
         THEN rpc' = "stop" /\ UNCHANGED chan
         ELSE rpc' = "check" /\ chan' = Append(chan, rbuf)
    /\ UNCHANGED <<ppc, mode, running, shut, pout, rout, result,
                   c2r, pchunk, p2u, replies, ends>>

ReaderStop ==
    /\ rpc = "stop"
    /\ rpc' = "done" /\ running' = FALSE
    /\ UNCHANGED <<ppc, mode, shut, pout, rout, result, commands, replies, ends>>

Reader ==
    \/ ReaderCheck \/ ReaderRead \/ ReaderEof
    \/ ReaderFails \/ ReaderSend \/ ReaderStop

----------------------------------------------------------------------------
(* upstream_pump.                                                          *)
PumpCheck ==
    /\ ppc = "check"
    /\ ppc' = IF running THEN "read" ELSE "restore"
    /\ UNCHANGED <<rpc, mode, running, shut, pout, rout, result, commands, replies, ends>>

PumpRead ==
    /\ ppc = "read"
    /\ \E n \in Readable(u2p) :
          /\ pbuf' = SubSeq(u2p, 1, n)
          /\ u2p' = Rest(u2p, n)
    /\ ppc' = "forward"
    /\ UNCHANGED <<rpc, mode, running, shut, pout, rout, result, commands, p2c, ends>>

\* WouldBlock, which only a non-blocking stream reports: on to the channel.
PumpReadNothing ==
    /\ ppc = "read" /\ u2p = <<>> /\ server = "up"
    /\ mode = "nonblocking"
    /\ ppc' = "recv"
    /\ UNCHANGED <<rpc, mode, running, shut, pout, rout, result, commands, replies, ends>>

\* Ok(0) leaves the loop with Ok, any other error with Err.
PumpReadEnd ==
    /\ ppc = "read" /\ u2p = <<>> /\ server # "up"
    /\ ppc' = "restore"
    /\ pout' = IF server = "reset" THEN "err" ELSE "ok"
    /\ UNCHANGED <<rpc, mode, running, shut, rout, result, commands, replies, ends>>

\* client.write_all blocks until the client's buffer took everything.
PumpForward ==
    /\ ppc = "forward" /\ client \in {"open", "half"}
    /\ Room(p2c) > 0
    /\ LET n == Least(Len(pbuf), Room(p2c)) IN
          /\ p2c' = p2c \o SubSeq(pbuf, 1, n)
          /\ pbuf' = Rest(pbuf, n)
    /\ ppc' = IF pbuf' = <<>> THEN "read" ELSE "forward"
    /\ UNCHANGED <<rpc, mode, running, shut, pout, rout, result, commands, u2p, ends>>

PumpForwardFails ==
    /\ ppc = "forward" /\ client \in {"closed", "reset"}
    /\ ppc' = "restore" /\ pout' = "err" /\ pbuf' = <<>>
    /\ UNCHANGED <<rpc, mode, running, shut, rout, result, commands, u2p, p2c, ends>>

PumpRecv ==
    /\ ppc = "recv" /\ chan # <<>>
    /\ pchunk' = Head(chan) /\ chan' = Tail(chan)
    /\ ppc' = "write"
    /\ UNCHANGED <<rpc, mode, running, shut, pout, rout, result,
                   c2r, rbuf, p2u, replies, ends>>

\* TryRecvError: Empty starts the next pass, Disconnected leaves the loop.
PumpRecvNothing ==
    /\ ppc = "recv" /\ chan = <<>>
    /\ ppc' = IF SenderGone THEN "restore" ELSE "check"
    /\ UNCHANGED <<rpc, mode, running, shut, pout, rout, result, commands, replies, ends>>

(* write_upstream: writes what fits, and tries again while the socket      *)
(* reports WouldBlock.  A server that is gone fails the write, or its      *)
(* socket still takes the bytes for nobody.                                *)
PumpWrite ==
    /\ ppc = "write" /\ Room(p2u) > 0
    /\ LET n == Least(Len(pchunk), Room(p2u)) IN
          /\ p2u' = p2u \o SubSeq(pchunk, 1, n)
          /\ pchunk' = Rest(pchunk, n)
    /\ ppc' = IF pchunk' = <<>> THEN "recv" ELSE "write"
    /\ UNCHANGED <<rpc, mode, running, shut, pout, rout, result,
                   c2r, rbuf, chan, replies, ends>>

PumpWriteFails ==
    /\ ppc = "write" /\ server # "up"
    /\ ppc' = "restore" /\ pout' = "err" /\ pchunk' = <<>>
    /\ UNCHANGED <<rpc, mode, running, shut, rout, result,
                   c2r, rbuf, chan, p2u, replies, ends>>

\* After the loop, in this order: back to blocking, the flag, the socket.
PumpRestore ==
    /\ ppc = "restore"
    /\ ppc' = "clear" /\ SetNonblocking(FALSE)
    /\ UNCHANGED <<rpc, running, shut, pout, rout, result, commands, replies, ends>>

PumpClear ==
    /\ ppc = "clear"
    /\ ppc' = "shut" /\ running' = FALSE
    /\ UNCHANGED <<rpc, mode, shut, pout, rout, result, commands, replies, ends>>

PumpShut ==
    /\ ppc = "shut"
    /\ ppc' = "join" /\ shut' = TRUE
    /\ UNCHANGED <<rpc, mode, running, pout, rout, result, commands, replies, ends>>

Pump ==
    \/ Enter \/ Spawn \/ CloneFails \/ Join
    \/ PumpCheck \/ PumpRead \/ PumpReadNothing \/ PumpReadEnd
    \/ PumpForward \/ PumpForwardFails
    \/ PumpRecv \/ PumpRecvNothing \/ PumpWrite \/ PumpWriteFails
    \/ PumpRestore \/ PumpClear \/ PumpShut

----------------------------------------------------------------------------
(* The client, any local program: it may stop sending and read on, or      *)
(* close, which resets the stream when it leaves replies unread.           *)
ClientSend ==
    /\ client = "open" /\ ~shut /\ csent < Cmds /\ Room(c2r) > 0
    /\ csent' = csent + 1 /\ c2r' = Append(c2r, csent + 1)
    /\ UNCHANGED <<control, rbuf, chan, pchunk, p2u, replies,
                   client, cgot, server, owed, ssent, sgot>>

ClientRead ==
    /\ client \in {"open", "half"} /\ p2c # <<>>
    /\ cgot' = Append(cgot, Head(p2c)) /\ p2c' = Tail(p2c)
    /\ UNCHANGED <<control, commands, u2p, pbuf,
                   client, csent, server, owed, ssent, sgot>>

ClientHalfClose ==
    /\ client = "open"
    /\ client' = "half"
    /\ UNCHANGED <<control, commands, replies, csent, cgot, server, owed, ssent, sgot>>

ClientClose ==
    /\ client \in {"open", "half"}
    /\ client' = IF p2c = <<>> THEN "closed" ELSE "reset"
    /\ UNCHANGED <<control, commands, replies, csent, cgot, server, owed, ssent, sgot>>

(* The upstream server: it reads a command only while it owes at most      *)
(* Backlog units with that command's reply, and answers in order.          *)
ServerRead ==
    /\ server = "up" /\ p2u # <<>> /\ owed + ReplyLen <= Backlog
    /\ sgot' = Append(sgot, Head(p2u)) /\ p2u' = Tail(p2u)
    /\ owed' = owed + ReplyLen
    /\ UNCHANGED <<control, c2r, rbuf, chan, pchunk, replies,
                   client, csent, cgot, server, ssent>>

ServerReply ==
    /\ server = "up" /\ owed > 0 /\ Room(u2p) > 0
    /\ owed' = owed - 1 /\ ssent' = ssent + 1 /\ u2p' = Append(u2p, ssent + 1)
    /\ UNCHANGED <<control, commands, pbuf, p2c, client, csent, cgot, server, sgot>>

ServerEnd ==
    /\ server = "up"
    /\ server' \in {"closed", "reset"}
    /\ UNCHANGED <<control, commands, replies, client, csent, cgot, owed, ssent, sgot>>

\* Stutters once proxy() has returned, so a deadlock check sees only real ones.
Returned == ppc = "returned" /\ UNCHANGED vars

Next ==
    \/ Pump \/ Reader
    \/ ClientSend \/ ClientRead \/ ClientHalfClose \/ ClientClose
    \/ ServerRead \/ ServerReply \/ ServerEnd
    \/ Returned

(* Both threads are scheduled by the operating system, no lock between     *)
(* them.  The peers are assumed to read what they are sent, never to send  *)
(* anything or to hang up.                                                 *)
Fairness ==
    /\ WF_vars(Pump) /\ WF_vars(Reader)
    /\ WF_vars(ClientRead) /\ WF_vars(ServerRead) /\ WF_vars(ServerReply)

Spec == Init /\ [][Next]_vars /\ Fairness

----------------------------------------------------------------------------
\* The buffers of a socket, each bounded by the kernel.
SocketBuffers == {c2r, p2u, u2p, p2c}

(* Types, and no socket holds more than its capacity: session.rs never     *)
(* assumes that a write takes everything at once.                          *)
TypeOK ==
    /\ ppc \in {"enter", "clone", "check", "read", "forward", "recv", "write",
                "restore", "clear", "shut", "join", "returned"}
    /\ rpc \in {"unborn", "check", "read", "send", "stop", "done"}
    /\ mode \in {"blocking", "nonblocking"}
    /\ running \in BOOLEAN /\ shut \in BOOLEAN
    /\ pout \in {"ok", "err"} /\ rout \in {"ok", "err"}
    /\ result \in {"none", "ok", "err"}
    /\ {rbuf, pchunk, pbuf, cgot, sgot} \union SocketBuffers \subseteq Seq(Nat)
    /\ \A b \in SocketBuffers : Len(b) <= SockCap
    /\ chan \in Seq(Seq(Nat))
    /\ client \in {"open", "half", "closed", "reset"}
    /\ server \in {"up", "closed", "reset"}
    /\ csent \in Nat /\ ssent \in Nat /\ owed \in Nat

(* Every unit the client sent is, in order and once, at the server or in   *)
(* one of the buffers on its way, as long as the pump relays and the       *)
(* server is up: no partial write, chunk hand-over or interleaving of the  *)
(* two threads loses, repeats or reorders a command.                       *)
CommandsConserved ==
    InLoop /\ server = "up" =>
        sgot \o p2u \o pchunk \o FlattenSeq(chan) \o rbuf \o c2r = Numbered(csent)

(* The same for the replies, whatever ended the relay: as long as the      *)
(* client keeps its socket, each unit the server sent has reached it, or   *)
(* is on its way, or still waits in the upstream socket.  The pump never   *)
(* leaves with a unit it has read from the upstream in its hands.          *)
RepliesConserved ==
    client \in {"open", "half"} =>
        cgot \o p2c \o pbuf \o u2p = Numbered(ssent)

(* What serve_one takes back from a proxy whose threads ran: the upstream  *)
(* in blocking mode for the next keepalive NOOP, the reader joined, the    *)
(* client socket shut, and nothing read from the upstream left behind.     *)
(* Every way out of the pump's loop and of the reader has to get there.    *)
HandedBack ==
    ppc = "returned" /\ rpc # "unborn" =>
        /\ mode = "blocking" /\ shut
        /\ rpc = "done" /\ ~running
        /\ pbuf = <<>> /\ pchunk = <<>>

(* The reader never leaves on its own account: while the pump relays and   *)
(* neither endpoint hung up, the flag is up and the reader is at work, so  *)
(* neither thread can end the relay of two live endpoints.                 *)
NoSpuriousEnd ==
    client = "open" /\ server = "up" /\ ppc \notin {"enter", "clone", "returned"} =>
        InLoop /\ running /\ rpc \notin {"unborn", "stop", "done"}

Ended == client # "open" \/ server # "up"

(* The relay's refinement mapping.  Once the pump has left its loop only   *)
(* what the two kernels already hold is still under way.                   *)
ToUpstream == p2u \o (IF InLoop THEN pchunk \o FlattenSeq(chan) \o rbuf \o c2r
                                ELSE <<>>)
ToClient   == p2c \o (IF InLoop THEN pbuf \o u2p ELSE <<>>)

Phase == IF ppc \in {"enter", "clone"} THEN "opening"
         ELSE IF InLoop THEN "up" ELSE "down"

R == INSTANCE Relay WITH
        phase <- Phase, hung <- Ended,
        toUpstream <- ToUpstream, toClient <- ToClient,
        atUpstream <- sgot, atClient <- cgot

(* The two threads and their channel implement the relay of two pipes:     *)
(* once set up they stay up until an endpoint hangs up, and what they cut  *)
(* off at the end was behind some point of its direction.                  *)
RelaysInOrder == R!Spec

----------------------------------------------------------------------------

(* Once either endpoint hung up, proxy returns: the pump sees the flag or  *)
(* the end of the upstream, and wakes a reader parked in its read.         *)
EndsAfterHangUp == Ended ~> (ppc = "returned")

(* A client that stays attached has every command it sent read by the      *)
(* server, and every reply reaches it, unless somebody hangs up or the     *)
(* relay was never set up.                                                 *)
Delivered ==
    LET Over == Ended \/ (ppc = "returned" /\ rpc = "unborn")
    IN  /\ \A n \in 1..Cmds : (csent = n) ~> (Len(sgot) >= n \/ Over)
        /\ \A n \in 1..(Cmds * ReplyLen) : (ssent = n) ~> (Len(cgot) >= n \/ Over)

(* "No shared lock means neither direction can starve or park the other":  *)
(* a reply waiting in the upstream socket is read while both ends live.    *)
NeitherDirectionParks == (u2p # <<>>) ~> (ppc = "forward" \/ Ended)

(* "the bytes are forwarded to the upstream stream": what a client sent    *)
(* before it ended its stream reaches an upstream that stays up.           *)
SentIsForwarded ==
    \A n \in 1..Cmds : (csent = n) ~> (Len(sgot) >= n \/ server # "up"
                                        \/ client \in {"closed", "reset"})
=============================================================================
