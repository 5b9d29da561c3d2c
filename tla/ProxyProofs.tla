---------------------------- MODULE ProxyProofs ----------------------------
(***************************************************************************)
(* The shutdown protocol of the two proxy threads, for any traffic and any *)
(* buffer sizes: it rests on their program counters, the shared flag and   *)
(* what the pump has in its hands, never on what the buffers hold.         *)
(***************************************************************************)
EXTENDS Proxy, FlattenProofs

(* The pump cleans up in the order restore, clear, shut, and has nothing   *)
(* of either direction in its hands outside a write.                       *)
CleanUp ==
    /\ ppc \in {"enter", "clone"} => rpc = "unborn"
    /\ ppc # "forward" => pbuf = <<>>
    /\ ppc # "write" => pchunk = <<>>
    /\ ppc \in {"clear", "shut", "join"} => mode = "blocking"
    /\ ppc \in {"shut", "join"} => ~running
    /\ ppc = "join" => shut
    /\ HandedBack

LEMMA InitCleanUp == Init => CleanUp
  BY DEF Init, CleanUp, HandedBack

LEMMA NextCleanUp == CleanUp /\ [Next]_vars => CleanUp'
<1> SUFFICES ASSUME CleanUp, [Next]_vars PROVE CleanUp'
  OBVIOUS
<1> USE DEF CleanUp, HandedBack
<1>1. CASE UNCHANGED vars
  BY <1>1 DEF vars, control, commands, replies, ends
<1>2. CASE Enter \/ Spawn \/ CloneFails \/ Join
  BY <1>2 DEF Enter, Spawn, CloneFails, Join, SetNonblocking, commands, replies
<1>3. CASE PumpCheck \/ PumpReadNothing \/ PumpReadEnd \/ PumpRecvNothing
  BY <1>3 DEF PumpCheck, PumpReadNothing, PumpReadEnd, PumpRecvNothing, commands, replies
<1>4. CASE PumpRead \/ PumpForward \/ PumpForwardFails
  BY <1>4 DEF PumpRead, PumpForward, PumpForwardFails, commands
<1>5. CASE PumpRecv \/ PumpWrite \/ PumpWriteFails
  BY <1>5 DEF PumpRecv, PumpWrite, PumpWriteFails, replies
<1>6. CASE PumpRestore \/ PumpClear \/ PumpShut
  BY <1>6 DEF PumpRestore, PumpClear, PumpShut, SetNonblocking, commands, replies
<1>7. CASE Reader
  BY <1>7 DEF Reader, ReaderCheck, ReaderRead, ReaderEof, ReaderFails, ReaderSend,
              ReaderStop, commands, replies
<1>8. CASE ClientSend \/ ClientRead \/ ClientHalfClose \/ ClientClose
  BY <1>8 DEF ClientSend, ClientRead, ClientHalfClose, ClientClose,
              control, commands, replies
<1>9. CASE ServerRead \/ ServerReply \/ ServerEnd
  BY <1>9 DEF ServerRead, ServerReply, ServerEnd, control, commands, replies
<1> QED
  BY <1>1, <1>2, <1>3, <1>4, <1>5, <1>6, <1>7, <1>8, <1>9 DEF Next, Pump, Returned

(* Whatever ended the relay, serve_one takes back a blocking upstream, a   *)
(* reader that is joined and a pump that holds nothing.                    *)
THEOREM HandsBack == Spec => []HandedBack
<1>1. CleanUp => HandedBack
  BY DEF CleanUp
<1> QED
  BY <1>1, InitCleanUp, NextCleanUp, PTL DEF Spec

----------------------------------------------------------------------------
(* While both endpoints live, each thread's way out needs the other to     *)
(* have left first, so none leaves.                                        *)
BothAtWork ==
    /\ ppc \in {"enter", "clone"} => rpc = "unborn" /\ running
    /\ shut => ppc \in {"join", "returned"}
    /\ NoSpuriousEnd

LEMMA InitBothAtWork == Init => BothAtWork
  BY DEF Init, BothAtWork, NoSpuriousEnd

LEMMA NextBothAtWork == BothAtWork /\ [Next]_vars => BothAtWork'
<1> SUFFICES ASSUME BothAtWork, [Next]_vars PROVE BothAtWork'
  OBVIOUS
<1> USE DEF BothAtWork, NoSpuriousEnd, InLoop
<1>1. CASE UNCHANGED vars
  BY <1>1 DEF vars, control, ends
<1>2. CASE Enter \/ Spawn \/ CloneFails \/ Join
  BY <1>2 DEF Enter, Spawn, CloneFails, Join, SetNonblocking, ends
<1>3. CASE PumpCheck \/ PumpReadNothing \/ PumpReadEnd \/ PumpRecvNothing
  BY <1>3 DEF PumpCheck, PumpReadNothing, PumpReadEnd, PumpRecvNothing, SenderGone, ends
<1>4. CASE PumpRead \/ PumpForward \/ PumpForwardFails
  BY <1>4 DEF PumpRead, PumpForward, PumpForwardFails, ends
<1>5. CASE PumpRecv \/ PumpWrite \/ PumpWriteFails
  BY <1>5 DEF PumpRecv, PumpWrite, PumpWriteFails, ends
<1>6. CASE PumpRestore \/ PumpClear \/ PumpShut
  BY <1>6 DEF PumpRestore, PumpClear, PumpShut, SetNonblocking, ends
<1>7. CASE Reader
  <2>1. CASE ReaderEof \/ ReaderFails \/ ReaderStop
    BY <2>1 DEF ReaderEof, ReaderFails, ReaderStop, ends
  <2>2. CASE ReaderSend
    BY <2>2 DEF ReaderSend, ReceiverGone, ends
  <2>3. CASE ReaderCheck \/ ReaderRead
    BY <2>3 DEF ReaderCheck, ReaderRead, ends
  <2> QED
    BY <1>7, <2>1, <2>2, <2>3 DEF Reader
<1>8. CASE ClientSend \/ ClientRead \/ ClientHalfClose \/ ClientClose
  BY <1>8 DEF ClientSend, ClientRead, ClientHalfClose, ClientClose, control
<1>9. CASE ServerRead \/ ServerReply \/ ServerEnd
  BY <1>9 DEF ServerRead, ServerReply, ServerEnd, control
<1> QED
  BY <1>1, <1>2, <1>3, <1>4, <1>5, <1>6, <1>7, <1>8, <1>9 DEF Next, Pump, Returned

(* Neither thread ever ends the relay of a client and an upstream that     *)
(* both live, whatever the traffic.                                        *)
THEOREM OnlyAnEndpointEnds == Spec => []NoSpuriousEnd
<1>1. BothAtWork => NoSpuriousEnd
  BY DEF BothAtWork
<1> QED
  BY <1>1, InitBothAtWork, NextBothAtWork, PTL DEF Spec
----------------------------------------------------------------------------
(* What the relay carries, for any traffic and any buffer sizes: both      *)
(* directions are conserved while they are relayed, and the two threads    *)
(* with their channel implement the relay of two pipes.                    *)
(* Types first.                                                            *)
TypesOf ==
    /\ rbuf \in Seq(Nat) /\ pchunk \in Seq(Nat) /\ pbuf \in Seq(Nat)
    /\ cgot \in Seq(Nat) /\ sgot \in Seq(Nat)
    /\ c2r \in Seq(Nat) /\ p2u \in Seq(Nat) /\ u2p \in Seq(Nat) /\ p2c \in Seq(Nat)
    /\ Len(c2r) <= SockCap /\ Len(p2u) <= SockCap
    /\ Len(u2p) <= SockCap /\ Len(p2c) <= SockCap
    /\ chan \in Seq(Seq(Nat))
    /\ csent \in Nat /\ ssent \in Nat /\ owed \in Nat

Stages ==
    /\ ppc \in {"enter", "clone", "check", "read", "forward", "recv", "write",
                "restore", "clear", "shut", "join", "returned"}
    /\ rpc \in {"unborn", "check", "read", "send", "stop", "done"}
    /\ mode \in {"blocking", "nonblocking"}
    /\ running \in BOOLEAN /\ shut \in BOOLEAN
    /\ pout \in {"ok", "err"} /\ rout \in {"ok", "err"}
    /\ result \in {"none", "ok", "err"}
    /\ client \in {"open", "half", "closed", "reset"}
    /\ server \in {"up", "closed", "reset"}

LEMMA TypeParts == TypeOK <=> TypesOf /\ Stages
  BY DEF TypeOK, TypesOf, Stages, SocketBuffers

LEMMA Taken ==
  ASSUME NEW s \in Seq(Nat), NEW n \in 0..Len(s)
  PROVE  /\ SubSeq(s, 1, n) \in Seq(Nat) /\ Rest(s, n) \in Seq(Nat)
         /\ Len(SubSeq(s, 1, n)) = n /\ Len(Rest(s, n)) = Len(s) - n
<1>1. Len(s) \in Nat /\ \A i \in 1..Len(s) : s[i] \in Nat
  BY LenProperties, ElementOfSeq
<1>2. SubSeq(s, 1, n) \in Seq(Nat) /\ Len(SubSeq(s, 1, n)) = n
  BY <1>1, SubSeqProperties
<1>3. Rest(s, n) \in Seq(Nat) /\ Len(Rest(s, n)) = Len(s) - n
  BY <1>1, SubSeqProperties DEF Rest
<1> QED
  BY <1>2, <1>3

\* A sequence is what a read takes of it, then what it leaves.
LEMMA Split ==
  ASSUME NEW s \in Seq(Nat), NEW n \in 0..Len(s)
  PROVE  \E h, t \in Seq(Nat) : SubSeq(s, 1, n) = h /\ Rest(s, n) = t /\ s = Cat(h, t)
<1>1. Len(s) \in Nat
  BY LenProperties
<1>2. 1 \in 1..(Len(s) + 1) /\ n \in (1 - 1)..Len(s) /\ Len(s) \in n..Len(s)
  BY <1>1
<1>3. SubSeq(s, 1, n) \o SubSeq(s, n + 1, Len(s)) = SubSeq(s, 1, Len(s))
  BY <1>2, ConcatAdjacentSubSeq
<1>4. SubSeq(s, 1, Len(s)) = s
  BY SubSeqFull
<1>5. Cat(SubSeq(s, 1, n), Rest(s, n)) = s
  BY <1>3, <1>4 DEF Cat, Rest
<1>6. PICK h \in Seq(Nat), t \in Seq(Nat) : h = SubSeq(s, 1, n) /\ t = Rest(s, n)
  BY Taken
<1> QED
  BY <1>5, <1>6

LEMMA ReadTakes ==
  ASSUME NEW s \in Seq(Nat), NEW n \in Readable(s)
  PROVE  n \in 0..Len(s)
  BY LenProperties, ProxyAssumption DEF Readable, Least

\* What a socket still takes, of what there is to write.
LEMMA WriteFits ==
  ASSUME NEW s \in Seq(Nat), NEW buf \in Seq(Nat), Room(buf) > 0, Len(buf) <= SockCap
  PROVE  LET n == Least(Len(s), Room(buf)) IN
         /\ n \in 0..Len(s)
         /\ buf \o SubSeq(s, 1, n) \in Seq(Nat)
         /\ Len(buf \o SubSeq(s, 1, n)) <= SockCap
<1> DEFINE n == Least(Len(s), Room(buf))
<1>1. Len(s) \in Nat /\ Len(buf) \in Nat /\ SockCap \in Nat
  BY LenProperties, ProxyAssumption
<1>2. n \in 0..Len(s) /\ n <= SockCap - Len(buf)
  BY <1>1 DEF Least, Room
<1> HIDE DEF n
<1>3. SubSeq(s, 1, n) \in Seq(Nat) /\ Len(SubSeq(s, 1, n)) = n
  BY <1>2, Taken
<1>4. /\ buf \o SubSeq(s, 1, n) \in Seq(Nat)
      /\ Len(buf \o SubSeq(s, 1, n)) = Len(buf) + n
  BY <1>3, ConcatProperties
<1> QED
  BY <1>1, <1>2, <1>4 DEF n

LEMMA InitTypes == Init => TypesOf /\ Stages
<1>1. <<>> \in Seq(Nat) /\ <<>> \in Seq(Seq(Nat)) /\ Len(<<>>) = 0
  BY EmptySeq
<1>2. 0 \in Nat /\ 0 <= SockCap
  BY ProxyAssumption
<1> QED
  BY <1>1, <1>2 DEF Init, TypesOf, Stages

LEMMA NextStages == Stages /\ [Next]_vars => Stages'
<1> SUFFICES ASSUME Stages, [Next]_vars PROVE Stages'
  OBVIOUS
<1> USE DEF Stages
<1>1. CASE UNCHANGED vars
  BY <1>1 DEF vars, control, ends
<1>2. CASE Enter \/ Spawn \/ CloneFails \/ Join
  BY <1>2 DEF Enter, Spawn, CloneFails, Join, SetNonblocking, ends
<1>3. CASE PumpCheck \/ PumpReadNothing \/ PumpReadEnd \/ PumpRecvNothing
  BY <1>3 DEF PumpCheck, PumpReadNothing, PumpReadEnd, PumpRecvNothing, ends
<1>4. CASE PumpRead \/ PumpForward \/ PumpForwardFails
  BY <1>4 DEF PumpRead, PumpForward, PumpForwardFails, ends
<1>5. CASE PumpRecv \/ PumpWrite \/ PumpWriteFails
  BY <1>5 DEF PumpRecv, PumpWrite, PumpWriteFails, ends
<1>6. CASE PumpRestore \/ PumpClear \/ PumpShut
  BY <1>6 DEF PumpRestore, PumpClear, PumpShut, SetNonblocking, ends
<1>7. CASE Reader
  BY <1>7 DEF Reader, ReaderCheck, ReaderRead, ReaderEof, ReaderFails, ReaderSend,
              ReaderStop, ends
<1>8. CASE ClientSend \/ ClientRead \/ ClientHalfClose \/ ClientClose
  BY <1>8 DEF ClientSend, ClientRead, ClientHalfClose, ClientClose, control
<1>9. CASE ServerRead \/ ServerReply \/ ServerEnd
  BY <1>9 DEF ServerRead, ServerReply, ServerEnd, control
<1> QED
  BY <1>1, <1>2, <1>3, <1>4, <1>5, <1>6, <1>7, <1>8, <1>9 DEF Next, Pump, Returned

\* The steps of the two threads that move no unit.
Idle ==
    \/ Enter \/ Spawn \/ CloneFails \/ Join
    \/ PumpCheck \/ PumpReadNothing \/ PumpReadEnd \/ PumpRecvNothing
    \/ PumpRestore \/ PumpClear \/ PumpShut
    \/ ReaderCheck \/ ReaderEof \/ ReaderFails \/ ReaderStop

LEMMA IdleMovesNothing ==
  Idle => UNCHANGED <<c2r, rbuf, chan, pchunk, p2u, u2p, pbuf, p2c, client, csent, cgot,
                      server, owed, ssent, sgot>>
  BY DEF Idle, Enter, Spawn, CloneFails, Join, PumpCheck, PumpReadNothing, PumpReadEnd,
         PumpRecvNothing, PumpRestore, PumpClear, PumpShut, ReaderCheck, ReaderEof,
         ReaderFails, ReaderStop, commands, replies, ends

LEMMA NextTypes == TypesOf /\ [Next]_vars => TypesOf'
<1> SUFFICES ASSUME TypesOf, [Next]_vars PROVE TypesOf'
  OBVIOUS
<1> USE DEF TypesOf
<1>1. CASE UNCHANGED vars
  BY <1>1 DEF vars, control, commands, replies, ends
<1>2. CASE Idle \/ ClientHalfClose \/ ClientClose \/ ServerEnd
  BY <1>2, IdleMovesNothing DEF ClientHalfClose, ClientClose, ServerEnd, commands, replies
<1>3. CASE ReaderRead
  <2>1. PICK n \in Readable(c2r) : rbuf' = SubSeq(c2r, 1, n) /\ c2r' = Rest(c2r, n)
    BY <1>3 DEF ReaderRead
  <2>2. n \in 0..Len(c2r) /\ Len(c2r) \in Nat /\ SockCap \in Nat
    BY ReadTakes, LenProperties, ProxyAssumption
  <2>3. /\ SubSeq(c2r, 1, n) \in Seq(Nat) /\ Rest(c2r, n) \in Seq(Nat)
        /\ Len(Rest(c2r, n)) = Len(c2r) - n
    BY <2>2, Taken
  <2>4. Len(c2r) - n <= SockCap
    BY <2>2
  <2>5. rbuf' \in Seq(Nat) /\ c2r' \in Seq(Nat) /\ Len(c2r') <= SockCap
    BY <2>1, <2>3, <2>4
  <2> QED
    BY <1>3, <2>5 DEF ReaderRead, replies, ends
<1>4. CASE ReaderSend
  <2>1. Append(chan, rbuf) \in Seq(Seq(Nat)) /\ <<>> \in Seq(Nat)
    BY AppendProperties, EmptySeq
  <2> QED
    BY <1>4, <2>1 DEF ReaderSend, replies, ends
<1>5. CASE PumpRead
  <2>1. PICK n \in Readable(u2p) : pbuf' = SubSeq(u2p, 1, n) /\ u2p' = Rest(u2p, n)
    BY <1>5 DEF PumpRead
  <2>2. n \in 0..Len(u2p) /\ Len(u2p) \in Nat /\ SockCap \in Nat
    BY ReadTakes, LenProperties, ProxyAssumption
  <2>3. /\ SubSeq(u2p, 1, n) \in Seq(Nat) /\ Rest(u2p, n) \in Seq(Nat)
        /\ Len(Rest(u2p, n)) = Len(u2p) - n
    BY <2>2, Taken
  <2>4. Len(u2p) - n <= SockCap
    BY <2>2
  <2>5. pbuf' \in Seq(Nat) /\ u2p' \in Seq(Nat) /\ Len(u2p') <= SockCap
    BY <2>1, <2>3, <2>4
  <2> QED
    BY <1>5, <2>5 DEF PumpRead, commands, ends
<1>6. CASE PumpForward
  <2>1. p2c' \in Seq(Nat) /\ Len(p2c') <= SockCap /\ pbuf' \in Seq(Nat)
    BY <1>6, WriteFits, Taken DEF PumpForward
  <2> QED
    BY <1>6, <2>1 DEF PumpForward, commands, ends
<1>7. CASE PumpWrite
  <2>1. p2u' \in Seq(Nat) /\ Len(p2u') <= SockCap /\ pchunk' \in Seq(Nat)
    BY <1>7, WriteFits, Taken DEF PumpWrite
  <2> QED
    BY <1>7, <2>1 DEF PumpWrite, replies, ends
<1>8. CASE PumpForwardFails \/ PumpWriteFails
  BY <1>8, EmptySeq DEF PumpForwardFails, PumpWriteFails, commands, replies, ends
<1>9. CASE PumpRecv
  <2>1. pchunk' \in Seq(Nat) /\ chan' \in Seq(Seq(Nat))
    BY <1>9, HeadTailProperties DEF PumpRecv
  <2> QED
    BY <1>9, <2>1 DEF PumpRecv, replies, ends
<1>10. CASE ClientSend
  <2>1. c2r' \in Seq(Nat) /\ Len(c2r') = Len(c2r) + 1 /\ csent' \in Nat
    BY <1>10, AppendProperties DEF ClientSend
  <2>2. Len(c2r') <= SockCap
    BY <1>10, <2>1, LenProperties, ProxyAssumption DEF ClientSend, Room
  <2> QED
    BY <1>10, <2>1, <2>2 DEF ClientSend, control, replies
<1>11. CASE ClientRead
  <2>1. p2c' \in Seq(Nat) /\ Len(p2c') = Len(p2c) - 1 /\ cgot' \in Seq(Nat)
    BY <1>11, HeadTailProperties, AppendProperties DEF ClientRead
  <2>2. Len(p2c') <= SockCap
    BY <2>1, LenProperties, ProxyAssumption
  <2> QED
    BY <1>11, <2>1, <2>2 DEF ClientRead, control, commands
<1>12. CASE ServerRead
  <2>1. p2u' \in Seq(Nat) /\ Len(p2u') = Len(p2u) - 1 /\ sgot' \in Seq(Nat)
    BY <1>12, HeadTailProperties, AppendProperties DEF ServerRead
  <2>2. Len(p2u') <= SockCap /\ owed' \in Nat
    BY <1>12, <2>1, LenProperties, ProxyAssumption DEF ServerRead
  <2> QED
    BY <1>12, <2>1, <2>2 DEF ServerRead, control, replies
<1>13. CASE ServerReply
  <2>1. u2p' \in Seq(Nat) /\ Len(u2p') = Len(u2p) + 1 /\ ssent' \in Nat
    BY <1>13, AppendProperties DEF ServerReply
  <2>2. Len(u2p') <= SockCap /\ owed' \in Nat
    BY <1>13, <2>1, LenProperties, ProxyAssumption DEF ServerReply, Room
  <2> QED
    BY <1>13, <2>1, <2>2 DEF ServerReply, control, commands
<1> QED
  BY <1>1, <1>2, <1>3, <1>4, <1>5, <1>6, <1>7, <1>8, <1>9, <1>10, <1>11, <1>12, <1>13
     DEF Next, Pump, Reader, Returned, Idle

(* Every reachable state is well typed, and no socket holds more than it   *)
(* has room for.                                                           *)
THEOREM RelayTypeOK == Spec => []TypeOK
<1>1. Init => TypesOf /\ Stages
  BY InitTypes
<1>2. TypesOf /\ Stages /\ [Next]_vars => (TypesOf /\ Stages)'
  BY NextTypes, NextStages
<1>3. TypesOf /\ Stages => TypeOK
  BY TypeParts
<1> QED
  BY <1>1, <1>2, <1>3, PTL DEF Spec

----------------------------------------------------------------------------
(* Both directions are conserved: each step moves units from one buffer to *)
(* the next, and their concatenation stays what the endpoint sent.         *)

LEMMA NumberedNext ==
  ASSUME NEW n \in Nat
  PROVE  /\ Numbered(n) \in Seq(Nat) /\ Append(Numbered(n), n + 1) = Numbered(n + 1)
         /\ Numbered(0) = <<>>
  BY DEF Numbered

LEMMA CatFacts ==
  /\ \A x, y \in Seq(Nat) : Cat(x, y) \in Seq(Nat)
  /\ \A x, y, z \in Seq(Nat) : Cat(Cat(x, y), z) = Cat(x, Cat(y, z))
  /\ \A x \in Seq(Nat) : Cat(x, <<>>) = x /\ Cat(<<>>, x) = x
  /\ <<>> \in Seq(Nat)
  BY CatTyped, CatJoins, CatEmpty, EmptySeq

Carried ==
    /\ TypesOf /\ CleanUp
    /\ rpc # "send" => rbuf = <<>>
    /\ RepliesConserved /\ CommandsConserved

LEMMA InitCarried == Init => Carried
<1> SUFFICES ASSUME Init PROVE Carried
  OBVIOUS
<1>1. TypesOf /\ CleanUp
  BY InitTypes, InitCleanUp
<1>2. <<>> \o <<>> = <<>> /\ FlattenSeq(<<>>) = <<>> /\ Numbered(0) = <<>>
  BY EmptySeq, ConcatEmptySeq, FlattenTyped, NumberedNext
<1>3. RepliesConserved /\ CommandsConserved
  BY <1>2 DEF Init, RepliesConserved, CommandsConserved
<1> QED
  BY <1>1, <1>3 DEF Init, Carried

LEMMA NextHands ==
  ASSUME CleanUp, rpc # "send" => rbuf = <<>>, [Next]_vars
  PROVE  (rpc # "send" => rbuf = <<>>)'
<1>1. CASE Reader
  <2>1. CASE ReaderCheck \/ ReaderEof \/ ReaderFails \/ ReaderStop
    BY <2>1 DEF ReaderCheck, ReaderEof, ReaderFails, ReaderStop, commands
  <2>2. CASE ReaderRead \/ ReaderSend
    BY <2>2 DEF ReaderRead, ReaderSend
  <2> QED
    BY <1>1, <2>1, <2>2 DEF Reader
<1>2. CASE Pump
  <2>1. UNCHANGED rbuf /\ (rpc' = rpc \/ rpc = "unborn")
    <3>1. CASE Enter \/ Spawn \/ CloneFails \/ Join \/ PumpCheck \/ PumpRead
      BY <3>1 DEF Enter, Spawn, CloneFails, Join, PumpCheck, PumpRead, commands, CleanUp
    <3>2. CASE PumpReadNothing \/ PumpReadEnd \/ PumpForward \/ PumpForwardFails
      BY <3>2 DEF PumpReadNothing, PumpReadEnd, PumpForward, PumpForwardFails, commands
    <3>3. CASE PumpRecv \/ PumpRecvNothing \/ PumpWrite \/ PumpWriteFails
      BY <3>3 DEF PumpRecv, PumpRecvNothing, PumpWrite, PumpWriteFails, commands
    <3>4. CASE PumpRestore \/ PumpClear \/ PumpShut
      BY <3>4 DEF PumpRestore, PumpClear, PumpShut, commands
    <3> QED
      BY <1>2, <3>1, <3>2, <3>3, <3>4 DEF Pump
  <2> QED
    BY <2>1
<1>3. CASE ~Pump /\ ~Reader
  <2>1. rpc' = rpc /\ rbuf' = rbuf
    BY <1>3 DEF Next, vars, control, commands, Returned, ClientSend, ClientRead,
                ClientHalfClose, ClientClose, ServerRead, ServerReply, ServerEnd
  <2> QED
    BY <2>1
<1> QED
  BY <1>1, <1>2, <1>3

LEMMA NextReplies == Carried /\ [Next]_vars => RepliesConserved'
<1> SUFFICES ASSUME Carried, [Next]_vars, client' \in {"open", "half"}
             PROVE  (Cat(Cat(Cat(cgot, p2c), pbuf), u2p) = Numbered(ssent))'
  BY DEF RepliesConserved, Cat
<1>u. /\ c2r \in Seq(Nat) /\ rbuf \in Seq(Nat) /\ pchunk \in Seq(Nat) /\ p2u \in Seq(Nat)
      /\ u2p \in Seq(Nat) /\ pbuf \in Seq(Nat) /\ p2c \in Seq(Nat)
      /\ cgot \in Seq(Nat) /\ sgot \in Seq(Nat) /\ csent \in Nat /\ ssent \in Nat
  BY DEF Carried, TypesOf
<1> USE DEF Carried, TypesOf
<1>1. client \in {"open", "half"}
  BY DEF Next, vars, control, commands, replies, ends, Returned, Pump, Reader,
       Enter, Spawn, CloneFails, Join, PumpCheck, PumpRead, PumpReadNothing, PumpReadEnd,
       PumpForward, PumpForwardFails, PumpRecv, PumpRecvNothing, PumpWrite, PumpWriteFails,
       PumpRestore, PumpClear, PumpShut, ReaderCheck, ReaderRead, ReaderEof, ReaderFails,
       ReaderSend, ReaderStop, ClientSend, ClientRead, ClientHalfClose,
       ClientClose, ServerRead, ServerReply, ServerEnd
<1>2. Cat(Cat(Cat(cgot, p2c), pbuf), u2p) = Numbered(ssent)
  BY <1>1 DEF RepliesConserved, Cat
<1>3. Cat(cgot, p2c) \in Seq(Nat) /\ Cat(Cat(cgot, p2c), pbuf) \in Seq(Nat)
  <2> HIDE DEF Carried, TypesOf
  <2> QED
    BY <1>u, CatFacts
<1>4. CASE UNCHANGED <<cgot, replies, ssent>>
  BY <1>2, <1>4 DEF replies
<1>5. CASE PumpRead
  <2>1. PICK n \in Readable(u2p) : pbuf' = SubSeq(u2p, 1, n) /\ u2p' = Rest(u2p, n)
    BY <1>5 DEF PumpRead
  <2>2. PICK h \in Seq(Nat), t \in Seq(Nat) : pbuf' = h /\ u2p' = t /\ u2p = Cat(h, t)
    BY <2>1, ReadTakes, Split
  <2>3. pbuf = <<>> /\ UNCHANGED <<cgot, p2c, ssent>>
    BY <1>5 DEF PumpRead, CleanUp, ends
  <2>4. Cat(Cat(Cat(cgot, p2c), <<>>), Cat(h, t)) = Cat(Cat(Cat(cgot, p2c), h), t)
    <3> HIDE DEF Carried, TypesOf
    <3> QED
      BY <1>3, Filled
  <2> QED
    BY <1>2, <2>2, <2>3, <2>4
<1>6. CASE PumpForward
  <2>1. PICK n \in 0..Len(pbuf) :
           p2c' = Cat(p2c, SubSeq(pbuf, 1, n)) /\ pbuf' = Rest(pbuf, n)
    BY <1>6, WriteFits DEF PumpForward, Cat
  <2>2. PICK h \in Seq(Nat), t \in Seq(Nat) : p2c' = Cat(p2c, h) /\ pbuf' = t /\ pbuf = Cat(h, t)
    BY <2>1, Split
  <2>3. UNCHANGED <<cgot, u2p, ssent>>
    BY <1>6 DEF PumpForward, ends
  <2>4. Cat(Cat(cgot, Cat(p2c, h)), t) = Cat(Cat(cgot, p2c), Cat(h, t))
    <3> HIDE DEF Carried, TypesOf
    <3> QED
      BY <1>u, CatFacts
  <2> QED
    BY <1>2, <2>2, <2>3, <2>4
<1>7. CASE PumpForwardFails
  BY <1>1, <1>7 DEF PumpForwardFails
<1>8. CASE ClientRead
  <2>1. /\ UNCHANGED <<pbuf, u2p, ssent>>
        /\ p2c # <<>> /\ cgot' = Append(cgot, Head(p2c)) /\ p2c' = Tail(p2c)
    BY <1>8 DEF ClientRead
  <2>2. Cat(cgot', p2c') = Cat(cgot, p2c)
    <3> HIDE DEF Carried, TypesOf
    <3> QED
      BY <1>u, <2>1, Received
  <2> QED
    BY <1>2, <2>1, <2>2
<1>9. CASE ServerReply
  <2>1. /\ UNCHANGED <<cgot, p2c, pbuf>>
        /\ u2p' = Append(u2p, ssent + 1) /\ ssent' = ssent + 1
    BY <1>9 DEF ServerReply
  <2>2. Cat(Cat(Cat(cgot, p2c), pbuf), Append(u2p, ssent + 1))
           = Append(Cat(Cat(Cat(cgot, p2c), pbuf), u2p), ssent + 1)
    <3>1. PICK x \in Seq(Nat) : x = Cat(Cat(cgot, p2c), pbuf)
      BY <1>3
    <3>2. PICK n \in Nat : n = ssent + 1
      OBVIOUS
    <3>3. Cat(x, Append(u2p, n)) = Append(Cat(x, u2p), n)
      <4> HIDE DEF Carried, TypesOf
      <4> QED
        BY <1>u, Grown
    <3> QED
      BY <3>1, <3>2, <3>3
  <2> QED
    BY <1>2, <2>1, <2>2, NumberedNext
<1>10. CASE ~(PumpRead \/ PumpForward \/ PumpForwardFails \/ ClientRead \/ ServerReply)
  BY <1>4, <1>10 DEF Next, vars, control, commands, replies, ends, Returned, Pump, Reader,
       Enter, Spawn, CloneFails, Join, PumpCheck, PumpReadNothing, PumpReadEnd,
       PumpRecv, PumpRecvNothing, PumpWrite, PumpWriteFails, PumpRestore, PumpClear,
       PumpShut, ReaderCheck, ReaderRead, ReaderEof, ReaderFails, ReaderSend, ReaderStop,
       ClientSend, ClientHalfClose, ClientClose, ServerRead, ServerEnd
<1> QED
  BY <1>5, <1>6, <1>7, <1>8, <1>9, <1>10

LEMMA NextCommands == Carried /\ [Next]_vars => CommandsConserved'
<1> SUFFICES ASSUME Carried, [Next]_vars, InLoop', server' = "up"
             PROVE  (Cat(Cat(Cat(Cat(Cat(sgot, p2u), pchunk), FlattenSeq(chan)), rbuf), c2r)
                        = Numbered(csent))'
  BY DEF CommandsConserved, Cat
<1>u. /\ c2r \in Seq(Nat) /\ rbuf \in Seq(Nat) /\ pchunk \in Seq(Nat) /\ p2u \in Seq(Nat)
      /\ u2p \in Seq(Nat) /\ pbuf \in Seq(Nat) /\ p2c \in Seq(Nat)
      /\ cgot \in Seq(Nat) /\ sgot \in Seq(Nat) /\ csent \in Nat /\ ssent \in Nat
  BY DEF Carried, TypesOf
<1> USE DEF Carried, TypesOf
<1>1. InLoop /\ server = "up"
  <2>1. CASE Pump
    <3>1. CASE Enter \/ Spawn \/ CloneFails \/ Join \/ PumpCheck \/ PumpRead
      BY <3>1 DEF Enter, Spawn, CloneFails, Join, PumpCheck, PumpRead, InLoop, ends
    <3>2. CASE PumpReadNothing \/ PumpReadEnd \/ PumpForward \/ PumpForwardFails
      BY <3>2 DEF PumpReadNothing, PumpReadEnd, PumpForward, PumpForwardFails, InLoop, ends
    <3>3. CASE PumpRecv \/ PumpRecvNothing \/ PumpWrite \/ PumpWriteFails
      BY <3>3 DEF PumpRecv, PumpRecvNothing, PumpWrite, PumpWriteFails, InLoop, ends
    <3>4. CASE PumpRestore \/ PumpClear \/ PumpShut
      BY <3>4 DEF PumpRestore, PumpClear, PumpShut, InLoop, ends
    <3> QED
      BY <2>1, <3>1, <3>2, <3>3, <3>4 DEF Pump
  <2>2. CASE Reader
    BY <2>2 DEF Reader, ReaderCheck, ReaderRead, ReaderEof, ReaderFails, ReaderSend,
                ReaderStop, InLoop, ends
  <2>3. CASE ~Pump /\ ~Reader
    BY <2>3 DEF Next, vars, control, ends, Returned, ClientSend, ClientRead, InLoop,
                ClientHalfClose, ClientClose, ServerRead, ServerReply, ServerEnd
  <2> QED
    BY <2>1, <2>2, <2>3
<1>2. PICK w \in Seq(Nat) : w = FlattenSeq(chan)
  BY FlattenTyped
<1>3. Cat(Cat(Cat(Cat(Cat(sgot, p2u), pchunk), w), rbuf), c2r) = Numbered(csent)
  BY <1>1, <1>2 DEF CommandsConserved, Cat
<1>4. /\ Cat(sgot, p2u) \in Seq(Nat) /\ Cat(Cat(sgot, p2u), pchunk) \in Seq(Nat)
      /\ Cat(Cat(Cat(sgot, p2u), pchunk), w) \in Seq(Nat)
      /\ Cat(Cat(Cat(Cat(sgot, p2u), pchunk), w), rbuf) \in Seq(Nat)
  <2> HIDE DEF Carried, TypesOf
  <2> QED
    BY <1>u, CatFacts
<1>5. CASE UNCHANGED <<commands, sgot, csent>>
  BY <1>2, <1>3, <1>5 DEF commands
<1>6. CASE ReaderRead
  <2>1. PICK n \in Readable(c2r) : rbuf' = SubSeq(c2r, 1, n) /\ c2r' = Rest(c2r, n)
    BY <1>6 DEF ReaderRead
  <2>2. PICK h \in Seq(Nat), t \in Seq(Nat) : rbuf' = h /\ c2r' = t /\ c2r = Cat(h, t)
    BY <2>1, ReadTakes, Split
  <2>3. rbuf = <<>> /\ UNCHANGED <<chan, pchunk, p2u, sgot, csent>>
    BY <1>6 DEF ReaderRead, ends
  <2>4. \A x \in Seq(Nat) : Cat(Cat(x, <<>>), Cat(h, t)) = Cat(Cat(x, h), t)
    <3> HIDE DEF Carried, TypesOf
    <3> QED
      BY Filled
  <2> QED
    BY <1>2, <1>3, <1>4, <2>2, <2>3, <2>4
<1>7. CASE ReaderSend
  <2>1. /\ UNCHANGED <<c2r, pchunk, p2u, sgot, csent>> /\ rbuf' = <<>>
        /\ chan' = Append(chan, rbuf)
    BY <1>1, <1>7 DEF ReaderSend, ReceiverGone, InLoop, ends
  <2>2. FlattenSeq(chan') = Cat(w, rbuf)
    BY <1>2, <2>1, FlattenAppend
  <2>3. \A x \in Seq(Nat) : Cat(Cat(x, Cat(w, rbuf)), <<>>) = Cat(Cat(x, w), rbuf)
    <3> HIDE DEF Carried, TypesOf
    <3> QED
      BY <1>u, CatFacts
  <2> QED
    BY <1>3, <1>4, <2>1, <2>2, <2>3
<1>8. CASE PumpRecv
  <2>1. /\ chan # <<>> /\ pchunk = <<>> /\ pchunk' = Head(chan) /\ chan' = Tail(chan)
        /\ UNCHANGED <<c2r, rbuf, p2u, sgot, csent>>
    BY <1>8 DEF PumpRecv, CleanUp, ends
  <2>2. PICK h \in Seq(Nat), t \in Seq(Nat) : h = Head(chan) /\ t = FlattenSeq(Tail(chan))
    BY <2>1, HeadTailProperties, FlattenTyped
  <2>3. w = Cat(h, t)
    BY <1>2, <2>1, <2>2, FlattenHead
  <2>4. \A x \in Seq(Nat) : Cat(Cat(x, <<>>), Cat(h, t)) = Cat(Cat(x, h), t)
    <3> HIDE DEF Carried, TypesOf
    <3> QED
      BY Filled
  <2> QED
    BY <1>3, <1>4, <2>1, <2>2, <2>3, <2>4
<1>9. CASE PumpWrite
  <2>1. PICK n \in 0..Len(pchunk) :
           p2u' = Cat(p2u, SubSeq(pchunk, 1, n)) /\ pchunk' = Rest(pchunk, n)
    BY <1>9, WriteFits DEF PumpWrite, Cat
  <2>2. PICK h \in Seq(Nat), t \in Seq(Nat) : p2u' = Cat(p2u, h) /\ pchunk' = t /\ pchunk = Cat(h, t)
    BY <2>1, Split
  <2>3. UNCHANGED <<c2r, rbuf, chan, sgot, csent>>
    BY <1>9 DEF PumpWrite, ends
  <2>4. Cat(Cat(sgot, Cat(p2u, h)), t) = Cat(Cat(sgot, p2u), Cat(h, t))
    <3> HIDE DEF Carried, TypesOf
    <3> QED
      BY <1>u, CatFacts
  <2> QED
    BY <1>2, <1>3, <2>2, <2>3, <2>4
<1>10. CASE ClientSend
  <2>1. /\ UNCHANGED <<rbuf, chan, pchunk, p2u, sgot>>
        /\ c2r' = Append(c2r, csent + 1) /\ csent' = csent + 1
    BY <1>10 DEF ClientSend
  <2>2. PICK x \in Seq(Nat) : x = Cat(Cat(Cat(Cat(sgot, p2u), pchunk), w), rbuf)
    BY <1>4
  <2>3. PICK n \in Nat : n = csent + 1
    OBVIOUS
  <2>4. Cat(x, Append(c2r, n)) = Append(Cat(x, c2r), n)
    <3> HIDE DEF Carried, TypesOf
    <3> QED
      BY <1>u, Grown
  <2> QED
    BY <1>2, <1>3, <2>1, <2>2, <2>3, <2>4, NumberedNext
<1>11. CASE ServerRead
  <2>1. /\ UNCHANGED <<c2r, rbuf, chan, pchunk, csent>>
        /\ p2u # <<>> /\ sgot' = Append(sgot, Head(p2u)) /\ p2u' = Tail(p2u)
    BY <1>11 DEF ServerRead
  <2>2. Cat(sgot', p2u') = Cat(sgot, p2u)
    <3> HIDE DEF Carried, TypesOf
    <3> QED
      BY <1>u, <2>1, Received
  <2> QED
    BY <1>2, <1>3, <2>1, <2>2
<1>12. CASE PumpWriteFails
  BY <1>1, <1>12 DEF PumpWriteFails
<1>13. CASE ~(ReaderRead \/ ReaderSend \/ PumpRecv \/ PumpWrite \/ PumpWriteFails
               \/ ClientSend \/ ServerRead)
  BY <1>5, <1>13 DEF Next, vars, control, commands, replies, ends, Returned, Pump, Reader,
       Enter, Spawn, CloneFails, Join, PumpCheck, PumpRead, PumpReadNothing, PumpReadEnd,
       PumpForward, PumpForwardFails, PumpRecvNothing, PumpRestore, PumpClear,
       PumpShut, ReaderCheck, ReaderEof, ReaderFails, ReaderStop,
       ClientRead, ClientHalfClose, ClientClose, ServerReply, ServerEnd
<1> QED
  BY <1>6, <1>7, <1>8, <1>9, <1>10, <1>11, <1>12, <1>13

LEMMA NextCarried == Carried /\ [Next]_vars => Carried'
  BY NextTypes, NextCleanUp, NextHands, NextReplies, NextCommands DEF Carried

LEMMA CarriedAlways == Spec => []Carried
  BY InitCarried, NextCarried, PTL DEF Spec

(* No partial write, hand-over or interleaving of the two threads loses,   *)
(* repeats or reorders a command the client sent.                          *)
THEOREM NoCommandLost == Spec => []CommandsConserved
<1>1. Carried => CommandsConserved
  BY DEF Carried
<1> QED
  BY <1>1, CarriedAlways, PTL

(* Nor a reply, whatever ends the relay, while the client keeps its socket.*)
THEOREM NoReplyLost == Spec => []RepliesConserved
<1>1. Carried => RepliesConserved
  BY DEF Carried
<1> QED
  BY <1>1, CarriedAlways, PTL

----------------------------------------------------------------------------
(* The two threads and their channel implement the relay of two pipes.     *)
UpTail == IF InLoop THEN Cat(Cat(Cat(pchunk, FlattenSeq(chan)), rbuf), c2r) ELSE <<>>
DownTail == IF InLoop THEN Cat(pbuf, u2p) ELSE <<>>

LEMMA PipesAre ==
  /\ ToUpstream = Cat(p2u, UpTail) /\ ToUpstream' = Cat(p2u', UpTail')
  /\ ToClient = Cat(p2c, DownTail) /\ ToClient' = Cat(p2c', DownTail')
<1>1. ToUpstream = Cat(p2u, UpTail) /\ ToUpstream' = Cat(p2u', UpTail')
  BY DEF ToUpstream, UpTail, Cat
<1>2. ToClient = Cat(p2c, DownTail) /\ ToClient' = Cat(p2c', DownTail')
  BY DEF ToClient, DownTail, Cat
<1> QED
  BY <1>1, <1>2

LEMMA TailsTyped == TypesOf => UpTail \in Seq(Nat) /\ DownTail \in Seq(Nat)
<1> SUFFICES ASSUME TypesOf PROVE UpTail \in Seq(Nat) /\ DownTail \in Seq(Nat)
  OBVIOUS
<1>1. PICK w \in Seq(Nat) : w = FlattenSeq(chan)
  BY FlattenTyped DEF TypesOf
<1> QED
  BY <1>1, CatFacts DEF TypesOf, UpTail, DownTail

LEMMA PipesTyped == TypesOf => ToUpstream \in Seq(Nat) /\ ToClient \in Seq(Nat)
<1> SUFFICES ASSUME TypesOf PROVE ToUpstream \in Seq(Nat) /\ ToClient \in Seq(Nat)
  OBVIOUS
<1> QED
  BY TailsTyped, PipesAre, CatTyped DEF TypesOf

LEMMA OneMore ==
  \A s \in Seq(Nat), n \in Nat : Append(s, n) # <<>> /\ R!Front(Append(s, n)) = s
<1> SUFFICES ASSUME NEW s \in Seq(Nat), NEW n \in Nat
             PROVE  Append(s, n) # <<>> /\ R!Front(Append(s, n)) = s
  OBVIOUS
<1> QED
  BY AppendProperties, LenProperties DEF R!Front

\* What waits in a socket is the first part of its pipe.
LEMMA FirstOfPipe ==
  ASSUME NEW x \in Seq(Nat), NEW y \in Seq(Nat)
  PROVE  /\ \E n \in 0..Len(Cat(x, y)) : x = SubSeq(Cat(x, y), 1, n)
         /\ x # <<>> => /\ Cat(x, y) # <<>> /\ Head(Cat(x, y)) = Head(x)
                        /\ Tail(Cat(x, y)) = Cat(Tail(x), y)
<1>1. /\ x \o y \in Seq(Nat) /\ Len(x) \in Nat /\ Len(y) \in Nat
      /\ Len(x \o y) = Len(x) + Len(y)
      /\ \A i \in 1..(Len(x) + Len(y)) :
            (x \o y)[i] = IF i <= Len(x) THEN x[i] ELSE y[i - Len(x)]
  BY ConcatProperties, LenProperties
<1>2. x = SubSeq(x \o y, 1, Len(x)) /\ Len(x) \in 0..Len(x \o y)
  BY <1>1
<1>3. ASSUME x # <<>>
      PROVE  x \o y # <<>> /\ Head(x \o y) = Head(x) /\ Tail(x \o y) = Tail(x) \o y
  BY <1>1, <1>3
<1> QED
  BY <1>2, <1>3 DEF Cat

\* The relay stands still.
Rests ==
    /\ UNCHANGED <<ToUpstream, ToClient, sgot, cgot>>
    /\ Phase' = Phase /\ Ended' = Ended

LEMMA PhaseIs ==
  /\ (InLoop <=> Phase # "down") /\ (InLoop' <=> Phase' # "down")
  /\ InLoop \in BOOLEAN /\ InLoop' \in BOOLEAN
  BY DEF Phase, InLoop

LEMMA EndpointSteps ==
  ASSUME Carried,
         \/ ClientSend \/ ClientRead \/ ClientHalfClose \/ ClientClose
         \/ ServerRead \/ ServerReply \/ ServerEnd
  PROVE  R!Next \/ Rests
<1>u. /\ c2r \in Seq(Nat) /\ rbuf \in Seq(Nat) /\ pchunk \in Seq(Nat) /\ p2u \in Seq(Nat)
      /\ u2p \in Seq(Nat) /\ pbuf \in Seq(Nat) /\ p2c \in Seq(Nat)
      /\ cgot \in Seq(Nat) /\ sgot \in Seq(Nat) /\ csent \in Nat /\ ssent \in Nat
  BY DEF Carried, TypesOf
<1> USE DEF Carried, TypesOf
<1>0. /\ InLoop' = InLoop /\ Phase' = Phase /\ (InLoop => Phase # "down")
      /\ UpTail \in Seq(Nat) /\ DownTail \in Seq(Nat)
  BY TailsTyped, PhaseIs DEF Phase, ClientSend, ClientRead, ClientHalfClose, ClientClose, ServerRead,
                    ServerReply, ServerEnd, InLoop, control
<1>1. CASE ClientSend
  <2>1. /\ UNCHANGED <<rbuf, chan, pchunk, p2u, sgot, cgot, client, server, u2p, pbuf, p2c>>
        /\ c2r' = Append(c2r, csent + 1)
    BY <1>1 DEF ClientSend, replies
  <2>2. ToClient' = ToClient /\ Ended' = Ended
    BY <1>0, <2>1, PipesAre DEF DownTail, Ended
  <2>3. CASE ~InLoop
    BY <1>0, <2>1, <2>2, <2>3, PipesAre DEF UpTail, Rests
  <2>4. CASE InLoop
    <3>1. PICK w \in Seq(Nat), n \in Nat : w = FlattenSeq(chan) /\ n = csent + 1
      BY FlattenTyped
    <3>2. PICK x \in Seq(Nat) : x = Cat(Cat(pchunk, w), rbuf)
      <4> HIDE DEF Carried, TypesOf
      <4> QED
        BY <1>u, CatFacts
    <3>3. Cat(x, Append(c2r, n)) = Append(Cat(x, c2r), n)
      <4> HIDE DEF Carried, TypesOf
      <4>1. PICK y \in Seq(Nat) : y = c2r
        BY <1>u
      <4>2. Cat(x, Append(y, n)) = Append(Cat(x, y), n)
        BY Grown
      <4> QED
        BY <4>1, <4>2
    <3>4. UpTail' = Append(UpTail, n)
      BY <1>0, <2>1, <2>4, <3>1, <3>2, <3>3 DEF UpTail
    <3>5. Cat(p2u, Append(UpTail, n)) = Append(Cat(p2u, UpTail), n)
      <4>1. PICK v \in Seq(Nat), y \in Seq(Nat) : v = p2u /\ y = UpTail
        BY <1>0
      <4>2. Cat(v, Append(y, n)) = Append(Cat(v, y), n)
        <5> HIDE DEF Carried, TypesOf
        <5> QED
          BY Grown
      <4> QED
        BY <4>1, <4>2
    <3>6. ToUpstream' = Append(ToUpstream, n)
      BY <2>1, <3>4, <3>5, PipesAre
    <3>7. R!ClientSends
      BY <1>0, <2>1, <2>2, <2>4, <3>6, PipesTyped, OneMore DEF R!ClientSends
    <3> QED
      BY <3>7 DEF R!Next
  <2> QED
    BY <2>3, <2>4
<1>2. CASE ServerReply
  <2>1. /\ UNCHANGED <<rbuf, chan, pchunk, p2u, c2r, sgot, cgot, client, server, pbuf, p2c>>
        /\ u2p' = Append(u2p, ssent + 1)
    BY <1>2 DEF ServerReply, commands
  <2>2. ToUpstream' = ToUpstream /\ Ended' = Ended
    BY <1>0, <2>1, PipesAre DEF UpTail, Ended
  <2>3. CASE ~InLoop
    BY <1>0, <2>1, <2>2, <2>3, PipesAre DEF DownTail, Rests
  <2>4. CASE InLoop
    <3>1. PICK n \in Nat : n = ssent + 1
      OBVIOUS
    <3>2. Cat(pbuf, Append(u2p, n)) = Append(Cat(pbuf, u2p), n)
      <4> HIDE DEF Carried, TypesOf
      <4>1. PICK x \in Seq(Nat), y \in Seq(Nat) : x = pbuf /\ y = u2p
        BY <1>u
      <4>2. Cat(x, Append(y, n)) = Append(Cat(x, y), n)
        BY Grown
      <4> QED
        BY <4>1, <4>2
    <3>3. DownTail' = Append(DownTail, n)
      BY <1>0, <2>1, <2>4, <3>1, <3>2 DEF DownTail
    <3>4. Cat(p2c, Append(DownTail, n)) = Append(Cat(p2c, DownTail), n)
      <4>1. PICK x \in Seq(Nat), y \in Seq(Nat) : x = p2c /\ y = DownTail
        BY <1>0
      <4>2. Cat(x, Append(y, n)) = Append(Cat(x, y), n)
        <5> HIDE DEF Carried, TypesOf
        <5> QED
          BY Grown
      <4> QED
        BY <4>1, <4>2
    <3>5. ToClient' = Append(ToClient, n)
      BY <2>1, <3>3, <3>4, PipesAre
    <3>6. R!UpstreamSends
      BY <1>0, <2>1, <2>2, <2>4, <3>5, PipesTyped, OneMore DEF R!UpstreamSends
    <3> QED
      BY <3>6 DEF R!Next
  <2> QED
    BY <2>3, <2>4
<1>3. CASE ClientRead
  <2>1. /\ UNCHANGED <<rbuf, chan, pchunk, p2u, c2r, sgot, client, server, pbuf, u2p>>
        /\ p2c # <<>> /\ cgot' = Append(cgot, Head(p2c)) /\ p2c' = Tail(p2c)
    BY <1>3 DEF ClientRead, commands
  <2>2. ToUpstream' = ToUpstream /\ Ended' = Ended /\ DownTail' = DownTail
    BY <1>0, <2>1, PipesAre DEF UpTail, DownTail, Ended
  <2>3. /\ ToClient # <<>> /\ ToClient' = Tail(ToClient)
        /\ cgot' = Append(cgot, Head(ToClient))
    <3> HIDE DEF Carried, TypesOf
    <3> QED
      BY <1>u, <1>0, <2>1, <2>2, PipesAre, FirstOfPipe
  <2>4. R!ClientGets
    BY <1>0, <2>1, <2>2, <2>3 DEF R!ClientGets
  <2> QED
    BY <2>4 DEF R!Next
<1>4. CASE ServerRead
  <2>1. /\ UNCHANGED <<rbuf, chan, pchunk, c2r, cgot, client, server, pbuf, u2p, p2c>>
        /\ p2u # <<>> /\ sgot' = Append(sgot, Head(p2u)) /\ p2u' = Tail(p2u)
    BY <1>4 DEF ServerRead, replies
  <2>2. ToClient' = ToClient /\ Ended' = Ended /\ UpTail' = UpTail
    BY <1>0, <2>1, PipesAre DEF UpTail, DownTail, Ended
  <2>3. /\ ToUpstream # <<>> /\ ToUpstream' = Tail(ToUpstream)
        /\ sgot' = Append(sgot, Head(ToUpstream))
    <3> HIDE DEF Carried, TypesOf
    <3> QED
      BY <1>u, <1>0, <2>1, <2>2, PipesAre, FirstOfPipe
  <2>4. R!UpstreamGets
    BY <1>0, <2>1, <2>2, <2>3 DEF R!UpstreamGets
  <2> QED
    BY <2>4 DEF R!Next
<1>5. CASE ClientHalfClose \/ ClientClose \/ ServerEnd
  <2>1. UNCHANGED <<commands, replies, sgot, cgot>> /\ Ended'
    BY <1>5 DEF ClientHalfClose, ClientClose, ServerEnd, Ended
  <2>2. ToUpstream' = ToUpstream /\ ToClient' = ToClient
    BY <1>0, <2>1, PipesAre DEF UpTail, DownTail, commands, replies
  <2>3. R!HangUp
    BY <1>0, <2>1, <2>2 DEF R!HangUp
  <2> QED
    BY <2>3 DEF R!Next
<1> QED
  BY <1>1, <1>2, <1>3, <1>4, <1>5

\* What the threads hold is cut off when the pump leaves its loop.
LEMMA CutsOff ==
  ASSUME Carried, UNCHANGED <<p2u, p2c, sgot, cgot, Ended>>, ~InLoop'
  PROVE  R!CutOff
<1>1. UpTail \in Seq(Nat) /\ DownTail \in Seq(Nat) /\ UpTail' = <<>> /\ DownTail' = <<>>
  BY TailsTyped DEF UpTail, DownTail, Carried
<1>2. PICK x \in Seq(Nat), y \in Seq(Nat), u \in Seq(Nat), c \in Seq(Nat) :
         x = UpTail /\ y = DownTail /\ u = p2u /\ c = p2c
  BY <1>1 DEF Carried, TypesOf
<1>3. ToUpstream' = u /\ ToClient' = c
  BY <1>1, <1>2, PipesAre, CatFacts
<1>4. \E n \in 0..Len(Cat(u, x)) : u = SubSeq(Cat(u, x), 1, n)
  BY FirstOfPipe
<1>5. \E n \in 0..Len(Cat(c, y)) : c = SubSeq(Cat(c, y), 1, n)
  BY FirstOfPipe
<1> QED
  BY <1>2, <1>3, <1>4, <1>5, PipesAre DEF R!CutOff

\* The pump leaves its loop only once an endpoint has hung up.
LEMMA LeavingSteps ==
  ASSUME Carried, BothAtWork, Pump, Phase = "up", Phase' = "down"
  PROVE  R!End
<1>0. InLoop /\ ~InLoop' /\ ppc \notin {"enter", "clone"}
  BY PhaseIs DEF Phase
<1> USE DEF Carried, TypesOf
<1>1. /\ PumpCheck \/ PumpReadEnd \/ PumpForwardFails \/ PumpRecvNothing \/ PumpWriteFails
      /\ ppc' = "restore"
  <2>1. CASE Enter \/ Spawn \/ CloneFails \/ Join \/ PumpCheck \/ PumpRead
    BY <1>0, <2>1 DEF Enter, Spawn, CloneFails, Join, PumpCheck, PumpRead, InLoop
  <2>2. CASE PumpReadNothing \/ PumpReadEnd \/ PumpForward \/ PumpForwardFails
    BY <1>0, <2>2 DEF PumpReadNothing, PumpReadEnd, PumpForward, PumpForwardFails, InLoop
  <2>3. CASE PumpRecv \/ PumpRecvNothing \/ PumpWrite \/ PumpWriteFails
    BY <1>0, <2>3 DEF PumpRecv, PumpRecvNothing, PumpWrite, PumpWriteFails, InLoop
  <2>4. CASE PumpRestore \/ PumpClear \/ PumpShut
    BY <1>0, <2>4 DEF PumpRestore, PumpClear, PumpShut, InLoop
  <2> QED
    BY <2>1, <2>2, <2>3, <2>4 DEF Pump
<1>2. UNCHANGED <<p2u, p2c, ends>>
  BY <1>1 DEF PumpCheck, PumpReadEnd, PumpForwardFails, PumpRecvNothing, PumpWriteFails,
              commands, replies
<1>3. Ended
  <2>1. CASE PumpCheck \/ PumpRecvNothing
    BY <1>1, <2>1 DEF PumpCheck, PumpRecvNothing, SenderGone, BothAtWork, NoSpuriousEnd,
                      Ended, Stages
  <2>2. CASE PumpReadEnd \/ PumpForwardFails \/ PumpWriteFails
    BY <2>2 DEF PumpReadEnd, PumpForwardFails, PumpWriteFails, Ended
  <2> QED
    BY <1>1, <2>1, <2>2
<1>4. UNCHANGED <<sgot, cgot, Ended>>
  BY <1>2 DEF ends, Ended
<1>5. R!CutOff
  BY <1>0, <1>2, <1>4, CutsOff
<1> QED
  BY <1>3, <1>5 DEF R!End

\* Before it starts, it may be refused.
LEMMA SetUpSteps ==
  ASSUME Carried, Spawn \/ CloneFails
  PROVE  R!Opens \/ R!Refuses
<1>1. UNCHANGED <<commands, replies, ends>>
  BY DEF Spawn, CloneFails
<1>2. UNCHANGED <<p2u, p2c, sgot, cgot, Ended>>
  BY <1>1 DEF commands, replies, ends, Ended
<1>3. CASE Spawn
  <2>1. Phase = "opening" /\ Phase' = "up" /\ InLoop' = InLoop
    BY <1>3 DEF Spawn, Phase, InLoop
  <2>2. UNCHANGED <<ToUpstream, ToClient>>
    BY <1>1, <2>1, PipesAre DEF commands, replies, UpTail, DownTail
  <2> QED
    BY <1>2, <2>1, <2>2 DEF R!Opens
<1>4. CASE CloneFails
  <2>1. Phase = "opening" /\ Phase' = "down" /\ ~InLoop'
    BY <1>4 DEF CloneFails, Phase, InLoop
  <2>2. R!CutOff
    BY <1>2, <2>1, CutsOff
  <2> QED
    BY <2>1, <2>2 DEF R!Refuses
<1> QED
  BY <1>3, <1>4

\* Inside the loop the threads pass units on, and no pipe changes.
LEMMA PassingSteps ==
  ASSUME Carried, Pump \/ Reader, Phase' = Phase, InLoop' = InLoop
  PROVE  Rests
<1>u. /\ c2r \in Seq(Nat) /\ rbuf \in Seq(Nat) /\ pchunk \in Seq(Nat) /\ p2u \in Seq(Nat)
      /\ u2p \in Seq(Nat) /\ pbuf \in Seq(Nat) /\ p2c \in Seq(Nat)
      /\ cgot \in Seq(Nat) /\ sgot \in Seq(Nat) /\ csent \in Nat /\ ssent \in Nat
  BY DEF Carried, TypesOf
<1> USE DEF Carried, TypesOf
<1>1. UNCHANGED ends
  <2>1. CASE Enter \/ Spawn \/ CloneFails \/ Join \/ PumpCheck \/ PumpRead
    BY <2>1 DEF Enter, Spawn, CloneFails, Join, PumpCheck, PumpRead
  <2>2. CASE PumpReadNothing \/ PumpReadEnd \/ PumpForward \/ PumpForwardFails
    BY <2>2 DEF PumpReadNothing, PumpReadEnd, PumpForward, PumpForwardFails
  <2>3. CASE PumpRecv \/ PumpRecvNothing \/ PumpWrite \/ PumpWriteFails
    BY <2>3 DEF PumpRecv, PumpRecvNothing, PumpWrite, PumpWriteFails
  <2>4. CASE PumpRestore \/ PumpClear \/ PumpShut
    BY <2>4 DEF PumpRestore, PumpClear, PumpShut
  <2>5. CASE Reader
    BY <2>5 DEF Reader, ReaderCheck, ReaderRead, ReaderEof, ReaderFails, ReaderSend,
                ReaderStop
  <2> QED
    BY <2>1, <2>2, <2>3, <2>4, <2>5 DEF Pump
<1>2. UNCHANGED <<sgot, cgot, Ended>>
  BY <1>1 DEF ends, Ended
<1>3. PICK w \in Seq(Nat) : w = FlattenSeq(chan)
  BY FlattenTyped
<1>4. CASE UNCHANGED <<commands, replies>>
  BY <1>2, <1>4, PipesAre DEF commands, replies, UpTail, DownTail, Rests
<1>5. CASE PumpRead
  <2>1. PICK n \in Readable(u2p) : pbuf' = SubSeq(u2p, 1, n) /\ u2p' = Rest(u2p, n)
    BY <1>5 DEF PumpRead
  <2>2. PICK h \in Seq(Nat), t \in Seq(Nat) : pbuf' = h /\ u2p' = t /\ u2p = Cat(h, t)
    BY <2>1, ReadTakes, Split
  <2>3. pbuf = <<>> /\ UNCHANGED <<commands, p2c>>
    BY <1>5 DEF PumpRead, CleanUp
  <2>4. Cat(<<>>, Cat(h, t)) = Cat(h, t)
    <3> HIDE DEF Carried, TypesOf
    <3> QED
      BY CatTyped, CatEmpty
  <2>5. DownTail' = DownTail /\ UpTail' = UpTail
    BY <2>2, <2>3, <2>4 DEF DownTail, UpTail, commands
  <2> QED
    BY <1>2, <2>3, <2>5, PipesAre DEF Rests, commands
<1>6. CASE PumpForward
  <2>1. PICK n \in 0..Len(pbuf) :
           p2c' = Cat(p2c, SubSeq(pbuf, 1, n)) /\ pbuf' = Rest(pbuf, n)
    BY <1>6, WriteFits DEF PumpForward, Cat
  <2>2. PICK h \in Seq(Nat), t \in Seq(Nat) : p2c' = Cat(p2c, h) /\ pbuf' = t /\ pbuf = Cat(h, t)
    BY <2>1, Split
  <2>3. InLoop /\ UNCHANGED <<commands, u2p>>
    BY <1>6 DEF PumpForward, InLoop
  <2>4. Cat(Cat(p2c, h), Cat(t, u2p)) = Cat(p2c, Cat(Cat(h, t), u2p))
    <3> HIDE DEF Carried, TypesOf
    <3> QED
      BY <1>u, Passed
  <2>5. UpTail' = UpTail /\ DownTail = Cat(Cat(h, t), u2p) /\ DownTail' = Cat(t, u2p)
    BY <2>2, <2>3 DEF DownTail, UpTail, commands
  <2> QED
    BY <1>2, <2>2, <2>3, <2>4, <2>5, PipesAre DEF Rests, commands
<1>7. CASE PumpForwardFails \/ PumpWriteFails
  BY <1>7 DEF PumpForwardFails, PumpWriteFails, InLoop
<1>8. CASE PumpRecv
  <2>1. /\ chan # <<>> /\ pchunk = <<>> /\ pchunk' = Head(chan) /\ chan' = Tail(chan)
        /\ UNCHANGED <<c2r, rbuf, p2u, replies>>
    BY <1>8 DEF PumpRecv, CleanUp
  <2>2. PICK h \in Seq(Nat), t \in Seq(Nat) : h = Head(chan) /\ t = FlattenSeq(Tail(chan))
    BY <2>1, HeadTailProperties, FlattenTyped
  <2>3. w = Cat(h, t)
    BY <1>3, <2>1, <2>2, FlattenHead
  <2>4. Cat(<<>>, Cat(h, t)) = Cat(h, t)
    <3> HIDE DEF Carried, TypesOf
    <3> QED
      BY CatTyped, CatEmpty
  <2>5. DownTail' = DownTail /\ UpTail' = UpTail
    BY <1>3, <2>1, <2>2, <2>3, <2>4 DEF DownTail, UpTail, replies
  <2> QED
    BY <1>2, <2>1, <2>5, PipesAre DEF Rests, replies
<1>9. CASE PumpWrite
  <2>1. PICK n \in 0..Len(pchunk) :
           p2u' = Cat(p2u, SubSeq(pchunk, 1, n)) /\ pchunk' = Rest(pchunk, n)
    BY <1>9, WriteFits DEF PumpWrite, Cat
  <2>2. PICK h \in Seq(Nat), t \in Seq(Nat) : p2u' = Cat(p2u, h) /\ pchunk' = t /\ pchunk = Cat(h, t)
    BY <2>1, Split
  <2>3. InLoop /\ UNCHANGED <<c2r, rbuf, chan, replies>>
    BY <1>9 DEF PumpWrite, InLoop
  <2>4. Cat(Cat(p2u, h), Cat(Cat(Cat(t, w), rbuf), c2r))
           = Cat(p2u, Cat(Cat(Cat(Cat(h, t), w), rbuf), c2r))
    <3> HIDE DEF Carried, TypesOf
    <3>1. PICK a \in Seq(Nat), y \in Seq(Nat), z \in Seq(Nat) : a = p2u /\ y = rbuf /\ z = c2r
      BY <1>u
    <3>2. Cat(Cat(a, h), Cat(Cat(Cat(t, w), y), z))
             = Cat(a, Cat(Cat(Cat(Cat(h, t), w), y), z))
      BY PassedThree
    <3> QED
      BY <3>1, <3>2
  <2>5. /\ DownTail' = DownTail
        /\ UpTail = Cat(Cat(Cat(Cat(h, t), w), rbuf), c2r)
        /\ UpTail' = Cat(Cat(Cat(t, w), rbuf), c2r)
    BY <1>3, <2>2, <2>3 DEF DownTail, UpTail, replies
  <2> QED
    BY <1>2, <2>2, <2>3, <2>4, <2>5, PipesAre DEF Rests, replies
<1>10. CASE ReaderRead
  <2>1. PICK n \in Readable(c2r) : rbuf' = SubSeq(c2r, 1, n) /\ c2r' = Rest(c2r, n)
    BY <1>10 DEF ReaderRead
  <2>2. PICK h \in Seq(Nat), t \in Seq(Nat) : rbuf' = h /\ c2r' = t /\ c2r = Cat(h, t)
    BY <2>1, ReadTakes, Split
  <2>3. rbuf = <<>> /\ UNCHANGED <<chan, pchunk, p2u, replies>>
    BY <1>10 DEF ReaderRead
  <2>4. Cat(Cat(Cat(pchunk, w), <<>>), Cat(h, t)) = Cat(Cat(Cat(pchunk, w), h), t)
    <3>1. PICK x \in Seq(Nat) : x = Cat(pchunk, w)
      <4> HIDE DEF Carried, TypesOf
      <4> QED
        BY <1>u, CatFacts
    <3>2. Cat(Cat(x, <<>>), Cat(h, t)) = Cat(Cat(x, h), t)
      <4> HIDE DEF Carried, TypesOf
      <4> QED
        BY Filled
    <3> QED
      BY <3>1, <3>2
  <2>5. DownTail' = DownTail /\ UpTail' = UpTail
    BY <1>3, <2>2, <2>3, <2>4 DEF DownTail, UpTail, replies
  <2> QED
    BY <1>2, <2>3, <2>5, PipesAre DEF Rests, replies
<1>11. CASE ReaderSend
  <2>1. /\ UNCHANGED <<c2r, pchunk, p2u, replies>> /\ rbuf' = <<>>
        /\ InLoop => chan' = Append(chan, rbuf)
    BY <1>11 DEF ReaderSend, ReceiverGone, InLoop
  <2>2. InLoop => FlattenSeq(chan') = Cat(w, rbuf)
    BY <1>3, <2>1, FlattenAppend
  <2>3. Cat(Cat(Cat(pchunk, Cat(w, rbuf)), <<>>), c2r) = Cat(Cat(Cat(pchunk, w), rbuf), c2r)
    <3> HIDE DEF Carried, TypesOf
    <3> QED
      BY <1>u, CatFacts
  <2>4. DownTail' = DownTail /\ UpTail' = UpTail
    BY <1>3, <2>1, <2>2, <2>3 DEF DownTail, UpTail, replies
  <2> QED
    BY <1>2, <2>1, <2>4, PipesAre DEF Rests, replies
<1>12. CASE Idle
  BY <1>4, <1>12, IdleMovesNothing DEF commands, replies
<1> QED
  BY <1>5, <1>6, <1>7, <1>8, <1>9, <1>10, <1>11, <1>12 DEF Pump, Reader, Idle

LEMMA NextRelays ==
  Carried /\ BothAtWork /\ [Next]_vars => [R!Next]_(R!relayVars)
<1> SUFFICES ASSUME Carried, BothAtWork, [Next]_vars
             PROVE  R!Next \/ Rests
  BY DEF Rests, R!relayVars
<1>1. CASE UNCHANGED vars
  BY <1>1 DEF vars, control, commands, replies, ends, Rests, ToUpstream, ToClient, InLoop,
              Phase, Ended
<1>2. CASE Spawn \/ CloneFails
  BY <1>2, SetUpSteps DEF R!Next
<1>3. CASE Pump /\ ~Spawn /\ ~CloneFails
  <2>1. Phase' = Phase \/ (Phase = "up" /\ Phase' = "down")
    <3>1. CASE Enter \/ Join \/ PumpCheck \/ PumpRead
      BY <3>1 DEF Enter, Join, PumpCheck, PumpRead, Phase, InLoop
    <3>2. CASE PumpReadNothing \/ PumpReadEnd \/ PumpForward \/ PumpForwardFails
      BY <3>2 DEF PumpReadNothing, PumpReadEnd, PumpForward, PumpForwardFails, Phase, InLoop
    <3>3. CASE PumpRecv \/ PumpRecvNothing \/ PumpWrite \/ PumpWriteFails
      BY <3>3 DEF PumpRecv, PumpRecvNothing, PumpWrite, PumpWriteFails, Phase, InLoop
    <3>4. CASE PumpRestore \/ PumpClear \/ PumpShut
      BY <3>4 DEF PumpRestore, PumpClear, PumpShut, Phase, InLoop
    <3> QED
      BY <1>3, <3>1, <3>2, <3>3, <3>4 DEF Pump
  <2>2. CASE Phase = "up" /\ Phase' = "down"
    BY <1>3, <2>2, LeavingSteps DEF R!Next
  <2>3. CASE Phase' = Phase
    BY <1>3, <2>3, PhaseIs, PassingSteps
  <2> QED
    BY <2>1, <2>2, <2>3
<1>4. CASE Reader
  <2>1. ppc' = ppc
    BY <1>4 DEF Reader, ReaderCheck, ReaderRead, ReaderEof, ReaderFails, ReaderSend,
                ReaderStop
  <2> QED
    BY <1>4, <2>1, PassingSteps DEF Phase, InLoop
<1> QED
  BY <1>1, <1>2, <1>3, <1>4, EndpointSteps DEF Next, Returned

(* The two threads and their channel implement the two pipes of Relay,     *)
(* which run until an endpoint hangs up, reorder and invent nothing, and   *)
(* lose at the end only what was behind some point.  The relay is refused  *)
(* where proxy() cannot duplicate the client socket.                       *)
THEOREM ImplementsRelay == Spec => RelaysInOrder
<1>1. Init => R!Init
  <2>1. <<>> \o <<>> = <<>> /\ FlattenSeq(<<>>) = <<>>
    BY EmptySeq, ConcatEmptySeq, FlattenTyped
  <2> QED
    BY <2>1 DEF Init, R!Init, Phase, InLoop, Ended, ToUpstream, ToClient
<1>2. Carried /\ BothAtWork /\ [Next]_vars => [R!Next]_(R!relayVars)
  BY NextRelays
<1> QED
  BY <1>1, <1>2, CarriedAlways, InitBothAtWork, NextBothAtWork, PTL DEF Spec, RelaysInOrder, R!Spec
=============================================================================
