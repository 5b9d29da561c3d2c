--------------------------- MODULE SessionProofs ---------------------------
(***************************************************************************)
(* What the accept loop keeps for any number of clients and any keepalive  *)
(* interval, on each of the three protocols.                               *)
(***************************************************************************)
EXTENDS Session, TLAPS

(* serve_one is a worker as `serve` counts on it: each step of the loop    *)
(* and around it is one of Worker's or changes nothing there.              *)
LEMMA InitWorks == Init => W!Init
  BY DEF Init, W!Init, At

LEMMA NextWorks == [Next]_vars => [W!Next]_(W!workerVars)
<1> SUFFICES ASSUME [Next]_vars PROVE [W!Next]_(W!workerVars)
  OBVIOUS
<1> USE DEF W!Next, W!Own, W!Goes, W!Returns, W!workerVars, At, Returns
<1>1. CASE UNCHANGED vars
  BY <1>1 DEF vars, loop
<1>2. CASE Check
  BY <1>2 DEF Check, W!Polls, W!Stops
<1>3. CASE Accept \/ AcceptNothing \/ NoopSend \/ NoopSkips \/ NoopAnswered
  BY <1>3 DEF Accept, AcceptNothing, NoopSend, NoopSkips, NoopAnswered, loop
<1>4. CASE AcceptFails \/ NoopSendFails \/ NoopMismatch \/ NoopFails \/ GreetFails
  BY <1>4 DEF AcceptFails, NoopSendFails, NoopMismatch, NoopFails, GreetFails, W!Fails
<1>5. CASE Sleep \/ ProxySetupFails
  BY <1>5 DEF Sleep, ProxySetupFails, BackToLoop, W!Idles
<1>6. CASE Greet
  BY <1>6 DEF Greet, W!Accepts
<1>7. CASE UpstreamEnds \/ ClientLeaves
  BY <1>7 DEF UpstreamEnds, ClientLeaves, BackToLoop, W!Frees
<1>8. CASE ClientAsks \/ ClientAsksInPart \/ ClientReads \/ AttachedTick
  BY <1>8 DEF ClientAsks, ClientAsksInPart, ClientReads, AttachedTick, loop
<1>9. ASSUME NEW c \in Clients, Connect(c) \/ GiveUp(c) PROVE [W!Next]_(W!workerVars)
  BY <1>9 DEF Connect, GiveUp, loop
<1>10. CASE ServerAnswers \/ ServerCloses
  BY <1>10 DEF ServerAnswers, ServerCloses, loop
<1>11. CASE SiblingFails
  BY <1>11 DEF SiblingFails, loop, W!FlagFalls
<1> QED
  BY <1>1, <1>2, <1>3, <1>4, <1>5, <1>6, <1>7, <1>8, <1>9, <1>10, <1>11
     DEF Next, ServeOne, Around, Stopped

THEOREM ImplementsWorker == Spec => ServesAsWorker
  BY InitWorks, NextWorks, PTL DEF Spec, ServesAsWorker, W!Spec

(* So it returns Ok only once the shared flag is down: a worker's Ok never *)
(* stands for a failure.                                                   *)
THEOREM OkMeansStopped == Spec => []W!OkOnlyWhenStopped
<1>1. Init => W!OkOnlyWhenStopped
  BY DEF Init, W!OkOnlyWhenStopped
<1>2. W!OkOnlyWhenStopped /\ [Next]_vars => W!OkOnlyWhenStopped'
  <2> SUFFICES ASSUME W!OkOnlyWhenStopped, [W!Next]_(W!workerVars)
               PROVE  W!OkOnlyWhenStopped'
    BY NextWorks
  <2> QED
    BY DEF W!OkOnlyWhenStopped, W!Next, W!Own, W!Polls, W!Idles, W!Accepts, W!Frees, W!Goes,
       W!Stops, W!Fails, W!Returns, W!FlagFalls, W!workerVars
<1> QED
  BY <1>1, <1>2, PTL DEF Spec

----------------------------------------------------------------------------
(* Who waits for the listener is neither away nor attached, and is not the *)
(* client being served: nobody is accepted twice for one connection.       *)
Waiting ==
    \A i \in 1..Len(queue) :
        /\ client[queue[i]] \in {"waiting", "gone"}
        /\ Attached => queue[i] # current

\* The client served is the one that was accepted, and the timer has not
\* run out where the loop sleeps.
Serving ==
    /\ pc = "greet" => client[current] \in {"waiting", "gone"}
    /\ pc = "proxy" => client[current] = "attached"
    /\ pc = "sleep" => idle < Interval

TypeInv == TypeOK /\ Waiting /\ Serving

LEMMA RequestTyped ==
  /\ Mine \in Requests
  /\ \A c \in Clients : \A b \in BOOLEAN : Request(c, b) \in Requests /\ Request(c, b) # Mine
  BY SessionAssumption DEF Mine, Request, Requests

LEMMA AskTyped ==
  ASSUME partial \in Clients \union {Daemon}, asked \in Seq(Requests),
         NEW r \in Requests, Ask(r)
  PROVE  partial' \in Clients \union {Daemon} /\ asked' \in Seq(Requests)
<1>1. CASE partial = Daemon
  BY <1>1 DEF Ask
<1>2. CASE partial # Daemon
  <2>1. PICK q \in Requests : q = Request(partial, FALSE)
    BY <1>2, RequestTyped
  <2>2. \/ asked' = Append(asked, q) /\ partial' = Daemon
        \/ asked' = asked /\ partial' = partial
    BY <1>2, <2>1 DEF Ask
  <2> QED
    BY <2>2
<1> QED
  BY <1>1, <1>2

LEMMA InitTypes == Init => TypeInv
  BY SessionAssumption DEF Init, TypeInv, TypeOK, Waiting, Serving, Attached, IsInjective

LEMMA NextTypes == TypeInv /\ [Next]_vars => TypeInv'
<1> SUFFICES ASSUME TypeInv, [Next]_vars PROVE TypeInv'
  OBVIOUS
<1> USE SessionAssumption DEF TypeInv, TypeOK, Waiting, Serving, Attached
<1>0. \A i \in 1..Len(queue) : queue[i] \in Clients
  OBVIOUS
<1>1. CASE UNCHANGED vars
  BY <1>1 DEF vars, loop, stream
<1>2. CASE Check \/ AcceptFails \/ AcceptNothing
  BY <1>2 DEF Check, AcceptFails, AcceptNothing, Returns, stream
<1>3. CASE Accept
  <2>1. /\ Head(queue) = queue[1] /\ Head(queue) \in Clients /\ Tail(queue) \in Seq(Clients)
        /\ 1 \in 1..Len(queue) /\ Len(Tail(queue)) = Len(queue) - 1 /\ Len(queue) \in Nat
        /\ \A i \in 1..Len(Tail(queue)) : Tail(queue)[i] = queue[i + 1] /\ i + 1 \in 1..Len(queue)
    BY <1>3 DEF Accept
  <2>2. IsInjective(queue')
    BY <1>3, <2>1 DEF Accept, IsInjective
  <2>3. \A i \in 1..Len(Tail(queue)) : Tail(queue)[i] # Head(queue)
    BY <2>1 DEF IsInjective
  <2>4. Waiting'
    BY <1>3, <2>1, <2>3 DEF Accept
  <2> QED
    BY <1>3, <2>1, <2>2, <2>4 DEF Accept, stream
<1>4. CASE Sleep
  BY <1>4 DEF Sleep
<1>5. CASE NoopSend \/ NoopSendFails
  BY <1>5, AskTyped, RequestTyped DEF NoopSend, NoopSendFails, Returns, stream
<1>6. CASE NoopSkips \/ NoopAnswered \/ NoopMismatch \/ NoopFails
  <2>1. answers # <<>> => Tail(answers) \in Seq(Requests)
    OBVIOUS
  <2> HIDE DEF Waiting
  <2>2. Waiting'
    BY <1>6 DEF NoopSkips, NoopAnswered, NoopMismatch, NoopFails, Returns, loop, Waiting
  <2>3. CASE NoopSkips
    BY <2>1, <2>2, <2>3 DEF NoopSkips, loop
  <2>4. CASE NoopAnswered
    BY <2>1, <2>2, <2>4 DEF NoopAnswered
  <2>5. CASE NoopMismatch
    BY <2>1, <2>2, <2>5 DEF NoopMismatch, Returns
  <2>6. CASE NoopFails
    BY <2>2, <2>6 DEF NoopFails, Returns, stream
  <2> QED
    BY <1>6, <2>3, <2>4, <2>5, <2>6
<1>7. CASE Greet \/ GreetFails
  <2>1. Waiting'
    BY <1>0, <1>7 DEF Greet, GreetFails, Returns
  <2> HIDE DEF Waiting
  <2> QED
    BY <1>7, <2>1 DEF Greet, GreetFails, Returns, stream
<1>8. CASE ProxySetupFails \/ UpstreamEnds \/ ClientLeaves
  <2>1. Waiting'
    BY <1>0, <1>8 DEF ProxySetupFails, UpstreamEnds, ClientLeaves, BackToLoop
  <2> HIDE DEF Waiting
  <2> QED
    BY <1>8, <2>1 DEF ProxySetupFails, UpstreamEnds, ClientLeaves, BackToLoop, stream
<1>9. CASE ClientAsks
  <2>1. PICK b \in BOOLEAN : Ask(Request(current, b))
    BY <1>9 DEF ClientAsks
  <2>2. Request(current, b) \in Requests
    BY <1>9, RequestTyped DEF ClientAsks
  <2>3. partial' \in Clients \union {Daemon} /\ asked' \in Seq(Requests)
    BY <2>1, <2>2, AskTyped
  <2> QED
    BY <1>9, <2>3 DEF ClientAsks, loop
<1>10. CASE ClientAsksInPart \/ ClientReads \/ AttachedTick
  <2>1. answers # <<>> => Tail(answers) \in Seq(Requests)
    OBVIOUS
  <2>2. CASE ClientAsksInPart
    BY <2>2 DEF ClientAsksInPart, loop
  <2>3. CASE ClientReads
    BY <2>1, <2>3 DEF ClientReads, loop
  <2>4. CASE AttachedTick
    <3>1. quiet' \in 0..MaxQuiet
      BY <2>4 DEF AttachedTick
    <3> QED
      BY <2>4, <3>1 DEF AttachedTick, loop
  <2> QED
    BY <1>10, <2>2, <2>3, <2>4
<1>11. ASSUME NEW c \in Clients, Connect(c), pc # "ended" PROVE TypeInv'
  <2>1. /\ Len(queue) \in Nat /\ Append(queue, c) \in Seq(Clients)
        /\ Len(Append(queue, c)) = Len(queue) + 1
        /\ \A i \in 1..Len(queue) : Append(queue, c)[i] = queue[i] /\ queue[i] # c
        /\ Append(queue, c)[Len(queue) + 1] = c
    <3>1. queue \in Seq(Clients)
      OBVIOUS
    <3>2. \A i \in 1..Len(queue) : queue[i] # c
      BY <1>11 DEF Connect
    <3> HIDE DEF TypeInv, TypeOK, Waiting, Serving
    <3> QED
      BY <3>1, <3>2
  <2>2. IsInjective(queue')
    BY <1>11, <2>1 DEF Connect, IsInjective
  <2>3. Attached => client[current] # "away"
    OBVIOUS
  <2> QED
    BY <1>11, <2>1, <2>2, <2>3 DEF Connect, loop, stream
<1>12. ASSUME NEW c \in Clients, GiveUp(c) PROVE TypeInv'
  BY <1>12 DEF GiveUp, loop, stream
<1>13. CASE ServerAnswers \/ ServerCloses \/ SiblingFails
  <2>1. asked # <<>> => /\ Tail(asked) \in Seq(Requests)
                        /\ Append(answers, Head(asked)) \in Seq(Requests)
    OBVIOUS
  <2>2. CASE ServerAnswers
    BY <2>1, <2>2 DEF ServerAnswers, loop
  <2>3. CASE ServerCloses
    BY <2>3 DEF ServerCloses, loop
  <2>4. CASE SiblingFails
    BY <2>4 DEF SiblingFails, loop, stream
  <2> QED
    BY <1>13, <2>2, <2>3, <2>4
<1> QED
  BY <1>1, <1>2, <1>3, <1>4, <1>5, <1>6, <1>7, <1>8, <1>9, <1>10, <1>11, <1>12, <1>13
     DEF Next, ServeOne, Around, Stopped

\* The type invariant of the accept loop.
THEOREM TypeCorrect == Spec => []TypeOK
<1>1. TypeInv => TypeOK
  BY DEF TypeInv
<1> QED
  BY <1>1, InitTypes, NextTypes, PTL DEF Spec

----------------------------------------------------------------------------
(* On a smooth day nothing is on the stream between two clients but the    *)
(* NOOP of an exchange under way, and while one is attached, only what it  *)
(* asked itself.                                                           *)
Orderly ==
    /\ server = "closed" => asked = <<>> /\ partial = Daemon
    /\ smooth =>
         /\ pc \in {"check", "accept", "sleep", "greet"} => asked = <<>> /\ answers = <<>>
         /\ pc \in {"noop", "ended"} =>
              \/ asked = <<>> /\ answers = <<>>
              \/ asked = <<Mine>> /\ answers = <<>>
              \/ asked = <<>> /\ answers = <<Mine>>
         /\ pc # "proxy" => partial = Daemon
         /\ pc = "proxy" => /\ partial \in {Daemon, current}
                            /\ \A i \in 1..Len(asked) : asked[i].by = current
                            /\ \A i \in 1..Len(answers) : answers[i].by = current

LEMMA InitOrderly == Init => Orderly
  BY DEF Init, Orderly

LEMMA NextOrderly == TypeInv /\ Orderly /\ [Next]_vars => Orderly'
<1> SUFFICES ASSUME TypeInv, Orderly, [Next]_vars PROVE Orderly'
  OBVIOUS
<1>0. /\ asked \in Seq(Requests) /\ answers \in Seq(Requests)
      /\ current \in Clients \union {Daemon} /\ Daemon \notin Clients
      /\ pc \in {"greet", "proxy"} => current # Daemon
      /\ pc \in {"check", "accept", "sleep", "noop", "greet", "proxy", "ended"}
  BY SessionAssumption DEF TypeInv, TypeOK, Attached
<1> USE DEF Orderly
<1>1. CASE UNCHANGED vars
  BY <1>1 DEF vars, loop, stream
<1>2. CASE Check \/ Accept \/ AcceptFails \/ AcceptNothing \/ Sleep
  BY <1>2 DEF Check, Accept, AcceptFails, AcceptNothing, Sleep, Returns, stream
<1>3. CASE NoopSend
  <2>1. smooth => asked' \in {<<>>, <<Mine>>} /\ partial' = Daemon
    BY <1>3 DEF NoopSend, Ask
  <2>2. server = "closed" => asked' = <<>> /\ partial' = Daemon
    BY <1>3 DEF NoopSend
  <2> QED
    BY <1>3, <2>1, <2>2 DEF NoopSend
<1>4. CASE NoopSendFails \/ NoopFails
  BY <1>4 DEF NoopSendFails, NoopFails, Returns, stream
<1>5. CASE NoopSkips \/ NoopAnswered \/ NoopMismatch
  BY <1>5 DEF NoopSkips, NoopAnswered, NoopMismatch, Returns, loop, Skipped, Accepted
<1>6. CASE Greet \/ GreetFails \/ ProxySetupFails
  BY <1>6 DEF Greet, GreetFails, ProxySetupFails, BackToLoop, Returns, stream
<1>7. CASE UpstreamEnds
  BY <1>7 DEF UpstreamEnds, BackToLoop, stream
<1>8. CASE ClientLeaves
  <2>1. Pending = <<>> => asked = <<>> /\ answers = <<>>
    BY <1>0 DEF Pending
  <2> QED
    BY <1>8, <2>1 DEF ClientLeaves, BackToLoop, stream
<1>9. CASE ClientAsks
  <2>1. PICK b \in BOOLEAN : Ask(Request(current, b))
    BY <1>9 DEF ClientAsks
  <2>2. PICK q \in Requests : /\ smooth => q.by = current
                              /\ \/ asked' = Append(asked, q)
                                 \/ asked' = asked
    <3>1. current \in Clients
      BY <1>0, <1>9 DEF ClientAsks
    <3>2. CASE partial = Daemon
      <4>1. Request(current, b) \in Requests /\ Request(current, b).by = current
        BY <3>1, RequestTyped DEF Request
      <4> QED
        BY <2>1, <3>2, <4>1 DEF Ask
    <3>3. CASE partial # Daemon
      <4>1. Request(partial, FALSE) \in Requests /\ Request(partial, FALSE).by = partial
        BY <3>3, RequestTyped DEF Request, TypeInv, TypeOK
      <4>2. smooth => partial = current
        BY <1>9, <3>3 DEF ClientAsks
      <4> QED
        BY <2>1, <3>3, <4>1, <4>2 DEF Ask
    <3> QED
      BY <3>2, <3>3
  <2>3. partial' \in {partial, Daemon}
    BY <2>1 DEF Ask
  <2>4. smooth => \A i \in 1..Len(asked') : asked'[i].by = current
    BY <1>0, <1>9, <2>2 DEF ClientAsks
  <2> QED
    BY <1>9, <2>3, <2>4 DEF ClientAsks, loop
<1>10. CASE ClientAsksInPart \/ AttachedTick
  BY <1>10 DEF ClientAsksInPart, AttachedTick, loop
<1>11. CASE ClientReads
  <2>1. \A i \in 1..Len(Tail(answers)) : i + 1 \in 1..Len(answers)
                                         /\ Tail(answers)[i] = answers[i + 1]
    BY <1>0, <1>11 DEF ClientReads
  <2> QED
    BY <1>11, <2>1 DEF ClientReads, loop
<1>12. ASSUME NEW c \in Clients, Connect(c) \/ GiveUp(c) PROVE Orderly'
  BY <1>12 DEF Connect, GiveUp, loop, stream
<1>13. CASE ServerAnswers
  <2>1. /\ \A i \in 1..Len(Tail(asked)) : i + 1 \in 1..Len(asked)
                                          /\ Tail(asked)[i] = asked[i + 1]
        /\ 1 \in 1..Len(asked) /\ Head(asked) = asked[1]
    BY <1>0, <1>13 DEF ServerAnswers
  <2>2. smooth /\ pc = "proxy" =>
          \A i \in 1..Len(answers') : answers'[i].by = current
    BY <1>0, <1>13, <2>1 DEF ServerAnswers
  <2>3. asked = <<Mine>> /\ answers = <<>> => asked' = <<>> /\ answers' = <<Mine>>
    BY <1>13 DEF ServerAnswers
  <2> QED
    BY <1>0, <1>13, <2>1, <2>2, <2>3 DEF ServerAnswers, loop
<1>14. CASE ServerCloses
  BY <1>14 DEF ServerCloses, loop
<1>15. CASE SiblingFails
  BY <1>15 DEF SiblingFails, loop, stream
<1> QED
  BY <1>1, <1>2, <1>3, <1>4, <1>5, <1>6, <1>7, <1>8, <1>9, <1>10, <1>11, <1>12, <1>13,
     <1>14, <1>15 DEF Next, ServeOne, Around, Stopped

(* NoDrift: a NOOP adds one entry to the stream, or completes the half     *)
(* command in front of it, and only an answer taken off it, or the end of  *)
(* the run, gets the loop past the exchange.                               *)
THEOREM KeepaliveNeverDrifts == Spec => NoDrift
<1>1. TypeInv /\ [Next]_vars => [(pc # "proxy" /\ pc' # "ended") => Lag' <= Lag]_vars
  <2> SUFFICES ASSUME TypeInv, Next, pc # "proxy", pc' # "ended" PROVE Lag' <= Lag
    BY DEF Lag, Pending, vars, loop, stream
  <2>0. /\ asked \in Seq(Requests) /\ answers \in Seq(Requests)
        /\ Len(asked) \in Nat /\ Len(answers) \in Nat
        /\ Len(Pending) = Len(asked) + Len(answers)
    BY DEF TypeInv, TypeOK, Pending
  <2>1. asked' \in Seq(Requests) /\ answers' \in Seq(Requests)
        => Len(Pending') = Len(asked') + Len(answers')
    BY DEF Pending
  <2>2. Len(Pending') = Len(asked') + Len(answers')
    BY <2>1, NextTypes DEF TypeInv, TypeOK
  <2> USE <2>0, <2>2 DEF Lag
  <2>3. CASE UNCHANGED <<partial, asked, answers>> /\ pc # "noop"
    BY <2>3
  <2>4. CASE NoopSend
    <3>1. /\ pc' = "noop" /\ pc = "accept" /\ answers' = answers
          /\ Ask(Mine) \/ UNCHANGED <<asked, partial>>
      BY <2>4 DEF NoopSend
    <3>2. \/ UNCHANGED <<asked, partial>>
          \/ Len(asked') = Len(asked) + 1 /\ partial' = partial /\ partial = Daemon
          \/ Len(asked') = Len(asked) + 1 /\ partial' = Daemon /\ partial # Daemon
      <4>1. \A q \in Requests : Len(Append(asked, q)) = Len(asked) + 1
        OBVIOUS
      <4>2. CASE partial = Daemon
        BY <3>1, <4>1, <4>2, RequestTyped DEF Ask
      <4>3. CASE partial # Daemon
        <5>1. PICK q \in Requests : q = Request(partial, FALSE)
          BY <4>3, RequestTyped DEF TypeInv, TypeOK
        <5> QED
          BY <3>1, <4>1, <4>3, <5>1 DEF Ask
      <4> QED
        BY <4>2, <4>3
    <3> QED
      BY <3>1, <3>2
  <2>5. CASE NoopSkips \/ NoopAnswered
    <3>1. /\ pc = "noop" /\ asked' = asked /\ partial' = partial
          /\ Len(answers') = Len(answers) - 1
      BY <2>5 DEF NoopSkips, NoopAnswered
    <3> QED
      BY <3>1
  <2>6. CASE ServerAnswers
    <3>1. /\ Len(asked') = Len(asked) - 1 /\ Len(answers') = Len(answers) + 1
          /\ partial' = partial /\ pc' = pc
      BY <2>6 DEF ServerAnswers, loop
    <3> QED
      BY <3>1
  <2>7. CASE ServerCloses
    BY <2>7 DEF ServerCloses, loop
  <2>8. ASSUME NEW c \in Clients, Connect(c) \/ GiveUp(c) PROVE Lag' <= Lag
    BY <2>8 DEF Connect, GiveUp, loop, stream
  <2>9. CASE SiblingFails \/ Stopped
    BY <2>9 DEF SiblingFails, Stopped, vars, loop, stream
  <2>10. CASE Check \/ Accept \/ AcceptNothing \/ Sleep \/ Greet \/ ProxySetupFails
    BY <2>3, <2>10 DEF Check, Accept, AcceptNothing, Sleep, Greet, ProxySetupFails, stream
  <2>11. ~(AcceptFails \/ NoopSendFails \/ NoopMismatch \/ NoopFails \/ GreetFails)
    BY DEF AcceptFails, NoopSendFails, NoopMismatch, NoopFails, GreetFails, Returns
  <2>12. ~(UpstreamEnds \/ ClientAsks \/ ClientAsksInPart \/ ClientReads
              \/ ClientLeaves \/ AttachedTick)
    BY DEF UpstreamEnds, ClientAsks, ClientAsksInPart, ClientReads, ClientLeaves, AttachedTick
  <2> QED
    BY <2>4, <2>5, <2>6, <2>7, <2>8, <2>9, <2>10, <2>11, <2>12 DEF Next, ServeOne, Around
<1> QED
  BY <1>1, InitTypes, NextTypes, PTL DEF Spec, NoDrift

----------------------------------------------------------------------------
(* Over IMAP, with no assumption on the clients: the tag of the NOOP is    *)
(* nobody else's, and the exchange does not end before it has come.        *)
NoneOf(s) == \A i \in 1..Len(s) : s[i] # Mine
OneOf(s)  == \A i, j \in 1..Len(s) : s[i] = Mine /\ s[j] = Mine => i = j

Tagged ==
    protocol = "imap" =>
        /\ pc \notin {"noop", "ended"} => NoneOf(asked) /\ NoneOf(answers)
        /\ OneOf(asked) /\ OneOf(answers) /\ (NoneOf(asked) \/ NoneOf(answers))

LEMMA MineAppended ==
  ASSUME NEW s \in Seq(Requests), NEW q \in Requests
  PROVE  /\ NoneOf(s) => OneOf(s) /\ OneOf(Append(s, q))
         /\ NoneOf(s) /\ q # Mine => NoneOf(Append(s, q))
         /\ OneOf(s) /\ q # Mine => OneOf(Append(s, q))
  BY DEF NoneOf, OneOf

LEMMA MineTaken ==
  ASSUME NEW s \in Seq(Requests), s # <<>>
  PROVE  /\ NoneOf(s) => NoneOf(Tail(s)) /\ Head(s) # Mine
         /\ OneOf(s) => OneOf(Tail(s))
         /\ OneOf(s) /\ Head(s) = Mine => NoneOf(Tail(s))
<1>1. /\ 1 \in 1..Len(s) /\ Head(s) = s[1]
      /\ \A i \in 1..Len(Tail(s)) : i + 1 \in 1..Len(s) /\ Tail(s)[i] = s[i + 1] /\ i + 1 # 1
  OBVIOUS
<1>2. \A i, j \in 1..Len(Tail(s)) : i + 1 = j + 1 => i = j
  OBVIOUS
<1> QED
  BY <1>1, <1>2 DEF NoneOf, OneOf

LEMMA InitTagged == Init => Tagged
  BY DEF Init, Tagged, NoneOf, OneOf

LEMMA NextTagged == TypeInv /\ Tagged /\ [Next]_vars => Tagged'
<1> SUFFICES ASSUME TypeInv, Tagged, [Next]_vars PROVE Tagged'
  OBVIOUS
<1>0. /\ asked \in Seq(Requests) /\ answers \in Seq(Requests)
      /\ partial \in Clients \union {Daemon} /\ current \in Clients \union {Daemon}
      /\ pc \in {"greet", "proxy"} => current \in Clients
  BY DEF TypeInv, TypeOK, Attached
<1>a. NoneOf(<<>>) /\ OneOf(<<>>)
  BY DEF NoneOf, OneOf
<1>b. ASSUME asked' = asked, answers' = answers, protocol' = protocol,
             pc' \notin {"noop", "ended"} => pc \notin {"noop", "ended"}
      PROVE  Tagged'
  BY <1>b DEF Tagged, NoneOf, OneOf
<1>c. ASSUME NEW q \in Requests, Ask(q), answers' = answers, protocol' = protocol,
             pc \notin {"noop", "ended"},
             q # Mine \/ pc' = "noop"
      PROVE  Tagged'
  <2>1. PICK p \in Requests : /\ asked' = Append(asked, p) \/ asked' = asked
                              /\ p # Mine \/ pc' = "noop"
    BY <1>c, <1>0, RequestTyped DEF Ask
  <2> QED
    BY <1>0, <1>c, <2>1, MineAppended DEF Tagged
<1>1. CASE UNCHANGED vars
  BY <1>1, <1>b DEF vars, loop, stream
<1>2. CASE Check \/ Accept \/ AcceptFails \/ AcceptNothing \/ Sleep
  BY <1>2, <1>b DEF Check, Accept, AcceptFails, AcceptNothing, Sleep, Returns, stream
<1>3. CASE NoopSend
  BY <1>3, <1>b, <1>c, RequestTyped DEF NoopSend
<1>4. CASE NoopSendFails \/ NoopFails
  BY <1>4, <1>b DEF NoopSendFails, NoopFails, Returns, stream
<1>5. CASE NoopSkips
  BY <1>0, <1>5, MineTaken DEF NoopSkips, Tagged, loop
<1>6. CASE NoopAnswered
  <2>1. protocol = "imap" => Head(answers) = Mine
    BY <1>6 DEF NoopAnswered, Accepted
  <2> QED
    BY <1>0, <1>6, <2>1, MineTaken DEF NoopAnswered, Tagged
<1>7. CASE NoopMismatch
  BY <1>7 DEF NoopMismatch, Skipped, Accepted, Tagged
<1>8. CASE Greet \/ GreetFails \/ ProxySetupFails \/ UpstreamEnds \/ ClientLeaves
  BY <1>8, <1>b DEF Greet, GreetFails, ProxySetupFails, UpstreamEnds, ClientLeaves,
                    BackToLoop, Returns, stream
<1>9. CASE ClientAsks
  <2>1. PICK b \in BOOLEAN : Ask(Request(current, b))
    BY <1>9 DEF ClientAsks
  <2>2. Request(current, b) \in Requests /\ Request(current, b) # Mine
    BY <1>0, <1>9, RequestTyped DEF ClientAsks
  <2> QED
    BY <1>9, <1>c, <2>1, <2>2 DEF ClientAsks, loop
<1>10. CASE ClientReads
  BY <1>0, <1>10, MineTaken DEF ClientReads, Tagged, loop
<1>11. CASE ClientAsksInPart \/ AttachedTick
  BY <1>11, <1>b DEF ClientAsksInPart, AttachedTick, loop
<1>12. ASSUME NEW c \in Clients, Connect(c) \/ GiveUp(c) PROVE Tagged'
  BY <1>12, <1>b DEF Connect, GiveUp, loop, stream
<1>13. CASE ServerAnswers
  <2>1. /\ Head(asked) \in Requests /\ asked # <<>>
        /\ asked' = Tail(asked) /\ answers' = Append(answers, Head(asked))
        /\ pc' = pc /\ protocol' = protocol
    BY <1>0, <1>13 DEF ServerAnswers, loop
  <2> QED
    BY <1>0, <2>1, MineTaken, MineAppended DEF Tagged
<1>14. CASE ServerCloses
  BY <1>14, <1>a DEF ServerCloses, Tagged, loop
<1>15. CASE SiblingFails
  BY <1>15, <1>b DEF SiblingFails, loop, stream
<1> QED
  BY <1>1, <1>2, <1>3, <1>4, <1>5, <1>6, <1>7, <1>8, <1>9, <1>10, <1>11, <1>12, <1>13,
     <1>14, <1>15 DEF Next, ServeOne, Around, Stopped

(* NoopAlone on every protocol: the tag of IMAP, and elsewhere clients     *)
(* that leave nothing behind, keep the NOOP the only one of its kind.      *)
THEOREM NoopIsAlone == Spec => []NoopAlone
<1>1. TypeInv /\ Tagged /\ Orderly => NoopAlone
  <2> SUFFICES ASSUME TypeInv, Tagged, Orderly, protocol = "imap" \/ smooth
               PROVE  /\ pc \notin {"noop", "ended"} =>
                           \A i \in DOMAIN Pending : Pending[i] # Mine
                      /\ \A i, j \in DOMAIN Pending :
                           Pending[i] = Mine /\ Pending[j] = Mine => i = j
    BY DEF NoopAlone
  <2>0. asked \in Seq(Requests) /\ answers \in Seq(Requests)
    BY DEF TypeInv, TypeOK
  <2>1. /\ pc \notin {"noop", "ended"} => NoneOf(asked) /\ NoneOf(answers)
        /\ OneOf(asked) /\ OneOf(answers) /\ (NoneOf(asked) \/ NoneOf(answers))
    <3>1. CASE protocol = "imap"
      BY <3>1 DEF Tagged
    <3>2. CASE smooth
      <4>1. NoneOf(<<>>) /\ OneOf(<<>>) /\ OneOf(<<Mine>>)
        BY DEF NoneOf, OneOf
      <4>2. CASE pc = "proxy"
        <5>1. current # Daemon
          BY <4>2 DEF TypeInv, TypeOK, Attached
        <5>2. \A i \in 1..Len(asked) : asked[i] # Mine
          BY <2>0, <3>2, <4>2, <5>1 DEF Orderly, Mine, Request
        <5>3. \A i \in 1..Len(answers) : answers[i] # Mine
          BY <2>0, <3>2, <4>2, <5>1 DEF Orderly, Mine, Request
        <5> QED
          BY <4>2, <5>2, <5>3 DEF NoneOf, OneOf
      <4>3. CASE pc # "proxy"
        BY <3>2, <4>1, <4>3 DEF Orderly, TypeInv, TypeOK
      <4> QED
        BY <4>2, <4>3
    <3> QED
      BY <3>1, <3>2
  <2>2. /\ Len(asked) \in Nat /\ Len(answers) \in Nat
        /\ DOMAIN Pending = 1..(Len(asked) + Len(answers))
        /\ \A i \in 1..Len(asked) : Pending[i] = asked[i]
        /\ \A i \in (Len(asked) + 1)..(Len(asked) + Len(answers)) :
              /\ Pending[i] = answers[i - Len(asked)]
              /\ i - Len(asked) \in 1..Len(answers)
        /\ \A i \in DOMAIN Pending :
              i \in 1..Len(asked) \/ i \in (Len(asked) + 1)..(Len(asked) + Len(answers))
    BY <2>0 DEF Pending
  <2>3. \A i, j \in (Len(asked) + 1)..(Len(asked) + Len(answers)) :
           i - Len(asked) = j - Len(asked) => i = j
    BY <2>2
  <2> QED
    BY <2>1, <2>2, <2>3 DEF NoneOf, OneOf
<1> QED
  BY <1>1, InitTypes, NextTypes, InitOrderly, NextOrderly, InitTagged, NextTagged,
     PTL DEF Spec

----------------------------------------------------------------------------
(* The stream is blocking wherever no client is proxied, and the server's  *)
(* silence never outruns sirup's own timer there.                          *)
LoopInv ==
    smooth =>
        /\ pc \notin {"proxy", "ended"} => mode = "blocking"
        /\ pc \in {"check", "accept", "sleep"} /\ server = "up" => quiet <= idle
        /\ pc = "noop" => quiet = 0

LEMMA InitLoop == Init => LoopInv
  BY DEF Init, LoopInv

LEMMA NextLoop == TypeInv /\ LoopInv /\ [Next]_vars => LoopInv'
<1> SUFFICES ASSUME TypeInv, LoopInv, [Next]_vars PROVE LoopInv'
  OBVIOUS
<1>0. /\ idle \in 0..Interval /\ quiet \in 0..MaxQuiet /\ Interval \in Nat /\ MaxQuiet \in Nat
      /\ smooth \in BOOLEAN
  BY SessionAssumption DEF TypeInv, TypeOK
<1> USE <1>0 DEF LoopInv
<1>1. CASE UNCHANGED vars
  BY <1>1 DEF vars, loop, stream
<1>2. CASE Check \/ Accept \/ AcceptFails \/ AcceptNothing
  BY <1>2 DEF Check, Accept, AcceptFails, AcceptNothing, Returns, stream
<1>3. CASE Sleep
  BY <1>3 DEF Sleep
<1>4. CASE NoopSend \/ NoopSendFails \/ NoopSkips \/ NoopMismatch \/ NoopFails
  BY <1>4 DEF NoopSend, NoopSendFails, NoopSkips, NoopMismatch, NoopFails, Returns,
              loop, stream
<1>5. CASE NoopAnswered
  BY <1>5 DEF NoopAnswered
<1>6. CASE Greet \/ GreetFails
  BY <1>6 DEF Greet, GreetFails, Returns, stream
<1>7. CASE ClientLeaves \/ UpstreamEnds \/ ProxySetupFails
  <2>1. CASE ClientLeaves
    BY <2>1 DEF ClientLeaves, BackToLoop, stream
  <2>2. CASE UpstreamEnds
    BY <2>2 DEF UpstreamEnds, BackToLoop, stream
  <2>3. CASE ProxySetupFails
    BY <2>3 DEF ProxySetupFails, stream
  <2> QED
    BY <1>7, <2>1, <2>2, <2>3
<1>8. CASE ClientAsks \/ ClientAsksInPart \/ ClientReads \/ AttachedTick
  BY <1>8 DEF ClientAsks, ClientAsksInPart, ClientReads, AttachedTick, loop
<1>9. ASSUME NEW c \in Clients, Connect(c) \/ GiveUp(c) PROVE LoopInv'
  BY <1>9 DEF Connect, GiveUp, loop, stream
<1>10. CASE ServerAnswers \/ ServerCloses \/ SiblingFails
  BY <1>10 DEF ServerAnswers, ServerCloses, SiblingFails, loop, stream
<1> QED
  BY <1>1, <1>2, <1>3, <1>4, <1>5, <1>6, <1>7, <1>8, <1>9, <1>10
     DEF Next, ServeOne, Around, Stopped

(* When every proxy gets as far as its threads and clients speak right     *)
(* before they leave, each keepalive NOOP runs on a blocking stream and    *)
(* the upstream never goes longer than the interval without hearing from   *)
(* sirup.  On any other day it does not hold.                              *)
THEOREM KeepaliveHolds == Spec => []KeptWarm
<1>1. TypeInv /\ LoopInv => KeptWarm
  BY SessionAssumption DEF TypeInv, TypeOK, LoopInv, KeptWarm, Attached
<1> QED
  BY <1>1, InitTypes, NextTypes, InitLoop, NextLoop, PTL DEF Spec
=============================================================================
