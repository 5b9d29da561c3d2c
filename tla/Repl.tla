-------------------------------- MODULE Repl --------------------------------
(***************************************************************************)
(* The reference clients of repl.rs, attached to the relay: each reads the *)
(* greeting, then prompts, sends a line and reads what comes back.  The    *)
(* IMAP one reads once per prompt, the SMTP one up to a line it takes for  *)
(* the last, and the ManageSieve one leaves that to its library.           *)
(*                                                                         *)
(* The two directions are the pipes that module Relay promises.  A piece   *)
(* of a reply is a "line", its "last" line, a "literal", or a "part" of    *)
(* either that its end has yet to follow.  A last line of SMTP is "bare"   *)
(* when nothing follows its code, not even a space.                        *)
(***************************************************************************)
EXTENDS Greeting

CONSTANTS
    Kinds,         \* the protocols attached to
    Commands,      \* bound: the lines a user enters
    Shapes,        \* per protocol, the replies of the server as kinds of pieces
    Capabilities,  \* what a ManageSieve upstream may advertise
    AtOnce         \* whether replies may come in one go, in pieces, or both

ASSUME ReplAssumption ==
    /\ Kinds \subseteq {"imap", "smtp", "sieve"} /\ Commands \in Nat
    /\ AtOnce \subseteq BOOLEAN
    /\ Capabilities \subseteq Seq([name : STRING, value : SUBSET Seq(STRING)])
    /\ \A p \in Kinds : \A shape \in Shapes[p] :
          /\ shape \in Seq({"part", "line", "literal", "last", "bare"}) /\ shape # <<>>
          /\ \A i \in DOMAIN shape : /\ shape[i] \in {"last", "bare"} <=> i = Len(shape)
                                     /\ shape[i] = "bare" => p = "smtp"

VARIABLES
    protocol, capabilities, \* of the upstream
    atonce,   \* one read takes a whole reply, which has no literal in it
    pc,       \* where the client stands
    outcome,  \* what it returned
    sent,     \* lines it sent
    buf,      \* pieces read and not shown yet
    shown,    \* the last piece shown
    told,     \* the capabilities the greeting listed
    relay,    \* up, or closed by the daemon
    asked,    \* commands under way to the server
    taken,    \* the server has taken the last line for a part of something
    owed,     \* pieces the server still has to send
    inbox     \* pieces under way to the client

client == <<pc, outcome, sent, buf, shown, told>>
pipes  == <<relay, asked, taken, owed, inbox>>
vars   == <<protocol, capabilities, atonce, client, pipes>>

Piece(n, kind)  == [of |-> n, kind |-> kind]
Nothing         == Piece(0, "nothing")
Reply(n, shape) == [i \in DOMAIN shape |-> Piece(n, shape[i])]
Returns(res)    == pc' = "ended" /\ outcome' = res

\* The greeting is reply 0: one line, but for ManageSieve.
GreetingShape(p, c) ==
    IF p = "sieve" THEN [i \in DOMAIN Reachable(c) |-> "line"] \o <<"last">>
    ELSE <<"part", "last">>

Init ==
    /\ protocol \in Kinds /\ atonce \in AtOnce
    /\ capabilities \in IF protocol = "sieve" THEN Capabilities ELSE {<<>>}
    /\ pc = "read" /\ outcome = "none" /\ sent = 0
    /\ buf = <<>> /\ shown = Nothing /\ told = <<>>
    /\ relay = "up" /\ asked = <<>> /\ taken = FALSE /\ inbox = <<>>
    /\ owed = Reply(0, GreetingShape(protocol, capabilities))

----------------------------------------------------------------------------
(* Slips of the code the runs must notice.  Each stands for one definition *)
(* below and no specification uses it.                                     *)

\* The prompt comes after one line of the reply.
EndsWithALine(piece) == piece.kind \in {"line", "last"}

\* `continue` goes on with the loop that reads a reply.
EnterEmptyReads ==
    /\ pc = "prompt" /\ protocol # "imap"
    /\ pc' = "read"
    /\ UNCHANGED <<outcome, sent, buf, shown, told, pipes,
                   protocol, capabilities, atonce>>

----------------------------------------------------------------------------
\* progress() up to a literal, which ends the loop, or the last complete line.
Progressed(pieces) ==
    LET literals == {i \in DOMAIN pieces : pieces[i].kind = "literal"}
        lines    == {i \in DOMAIN pieces : pieces[i].kind \in {"line", "last"}}
    IN  IF literals # {} THEN CHOOSE i \in literals : \A j \in literals : i <= j
        ELSE IF lines # {} THEN CHOOSE i \in lines : \A j \in lines : j <= i
        ELSE 0

\* One read of the socket, whatever it returns, then the prompt.
ImapRead ==
    /\ protocol = "imap" /\ pc = "read" /\ inbox # <<>>
    /\ \E n \in (IF atonce THEN {Len(inbox)} ELSE 1..Len(inbox)) :
          LET pieces == buf \o SubSeq(inbox, 1, n)
              k      == Progressed(pieces)
          IN  /\ shown' = IF k = 0 THEN shown ELSE pieces[k]
              /\ buf' = SubSeq(pieces, k + 1, Len(pieces))
              /\ inbox' = SubSeq(inbox, n + 1, Len(inbox))
    /\ pc' = "prompt"
    /\ UNCHANGED <<outcome, sent, told, relay, asked, taken, owed,
                   protocol, capabilities, atonce>>

\* The line after which the client prompts: SMTP looks for a space behind
\* the code, which a bare line has not.
Ends(piece) == piece.kind = "last"

(* SMTP reads line by line, ManageSieve a whole response; the first one is *)
(* the greeting.                                                           *)
ReplyRead ==
    /\ protocol # "imap" /\ pc = "read" /\ inbox # <<>>
    /\ inbox' = Tail(inbox) /\ shown' = Head(inbox)
    /\ pc' = IF Ends(Head(inbox)) THEN "prompt" ELSE "read"
    /\ told' = IF protocol = "sieve" /\ sent = 0 /\ pc' = "prompt"
                 THEN ReadBack(ManagesieveGreeting(capabilities)) ELSE told
    /\ UNCHANGED <<outcome, sent, buf, relay, asked, taken, owed,
                   protocol, capabilities, atonce>>

\* read returns 0: the end of the dialogue, an error to the library.
ReadEnd ==
    /\ pc = "read" /\ inbox = <<>> /\ relay = "closed"
    /\ Returns(IF protocol = "sieve" THEN "err" ELSE "ok")
    /\ UNCHANGED <<sent, buf, shown, told, pipes, protocol, capabilities, atonce>>

\* A line goes out and its reply is read.  IMAP sends an empty one as well,
\* behind its tag.
Enter ==
    /\ pc = "prompt" /\ relay = "up" /\ sent < Commands
    /\ sent' = sent + 1 /\ asked' = Append(asked, sent + 1)
    /\ pc' = "read"
    /\ UNCHANGED <<outcome, buf, shown, told, relay, taken, owed, inbox,
                   protocol, capabilities, atonce>>

\* SMTP and ManageSieve prompt again after an empty line.
EnterEmpty ==
    /\ pc = "prompt" /\ protocol # "imap"
    /\ UNCHANGED vars

\* The daemon is gone: the write fails.
EnterFails ==
    /\ pc = "prompt" /\ relay = "closed"
    /\ Returns("err")
    /\ UNCHANGED <<sent, buf, shown, told, pipes, protocol, capabilities, atonce>>

InputEnds ==
    /\ pc = "prompt"
    /\ Returns("ok")
    /\ UNCHANGED <<sent, buf, shown, told, pipes, protocol, capabilities, atonce>>

Client == ImapRead \/ ReplyRead \/ ReadEnd

----------------------------------------------------------------------------
(* The daemon and the server behind it: commands are answered in order,    *)
(* and the session may close at any moment, cutting off what is under way. *)
Plain(shape) == \A i \in DOMAIN shape : shape[i] # "literal"

ServerAnswers ==
    /\ relay = "up" /\ owed = <<>> /\ asked # <<>>
    /\ \E shape \in {s \in Shapes[protocol] : atonce => Plain(s)} :
          owed' = Reply(Head(asked), shape)
    /\ asked' = Tail(asked)
    /\ taken' = FALSE
    /\ UNCHANGED <<client, relay, inbox, protocol, capabilities, atonce>>

\* A line of an SMTP message has no reply, nor has a line that announces a
\* literal, or a part of one, before the literal is complete.
ServerTakes ==
    /\ relay = "up" /\ owed = <<>> /\ asked # <<>>
    /\ asked' = Tail(asked) /\ taken' = TRUE
    /\ UNCHANGED <<client, relay, owed, inbox, protocol, capabilities, atonce>>

ServerSends ==
    /\ relay = "up" /\ owed # <<>>
    /\ LET n == IF atonce THEN Len(owed) ELSE 1 IN
          /\ inbox' = inbox \o SubSeq(owed, 1, n)
          /\ owed' = SubSeq(owed, n + 1, Len(owed))
    /\ UNCHANGED <<client, relay, asked, taken, protocol, capabilities, atonce>>

RelayCloses ==
    /\ relay = "up" /\ relay' = "closed"
    /\ asked' = <<>> /\ taken' = FALSE /\ owed' = <<>>
    /\ \E n \in 0..Len(inbox) : inbox' = SubSeq(inbox, 1, n)
    /\ UNCHANGED <<client, protocol, capabilities, atonce>>

Server == ServerAnswers \/ ServerTakes \/ ServerSends
Over   == pc = "ended" /\ UNCHANGED vars

Next == Client \/ Enter \/ EnterEmpty \/ EnterFails \/ InputEnds
        \/ Server \/ RelayCloses \/ Over

(* The client's process runs, and a server takes what it is sent.          *)
Fairness == WF_vars(Client) /\ WF_vars(Server)

Spec == Init /\ [][Next]_vars /\ Fairness

----------------------------------------------------------------------------
(* At a prompt the reply to the last line sent is on the screen to its     *)
(* end, and nothing is under way either way, so that a client which leaves *)
(* at a prompt leaves no answer to the next one.  Reading by eye as IMAP   *)
(* does needs every reply to come in one go, without a literal.            *)
InStep ==
    pc = "prompt" /\ relay = "up" /\ (protocol = "imap" => atonce) =>
        /\ shown = Piece(sent, "last")
        /\ asked = <<>> /\ owed = <<>> /\ inbox = <<>> /\ buf = <<>>

(* A ManageSieve client learns from its greeting exactly what the upstream *)
(* advertised, STARTTLS and SASL left out, each capability on its own line *)
(* whatever bytes its value has.                                           *)
GreetingReadsBack ==
    protocol = "sieve" /\ pc = "prompt" =>
        LET known == Reachable(capabilities)
        IN  told = [i \in DOMAIN known |-> [name  |-> Kept(<<known[i].name>>),
                                            value |-> {Kept(v) : v \in known[i].value}]]

(* A line brings its user back to a prompt or to the end of the dialogue,  *)
(* the greeting and an empty line included, whatever pieces a reply comes  *)
(* in.  But for two waits, for what will not come: behind a line that the  *)
(* server takes for a part of something, as it does each line of an SMTP   *)
(* message, and, with SMTP, behind a last line that is bare.               *)
Stuck ==
    /\ relay = "up" /\ asked = <<>> /\ owed = <<>> /\ inbox = <<>>
    /\ \/ taken
       \/ protocol = "smtp" /\ shown.kind = "bare"

PromptReturns == (pc = "read") ~> (pc # "read" \/ Stuck)
=============================================================================
