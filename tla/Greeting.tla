------------------------------ MODULE Greeting ------------------------------
(***************************************************************************)
(* What serve_one greets a ManageSieve client with: managesieve_greeting   *)
(* and quote, and how the client's library reads the answer.               *)
(*                                                                         *)
(* A byte is told apart as far as the quoting does: "quote", "backslash",  *)
(* "cr" and "lf"; a name is one unit.  A capability's value is a set of at *)
(* most one sequence of bytes.                                             *)
(***************************************************************************)
EXTENDS Naturals, Sequences, SequencesExt

LineEnds == {"cr", "lf"}

\* Capabilities with no use behind the socket, in whatever case.
UNREACHABLE == {"STARTTLS", "StartTLS", "SASL", "sasl"}

----------------------------------------------------------------------------
(* Slips of the code the runs must notice.  Each stands for one operator   *)
(* below and no specification uses it.                                     *)

\* The backslash written as it is.
EscapedQuoteOnly(byte) ==
    CASE byte \in LineEnds -> <<>>
      [] byte = "quote"    -> <<"backslash", byte>>
      [] OTHER             -> <<byte>>

----------------------------------------------------------------------------
Escaped(byte) ==
    CASE byte \in LineEnds               -> <<>>
      [] byte \in {"quote", "backslash"} -> <<"backslash", byte>>
      [] OTHER                           -> <<byte>>

Quote(value) ==
    <<"quote">> \o FlattenSeq([i \in DOMAIN value |-> Escaped(value[i])]) \o <<"quote">>

Reachable(capabilities) ==
    FlattenSeq([i \in DOMAIN capabilities |->
        IF capabilities[i].name \in UNREACHABLE THEN <<>> ELSE <<capabilities[i]>>])

\* The lines of the greeting, a name and at most one value each.
ManagesieveGreeting(capabilities) ==
    LET known == Reachable(capabilities)
    IN  [i \in DOMAIN known |-> [name  |-> Quote(<<known[i].name>>),
                                 value |-> {Quote(v) : v \in known[i].value}]]

----------------------------------------------------------------------------
(* The reader of the library, byte by byte: a quote opens the string and   *)
(* closes it, a backslash takes the byte after it as it is, and a line end *)
(* inside the string or a byte behind it breaks the response.              *)
Broken == <<"broken">>

ReadByte(read, byte) ==
    LET To(mode) == [read EXCEPT !.mode = mode]
        Taken    == [mode |-> "inside", text |-> Append(read.text, byte)]
    IN  CASE read.mode = "escaped"                        -> Taken
          [] read.mode = "before" /\ byte = "quote"       -> To("inside")
          [] read.mode = "inside" /\ byte = "quote"       -> To("behind")
          [] read.mode = "inside" /\ byte = "backslash"   -> To("escaped")
          [] read.mode = "inside"
             /\ byte \notin LineEnds \union {"quote", "backslash"} -> Taken
          [] OTHER                                        -> To("broken")

ReadString(bytes) ==
    LET read[i \in 0..Len(bytes)] ==
            IF i = 0 THEN [mode |-> "before", text |-> <<>>]
                     ELSE ReadByte(read[i - 1], bytes[i])
        end == read[Len(bytes)]
    IN  IF end.mode = "behind" THEN end.text ELSE Broken

ReadBack(lines) ==
    [i \in DOMAIN lines |-> [name  |-> ReadString(lines[i].name),
                             value |-> {ReadString(v) : v \in lines[i].value}]]

----------------------------------------------------------------------------
\* What the client should read: the text without its line ends.
Kept(value) ==
    FlattenSeq([i \in DOMAIN value |-> IF value[i] \in LineEnds THEN <<>> ELSE <<value[i]>>])
=============================================================================
