------------------------------- MODULE MCRepl -------------------------------
(***************************************************************************)
(* Repl for TLC: replies of one line and of several, in one piece and in   *)
(* two, with a literal or a bare last line where the protocol has them;    *)
(* values with every byte the quoting looks at, in every place.            *)
(***************************************************************************)
EXTENDS Repl

Lines == {<<"last">>, <<"part", "last">>, <<"line", "last">>}
MCShapes ==
    [p \in {"imap", "smtp", "sieve"} |->
        Lines \union IF p = "smtp" THEN {<<"bare">>, <<"line", "bare">>}
                     ELSE {<<"line", "literal", "line", "last">>}]

Bytes      == {"quote", "backslash", "lf", "letter"}
Value      == UNION {[1..n -> Bytes] : n \in 0..2}
Owner(v)   == [name |-> "OWNER", value |-> v]
Hidden     == {<<>>, <<[name |-> "sasl", value |-> {<<"letter">>}]>>,
               <<[name |-> "STARTTLS", value |-> {}]>>}
MCCapabilities ==
    {h \o <<Owner(v)>> \o h : h \in Hidden, v \in {{}} \union {{w} : w \in Value}}
=============================================================================
