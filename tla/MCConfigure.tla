---------------------------- MODULE MCConfigure ----------------------------
(***************************************************************************)
(* Configure for TLC: files with the label free, taken, or taken with its  *)
(* suffix, with and without a default, with an unterminated last line, one *)
(* with its account inline, and one that does not parse.                   *)
(***************************************************************************)
EXTENDS Configure, TLC

Example(k, dflt) == Table(Name("example", k), dflt)
Work             == Table(Name("work", 1), TRUE)

MCHandmade ==
    {<<Work, LineEnd>>,
     <<Example(1, FALSE)>>,
     <<Example(1, TRUE), LineEnd, Example(2, FALSE), LineEnd>>,
     <<[Example(1, FALSE) EXCEPT !.kind = "inline"], LineEnd>>,
     <<Work, Garbage>>}

Request(cmd, mode, asked) == [cmd |-> cmd, mode |-> mode, asked |-> asked]
MCRequests ==
    {Request("configure", "terminal", NoName), Request("configure", "json", NoName),
     Request("configure", "script", NoName),
     Request("bare", "terminal", NoName), Request("bare", "script", NoName),
     Request("use", "terminal", NoName), Request("use", "redirected", Name("work", 1))}

Symmetry == Permutations(Runs)
=============================================================================
