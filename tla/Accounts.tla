------------------------------ MODULE Accounts ------------------------------
(***************************************************************************)
(* Which protocols of an account `sirup start` serves, and in which order: *)
(* the blocks the account declares, narrowed to the ones the command line  *)
(* asks for.                                                               *)
(***************************************************************************)
EXTENDS Servers, Sequences, SequencesExt

\* The blocks an account declares, in the order it serves them.
DeclaredProtocols(blocks) ==
    FlattenSeq([i \in 1..Len(ALL) |-> IF ALL[i] \in blocks THEN <<ALL[i]>> ELSE <<>>])

----------------------------------------------------------------------------
(* A slip of the code the runs must notice: it stands for the operator     *)
(* below and no specification uses it.                                     *)

\* Every protocol is pushed, whether it has been selected already or not.
SelectProtocolsTwice(blocks, asked) ==
    IF asked = <<>> THEN DeclaredProtocols(blocks)
    ELSE IF blocks = {} \/ ~(ToSet(asked) \subseteq blocks) THEN <<>>
    ELSE asked

----------------------------------------------------------------------------
(* Nothing where the code refuses: an account without a block, or one      *)
(* asked for that it does not declare.                                     *)
SelectProtocols(blocks, asked) ==
    IF asked = <<>> THEN DeclaredProtocols(blocks)
    ELSE IF blocks = {} \/ ~(ToSet(asked) \subseteq blocks) THEN <<>>
    ELSE LET selected[i \in 0..Len(asked)] ==
                 IF i = 0 THEN <<>>
                 ELSE IF Contains(selected[i - 1], asked[i]) THEN selected[i - 1]
                 ELSE Append(selected[i - 1], asked[i])
         IN  selected[Len(asked)]
=============================================================================
