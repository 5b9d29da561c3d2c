----------------------------- MODULE MCDaemon -----------------------------
(***************************************************************************)
(* Daemon for TLC: an account of IMAP and SMTP whose SMTP block names its  *)
(* socket itself, and units that ask for everything, for one protocol,     *)
(* for one twice, or for one that is not declared.                         *)
(***************************************************************************)
EXTENDS Daemon

MCBlocks       == {"imap", "smtp"}
MCLines        == {<<>>, <<"imap">>, <<"smtp", "smtp">>, <<"sieve">>}
MCPaths        == {"imap.sock", "smtp.sock", "sieve.sock", "own"}
MCSockFile     == [p \in Protocols |-> IF p = "smtp" THEN {"own"} ELSE {}]
MCDerivedPath  == [p \in Protocols |-> CASE p = "imap"  -> "imap.sock"
                                         [] p = "smtp"  -> "smtp.sock"
                                         [] p = "sieve" -> "sieve.sock"]
MCSecrets      == {"shared", "own"}
MCSecretOf     == [p \in Protocols |-> IF p = "sieve" THEN "own" ELSE "shared"]

\* The whole account at once, in one unit.
MCAllBlocks    == {"imap", "smtp", "sieve"}
MCBare         == {<<>>}
=============================================================================
