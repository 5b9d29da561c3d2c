----------------------------- MODULE MCDiscover -----------------------------
(***************************************************************************)
(* Discover for TLC: documents that hold each protocol or not, servers of  *)
(* every encryption with a port of their own or without, servers without a *)
(* host and servers of another type before the one looked for.             *)
(***************************************************************************)
EXTENDS Discover

MCHosts == {"host", "pop"}
Host    == Option({"host"})

MCPaccAnswers == [imap : Host, smtp : Host, sieve : Host]

Server(type, ports) ==
    [type : {type}, host : {Some("host")},
     socket : {"tls", "starttls", "plain"}, port : ports]
Nameless(type) == [type |-> type, host |-> None, socket |-> "tls", port |-> None]
Pop            == [type |-> "pop3", host |-> Some("pop"), socket |-> "tls", port |-> None]

Lists(type, ports) ==
    {<<>>, <<Pop>>} \union {<<s>> : s \in Server(type, ports)}
        \union {<<Pop, s>> : s \in Server(type, ports)}
        \union {<<Nameless(type), s>> : s \in Server(type, ports)}

MCAutoconfigAnswers ==
    [incoming : Lists("imap", {None, Some(993), Some(143), Some(1143)}),
     outgoing : Lists("smtp", {None, Some(465), Some(587), Some(25)})]

Service(ports)  == Option([host : {"host"}, port : ports])
MCSrvAnswers    == [imaps : Service({993, 1993}), imap : Service({143, 993}),
                    submission : Service({465, 587})]

MCInputUrls ==
    [scheme : {"imap", "imaps", "smtp", "smtps", "sieve", "sieves", "https"},
     host : Host, port : {None, Some(993), Some(4190)}]

MCMechanisms == {"anonymous", "plain", "oauthbearer"}
=============================================================================
