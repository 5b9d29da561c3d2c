------------------------------ MODULE Discover ------------------------------
(***************************************************************************)
(* wizard::discover::run: one prompt, a chain of discovery probes, one     *)
(* credential, a block per endpoint found, and a test connection for each  *)
(* before the account is handed back.                                      *)
(*                                                                         *)
(* What a probe answers is the environment's choice among the documents    *)
(* the constants list; a probe that fails answers Miss.                    *)
(***************************************************************************)
EXTENDS Servers

CONSTANTS
    Hosts,              \* host names
    PaccAnswers,        \* PACC documents
    AutoconfigAnswers,  \* Mozilla autoconfig documents
    SrvAnswers,         \* SRV reports
    InputUrls,          \* URLs a user may enter
    Mechanisms,         \* SASL mechanisms of the menu, "anonymous" among them
    HasSieve            \* the `sieve` cargo feature

Option(S) == {None} \union {Some(x) : x \in S}

ASSUME DiscoverAssumption ==
    /\ \A c \in PaccAnswers : {c.imap, c.smtp, c.sieve} \subseteq Option(Hosts)
    /\ \A u \in InputUrls : u.host \in Option(Hosts) /\ u.port \in SUBSET Nat
    /\ HasSieve \in BOOLEAN

VARIABLES
    pc,       \* where the wizard stands
    url,      \* the URL entered, if one was
    sources,  \* the probes left, in order
    found,    \* the endpoints discovered
    account,  \* the blocks built
    left,     \* the protocols left to test
    tested,   \* the connections that passed their test
    cached,   \* the resolver holds the secret
    spawned   \* times the credential command was run

dialogue == <<url, sources, found, account>>
vars     == <<pc, dialogue, left, tested, cached, spawned>>

Nothing    == [p \in Protocols |-> None]
IsEmpty(r) == \A p \in Protocols : r[p] = None

----------------------------------------------------------------------------
(* What becomes of each source's answer.                                   *)

\* pacc::defaults: a host, the rest assumed.
PaccDefaults(config) ==
    [imap  |-> {Endpoint(h, 993, "tls") : h \in config.imap},
     smtp  |-> {Endpoint(h, 465, "tls") : h \in config.smtp},
     sieve |-> {Endpoint(h, 4190, "tls") : h \in config.sieve}]

Encryption(server) ==
    IF server.socket \in {"tls", "starttls"} THEN server.socket ELSE "none"
ImapFromServer(server) ==
    LET encryption == Encryption(server)
        port == IF encryption = "tls" THEN 993 ELSE 143
    IN  {Endpoint(h, OrElse(server.port, port), encryption) : h \in server.host}
SmtpFromServer(server) ==
    LET encryption == Encryption(server)
        port == CASE encryption = "tls" -> 465
                  [] encryption = "starttls" -> 587
                  [] encryption = "none" -> 25
    IN  {Endpoint(h, OrElse(server.port, port), encryption) : h \in server.host}

\* The first server of a type, the others never looked at.
First(servers, type) ==
    LET those == SelectSeq(servers, LAMBDA s : s.type = type)
    IN  IF those = <<>> THEN None ELSE Some(Head(those))

AutoconfigDefaults(config) ==
    [imap  |-> UNION {ImapFromServer(s) : s \in First(config.incoming, "imap")},
     smtp  |-> UNION {SmtpFromServer(s) : s \in First(config.outgoing, "smtp")},
     sieve |-> None]

\* _imaps before _imap; a submission port of 465 is implicit TLS.
SrvDefaults(report) ==
    [imap  |-> IF report.imaps # None
                 THEN {Endpoint(s.host, s.port, "tls") : s \in report.imaps}
                 ELSE {Endpoint(s.host, s.port, "starttls") : s \in report.imap},
     smtp  |-> {Endpoint(s.host, s.port, IF s.port = 465 THEN "tls" ELSE "starttls")
                  : s \in report.submission},
     sieve |-> None]

\* What the probe of a source may come back with, a miss included.
Results(source) ==
    {Nothing} \union
    CASE source = "pacc" -> {PaccDefaults(c) : c \in PaccAnswers}
      [] source = "srv"  -> {SrvDefaults(r) : r \in SrvAnswers}
      [] OTHER           -> {AutoconfigDefaults(c) : c \in AutoconfigAnswers}

----------------------------------------------------------------------------
(* Slips of the code the runs must notice.  Each stands for one action     *)
(* below and no specification uses it.                                     *)

\* Any answer ends the chain, whatever it holds.
ProbeAny ==
    /\ pc = "probe" /\ sources # <<>>
    /\ found' \in Results(Head(sources))
    /\ pc' = IF IsEmpty(found') THEN "undiscovered" ELSE "prompt"
    /\ UNCHANGED <<url, sources, account, left, tested, cached, spawned>>

\* A resolver of its own for each block.
TestAfresh ==
    /\ pc = "test" /\ left # <<>>
    /\ LET p == Head(left) IN
          \E block \in account[p] : \E conn \in ResolveConnection(block, p) :
             /\ tested' = [tested EXCEPT ![p] = Some(conn)]
             /\ spawned' = spawned + (IF TakesSecret(block.sasl) THEN 1 ELSE 0)
    /\ left' = Tail(left)
    /\ UNCHANGED <<pc, dialogue, cached>>

----------------------------------------------------------------------------
Init ==
    /\ pc = "input" /\ url = None /\ sources = <<>>
    /\ found = Nothing /\ account = Nothing
    /\ left = <<>> /\ tested = Nothing
    /\ cached = FALSE /\ spawned = 0

\* An email address: the ISP's own document is keyed by it.
InputEmail ==
    /\ pc = "input"
    /\ pc' = "probe" /\ sources' = <<"pacc", "isp", "ispfallback", "ispdb", "srv">>
    /\ UNCHANGED <<url, found, account, left, tested, cached, spawned>>

\* A bare domain.
InputDomain ==
    /\ pc = "input"
    /\ pc' = "probe" /\ sources' = <<"pacc", "ispfallback", "ispdb", "srv">>
    /\ UNCHANGED <<url, found, account, left, tested, cached, spawned>>

(* A URL: no discovery, one block.  It needs a host, and a scheme one of   *)
(* the protocols speaks.                                                   *)
Accepted(u) == u.host # None /\ \E p \in Protocols : u.scheme \in Schemes(p)

InputUrl ==
    /\ pc = "input"
    /\ \E u \in InputUrls :
          /\ url' = Some(u)
          /\ pc' = IF Accepted(u) THEN "prompt" ELSE "failed"
    /\ UNCHANGED <<sources, found, account, left, tested, cached, spawned>>

\* Empty, or not a URL the url crate parses.
InputRefused ==
    /\ pc = "input"
    /\ pc' = "failed"
    /\ UNCHANGED <<dialogue, left, tested, cached, spawned>>

----------------------------------------------------------------------------
\* discover(): the first source with an endpoint in it wins.
Probe ==
    /\ pc = "probe" /\ sources # <<>>
    /\ sources' = Tail(sources)
    /\ found' \in Results(Head(sources))
    /\ pc' = IF IsEmpty(found') THEN "probe" ELSE "prompt"
    /\ UNCHANGED <<url, account, left, tested, cached, spawned>>

NothingFound ==
    /\ pc = "probe" /\ sources = <<>>
    /\ pc' = "undiscovered"
    /\ UNCHANGED <<dialogue, left, tested, cached, spawned>>

(* One credential for the whole account, then its blocks: one for a URL,   *)
(* one per endpoint found otherwise.                                       *)
Built(p, sasl) ==
    IF url # None
      THEN {BuildUrlServer(p, u, sasl) : u \in {v \in url : v.scheme \in Schemes(p)}}
    ELSE IF p = "sieve" /\ ~HasSieve THEN None
    ELSE {BuildServer(p, e, sasl) : e \in found[p]}

PromptSasl ==
    /\ pc = "prompt"
    /\ \E sasl \in Mechanisms : account' = [p \in Protocols |-> Built(p, sasl)]
    /\ left' = SelectSeq(ALL, LAMBDA p : account'[p] # None)
    /\ pc' = "test"
    /\ UNCHANGED <<url, sources, found, tested, cached, spawned>>

\* The prompt is left, or the keyring refuses the entry.
PromptFails ==
    /\ pc = "prompt"
    /\ pc' = "failed"
    /\ UNCHANGED <<dialogue, left, tested, cached, spawned>>

----------------------------------------------------------------------------
(* One pass of the loop in run(): resolve the block, through the one       *)
(* resolver of the account, then connect and authenticate once.            *)
Test ==
    /\ pc = "test" /\ left # <<>>
    /\ LET p == Head(left) IN
          /\ p = "sieve" => HasSieve
          /\ \E block \in account[p] : \E conn \in ResolveConnection(block, p) :
                /\ tested' = [tested EXCEPT ![p] = Some(conn)]
                /\ IF TakesSecret(block.sasl)
                     THEN /\ cached' = TRUE
                          /\ spawned' = IF cached THEN spawned ELSE spawned + 1
                     ELSE UNCHANGED <<cached, spawned>>
    /\ left' = Tail(left)
    /\ UNCHANGED <<pc, dialogue>>

\* A secret, resolved or not, or a server that fails takes the account down.
TestFails ==
    /\ pc = "test" /\ left # <<>>
    /\ pc' = "failed" /\ cached' = FALSE
    /\ spawned' = IF cached \/ \A block \in account[Head(left)] : ~TakesSecret(block.sasl)
                    THEN spawned ELSE spawned + 1
    /\ UNCHANGED <<dialogue, left, tested>>

HandBack ==
    /\ pc = "test" /\ left = <<>>
    /\ pc' = "returned" /\ cached' = FALSE
    /\ UNCHANGED <<dialogue, left, tested, spawned>>

Over == pc \in {"returned", "failed", "undiscovered"} /\ UNCHANGED vars

Next ==
    \/ InputEmail \/ InputDomain \/ InputUrl \/ InputRefused
    \/ Probe \/ NothingFound \/ PromptSasl \/ PromptFails
    \/ Test \/ TestFails \/ HandBack \/ Over

Spec == Init /\ [][Next]_vars

----------------------------------------------------------------------------
(* Every block connects where discovery, or the URL, said, secured as it   *)
(* said: the host, the port and the encryption survive the server string,  *)
(* the switch left out when it restates a default, and the resolution that *)
(* fills it in again.  An endpoint discovered without encryption is        *)
(* excepted here.                                                          *)
ConnectsAsFound ==
    \A p \in Protocols : \A conn \in tested[p] :
        \/ \E e \in found[p] :
              /\ conn.url.host = e.host /\ conn.port = e.port
              /\ e.encryption # "none" => Security(p, conn) = e.encryption
        \/ \E u \in url :
              /\ conn.url.scheme = u.scheme /\ conn.url.host \in u.host
              /\ conn.url.port = u.port

(* No credential the wizard asked for goes out in the clear, to test a     *)
(* block or to serve it: each is encrypted from the first byte or upgraded.*)
NeverInTheClear ==
    \A p \in Protocols : \A block \in account[p] :
        \A conn \in ResolveConnection(block, p) : Security(p, conn) # "none"

(* The wizard gives up on a domain only after every source missed, however *)
(* many of them answered with nothing it can use.                          *)
MissHidesNothing == pc = "undiscovered" => sources = <<>> /\ IsEmpty(found)

(* One credential for the account: every block carries it, and its command *)
(* runs once for all the tests.                                            *)
OneCredential ==
    /\ spawned <= 1
    /\ \A p, q \in Protocols : \A b \in account[p], c \in account[q] : b.sasl = c.sasl
=============================================================================
