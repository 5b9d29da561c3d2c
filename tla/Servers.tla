------------------------------ MODULE Servers ------------------------------
(***************************************************************************)
(* protocol.rs and the servers of config.rs: the schemes, ports and        *)
(* switches of each protocol, what a `server` string parses to, and the    *)
(* connection a block resolves to; with them the blocks that               *)
(* wizard/discover.rs writes for an endpoint or a URL.                     *)
(*                                                                         *)
(* An optional value is a set of at most one element.  A server string is  *)
(* its parts; the TLS profile, ALPN and allow-cleartext-auth are passed on *)
(* unchanged, and left out.                                                *)
(***************************************************************************)
EXTENDS Naturals, Sequences

None             == {}
Some(x)          == {x}
OrElse(opt, def) == IF opt = None THEN def ELSE CHOOSE x \in opt : TRUE

----------------------------------------------------------------------------
\* Protocol::ALL, in the order an account serves them.
ALL       == <<"imap", "smtp", "sieve">>
Protocols == {ALL[i] : i \in DOMAIN ALL}

CleartextScheme(p) == p
TlsScheme(p) == CASE p = "imap"  -> "imaps"
                  [] p = "smtp"  -> "smtps"
                  [] p = "sieve" -> "sieves"
Schemes(p)   == {CleartextScheme(p), TlsScheme(p)}

\* The scheme of a bare authority.
DefaultScheme(p) == IF p = "sieve" THEN CleartextScheme(p) ELSE TlsScheme(p)

\* Whether STARTTLS is on when the block does not say.
DefaultStarttls(p, scheme) == p = "sieve" /\ scheme = CleartextScheme(p)

DefaultPort(p, scheme) ==
    CASE p = "imap"  -> IF scheme = TlsScheme(p) THEN 993 ELSE 143
      [] p = "smtp"  -> IF scheme = TlsScheme(p) THEN 465 ELSE 25
      [] p = "sieve" -> 4190

----------------------------------------------------------------------------
Url(scheme, host, port) == [scheme |-> scheme, host |-> host, port |-> port]

\* parse_server: text has an optional scheme, host and port.
ParseServer(text, p) ==
    LET scheme == OrElse(text.scheme, DefaultScheme(p)) IN
    IF scheme \in Schemes(p)
      THEN {Url(scheme, host, text.port) : host \in text.host}
      ELSE None

\* try_into_sasl: every other mechanism resolves a secret.
TakesSecret(mechanism) == mechanism # "anonymous"

\* ServerConfig::resolve_connection; port is what OAUTHBEARER is given.
ResolveConnection(block, p) ==
    {[url      |-> url,
      starttls |-> OrElse(block.starttls, DefaultStarttls(p, url.scheme)),
      port     |-> OrElse(url.port, DefaultPort(p, url.scheme)),
      sasl     |-> block.sasl] : url \in ParseServer(block.server, p)}

(* connect(): whichever the protocol, its library is given the URL and the *)
(* switch, and secures the connection from its first byte, by STARTTLS or  *)
(* not at all.                                                             *)
Security(p, conn) ==
    IF conn.url.scheme = TlsScheme(p) THEN "tls"
    ELSE IF conn.starttls THEN "starttls" ELSE "none"

----------------------------------------------------------------------------
(* Slips of the code the runs must notice.  Each stands for one operator   *)
(* below and no specification uses it.                                     *)

\* The comparison with the default turned around.
StarttlsOverrideSame(p, scheme, starttls) ==
    IF starttls = DefaultStarttls(p, scheme) THEN Some(starttls) ELSE None

\* A URL's block left to the protocol's default.
ExplicitStarttlsUnset(p, scheme) == None

----------------------------------------------------------------------------
Encryptions == {"tls", "starttls", "none"}
Endpoint(host, port, encryption) ==
    [host |-> host, port |-> port, encryption |-> encryption]

\* starttls_override: nothing when the protocol already says it.
StarttlsOverride(p, scheme, starttls) ==
    IF starttls # DefaultStarttls(p, scheme) THEN Some(starttls) ELSE None

\* explicit_starttls: a cleartext URL is upgraded.
ExplicitStarttls(p, scheme) ==
    StarttlsOverride(p, scheme, scheme = CleartextScheme(p))

Block(server, starttls, sasl) ==
    [server |-> server, starttls |-> starttls, sasl |-> sasl]

\* build_server and the three builders that call it.
BuildServer(p, endpoint, sasl) ==
    LET starttls == endpoint.encryption = "starttls"
        scheme   == IF starttls THEN CleartextScheme(p) ELSE TlsScheme(p)
    IN  Block([scheme |-> Some(scheme), host |-> Some(endpoint.host),
               port |-> Some(endpoint.port)],
              StarttlsOverride(p, scheme, starttls), sasl)

\* The block build_url_account writes: the URL as it was given.
BuildUrlServer(p, url, sasl) ==
    Block([scheme |-> Some(url.scheme), host |-> url.host, port |-> url.port],
          ExplicitStarttls(p, url.scheme), sasl)
=============================================================================
