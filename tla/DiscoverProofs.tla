--------------------------- MODULE DiscoverProofs ---------------------------
(***************************************************************************)
(* What the wizard keeps for every document a source may answer with and   *)
(* every URL a user may enter.                                             *)
(***************************************************************************)
EXTENDS Discover, TLAPS

LEMMA ThreeProtocols == Protocols = {"imap", "smtp", "sieve"}
  BY DEF Protocols, ALL

LEMMA SomeOrElse == \A x, d : OrElse(Some(x), d) = x /\ OrElse(None, d) = d
  BY DEF OrElse, Some, None

LEMMA SchemesDiffer ==
  ASSUME NEW p \in Protocols
  PROVE  CleartextScheme(p) # TlsScheme(p)
  BY ThreeProtocols DEF CleartextScheme, TlsScheme

(* The switch a block leaves out is the one its resolution fills in.       *)
LEMMA OverrideRestored ==
  ASSUME NEW p \in Protocols, NEW scheme, NEW starttls \in BOOLEAN
  PROVE  OrElse(StarttlsOverride(p, scheme, starttls), DefaultStarttls(p, scheme)) = starttls
<1>1. CASE starttls # DefaultStarttls(p, scheme)
  BY <1>1, SomeOrElse DEF StarttlsOverride
<1>2. CASE starttls = DefaultStarttls(p, scheme)
  BY <1>2, SomeOrElse DEF StarttlsOverride
<1> QED
  BY <1>1, <1>2

(* A block that carries a scheme of its protocol resolves to its URL, with *)
(* its port, or the scheme's, as the one authentication is told.           *)
LEMMA Resolved ==
  ASSUME NEW p \in Protocols, NEW scheme \in Schemes(p), NEW hosts, NEW port,
         NEW starttls \in BOOLEAN, NEW sasl,
         NEW conn \in ResolveConnection(
               Block([scheme |-> Some(scheme), host |-> hosts, port |-> port],
                     StarttlsOverride(p, scheme, starttls), sasl), p)
  PROVE  /\ conn.url.scheme = scheme /\ conn.url.host \in hosts /\ conn.url.port = port
         /\ conn.starttls = starttls
         /\ conn.port = OrElse(port, DefaultPort(p, scheme))
<1> DEFINE text  == [scheme |-> Some(scheme), host |-> hosts, port |-> port]
           block == Block(text, StarttlsOverride(p, scheme, starttls), sasl)
<1>1. OrElse(text.scheme, DefaultScheme(p)) = scheme
  BY SomeOrElse
<1>2. ParseServer(text, p) = {Url(scheme, h, port) : h \in hosts}
  BY <1>1 DEF ParseServer
<1>3. block.server = text /\ block.starttls = StarttlsOverride(p, scheme, starttls)
  BY DEF Block
<1>4. PICK h \in hosts :
        /\ conn.url = Url(scheme, h, port)
        /\ conn.starttls = OrElse(block.starttls, DefaultStarttls(p, scheme))
        /\ conn.port = OrElse(port, DefaultPort(p, scheme))
  BY <1>2, <1>3 DEF ResolveConnection, Url
<1> QED
  BY <1>3, <1>4, OverrideRestored DEF Url

----------------------------------------------------------------------------
(* A block written for a discovered endpoint resolves to the host and the  *)
(* port discovered, secured as discovered, and never to cleartext.         *)
LEMMA EndpointBlock ==
  ASSUME NEW p \in Protocols, NEW h, NEW port, NEW encryption, NEW sasl,
         NEW conn \in ResolveConnection(
               BuildServer(p, Endpoint(h, port, encryption), sasl), p)
  PROVE  /\ conn.url.host = h /\ conn.port = port
         /\ Security(p, conn) = IF encryption = "starttls" THEN "starttls" ELSE "tls"
<1> DEFINE starttls == encryption = "starttls"
           scheme   == IF starttls THEN CleartextScheme(p) ELSE TlsScheme(p)
<1>1. BuildServer(p, Endpoint(h, port, encryption), sasl)
        = Block([scheme |-> Some(scheme), host |-> Some(h), port |-> Some(port)],
                StarttlsOverride(p, scheme, starttls), sasl)
  BY DEF BuildServer, Endpoint
<1>2. scheme \in Schemes(p) /\ starttls \in BOOLEAN
  BY DEF Schemes
<1>3. /\ conn.url.scheme = scheme /\ conn.url.host \in Some(h)
      /\ conn.starttls = starttls /\ conn.port = OrElse(Some(port), DefaultPort(p, scheme))
  <2> HIDE DEF scheme, starttls
  <2> QED
    BY <1>1, <1>2, Resolved
<1>4. conn.url.host = h
  BY <1>3 DEF Some
<1>5. conn.port = port
  BY <1>3, SomeOrElse
<1> QED
  BY <1>3, <1>4, <1>5, SchemesDiffer DEF Security

(* A block written for a URL resolves to that URL, upgraded if its scheme  *)
(* is the cleartext one.                                                   *)
LEMMA UrlBlock ==
  ASSUME NEW p \in Protocols, NEW u, u.scheme \in Schemes(p), NEW sasl,
         NEW conn \in ResolveConnection(BuildUrlServer(p, u, sasl), p)
  PROVE  /\ conn.url.scheme = u.scheme /\ conn.url.host \in u.host
         /\ conn.url.port = u.port
         /\ Security(p, conn) # "none"
<1> DEFINE starttls == u.scheme = CleartextScheme(p)
<1>1. BuildUrlServer(p, u, sasl)
        = Block([scheme |-> Some(u.scheme), host |-> u.host, port |-> u.port],
                StarttlsOverride(p, u.scheme, starttls), sasl)
  BY DEF BuildUrlServer, ExplicitStarttls
<1>2. starttls \in BOOLEAN
  OBVIOUS
<1>3. /\ conn.url.scheme = u.scheme /\ conn.url.host \in u.host
      /\ conn.url.port = u.port /\ conn.starttls = starttls
  <2> HIDE DEF starttls
  <2> QED
    BY <1>1, <1>2, Resolved
<1> QED
  BY <1>3 DEF Security, Schemes

----------------------------------------------------------------------------
IsEndpoint(e) ==
    \E host, port : \E encryption \in Encryptions : e = Endpoint(host, port, encryption)

\* What a block of p was written from, and for which credential.
WrittenFor(p, block, sasl) ==
    \/ \E u \in url : u.scheme \in Schemes(p) /\ block = BuildUrlServer(p, u, sasl)
    \/ url = None /\ \E e \in found[p] : block = BuildServer(p, e, sasl)

(* How the wizard's state hangs together: nothing is found, built or       *)
(* tested before its stage, a URL rules out discovery, all blocks are      *)
(* written from what was found or entered, with one credential, and each   *)
(* connection tested is the one its block resolves to.                     *)
WizardInv ==
    /\ pc \in {"input", "probe", "undiscovered"} => IsEmpty(found) /\ url = None
    /\ pc \in {"input", "probe", "prompt"} =>
          /\ account = Nothing /\ tested = Nothing
          /\ spawned = 0
    /\ pc = "undiscovered" => sources = <<>> /\ account = Nothing /\ tested = Nothing
    /\ url = None \/ IsEmpty(found)
    /\ \A p \in Protocols : \A e \in found[p] : IsEndpoint(e)
    /\ \E sasl : \A p \in Protocols : \A b \in account[p] : WrittenFor(p, b, sasl)
    /\ tested = [p \in Protocols |-> tested[p]]
    /\ \A p \in Protocols : \A conn \in tested[p] :
          \E b \in account[p] : conn \in ResolveConnection(b, p)
    /\ spawned = 0 \/ (spawned = 1 /\ (pc = "test" => cached))

LEMMA InitWizard == Init => WizardInv
  BY DEF Init, WizardInv, Nothing, IsEmpty, None

(* Every source's answer becomes endpoints, and nothing else.              *)
LEMMA ResultsAreEndpoints ==
  ASSUME NEW source, NEW r \in Results(source), NEW p \in Protocols, NEW e \in r[p]
  PROVE  IsEndpoint(e)
<1>1. CASE r = Nothing
  BY <1>1 DEF Nothing, None
<1>2. CASE \E c : r = PaccDefaults(c)
  BY <1>2, ThreeProtocols DEF PaccDefaults, IsEndpoint, Encryptions
<1>3. CASE \E c : r = SrvDefaults(c)
  BY <1>3, ThreeProtocols DEF SrvDefaults, IsEndpoint, Encryptions, None
<1>4. CASE \E c : r = AutoconfigDefaults(c)
  <2>1. \A s : \A x \in ImapFromServer(s) \union SmtpFromServer(s) : IsEndpoint(x)
    BY DEF ImapFromServer, SmtpFromServer, IsEndpoint, Encryption, Encryptions
  <2> QED
    BY <1>4, <2>1, ThreeProtocols DEF AutoconfigDefaults, None
<1> QED
  BY <1>1, <1>2, <1>3, <1>4 DEF Results

LEMMA NextWizard == WizardInv /\ [Next]_vars => WizardInv'
<1> SUFFICES ASSUME WizardInv, [Next]_vars PROVE WizardInv'
  OBVIOUS
<1>1. CASE UNCHANGED vars
  BY <1>1 DEF vars, dialogue, WizardInv, WrittenFor
<1>2. CASE InputEmail \/ InputDomain
  BY <1>2 DEF InputEmail, InputDomain, WizardInv, WrittenFor
<1>3. CASE InputUrl
  <2>1. PICK u \in InputUrls : url' = Some(u)
    BY <1>3 DEF InputUrl
  <2>2. pc' \in {"prompt", "failed"} /\ pc = "input"
    BY <1>3 DEF InputUrl
  <2>3. UNCHANGED <<sources, found, account, left, tested, cached, spawned>>
    BY <1>3 DEF InputUrl
  <2>4. account = Nothing
    BY <2>2 DEF WizardInv
  <2>5. \A p \in Protocols : account[p] = {}
    BY <2>4 DEF Nothing, None
  <2> QED
    BY <2>2, <2>3, <2>5 DEF WizardInv
<1>4. CASE InputRefused
  BY <1>4 DEF InputRefused, dialogue, WizardInv, WrittenFor
<1>5. CASE Probe
  <2>1. \A p \in Protocols : \A e \in found'[p] : IsEndpoint(e)
    BY <1>5, ResultsAreEndpoints DEF Probe
  <2>2. pc = "probe" /\ pc' \in {"probe", "prompt"} /\ (pc' = "probe" => IsEmpty(found'))
    BY <1>5 DEF Probe
  <2>3. UNCHANGED <<url, account, left, tested, cached, spawned>>
    BY <1>5 DEF Probe
  <2>4. url = None /\ account = Nothing
    BY <2>2 DEF WizardInv
  <2>5. \A p \in Protocols : account[p] = {}
    BY <2>4 DEF Nothing, None
  <2> QED
    BY <2>1, <2>2, <2>3, <2>4, <2>5 DEF WizardInv
<1>6. CASE NothingFound
  BY <1>6 DEF NothingFound, dialogue, WizardInv, WrittenFor
<1>7. CASE PromptSasl
  <2>1. PICK sasl \in Mechanisms : account' = [p \in Protocols |-> Built(p, sasl)]
    BY <1>7 DEF PromptSasl
  <2>2. pc = "prompt" /\ pc' = "test"
    BY <1>7 DEF PromptSasl
  <2>3. UNCHANGED <<url, sources, found, tested, cached, spawned>>
    BY <1>7 DEF PromptSasl
  <2>4. ASSUME NEW p \in Protocols, NEW b \in account'[p] PROVE WrittenFor(p, b, sasl)
    BY <2>1, <2>4 DEF Built, WrittenFor, None
  <2>5. \A p \in Protocols : \A b \in account'[p] : WrittenFor(p, b, sasl)'
    BY <2>3, <2>4 DEF WrittenFor
  <2>6. spawned = 0 /\ \A p \in Protocols : tested[p] = {}
    BY <2>2 DEF WizardInv, Nothing, None
  <2> QED
    BY <2>2, <2>3, <2>5, <2>6 DEF WizardInv
<1>8. CASE PromptFails
  BY <1>8 DEF PromptFails, dialogue, WizardInv, WrittenFor
<1>9. CASE Test
  <2>1. PICK block \in account[Head(left)] : \E conn \in ResolveConnection(block, Head(left)) :
          /\ tested' = [tested EXCEPT ![Head(left)] = Some(conn)]
          /\ IF TakesSecret(block.sasl)
               THEN cached' = TRUE /\ spawned' = IF cached THEN spawned ELSE spawned + 1
               ELSE UNCHANGED <<cached, spawned>>
    BY <1>9 DEF Test
  <2>2. PICK conn \in ResolveConnection(block, Head(left)) :
          tested' = [tested EXCEPT ![Head(left)] = Some(conn)]
    BY <2>1
  <2>3. pc = "test" /\ pc' = "test"
    BY <1>9 DEF Test
  <2>4. UNCHANGED <<url, sources, found, account>>
    BY <1>9 DEF Test, dialogue
  <2>5. spawned' = 0 \/ (spawned' = 1 /\ cached')
    BY <2>1, <2>3 DEF WizardInv
  <2>6. tested' = [p \in Protocols |-> tested'[p]]
    BY <2>2 DEF WizardInv
  <2>7. ASSUME NEW p \in Protocols, NEW c \in tested'[p]
        PROVE  \E b \in account[p] : c \in ResolveConnection(b, p)
    <3>1. CASE p = Head(left)
      <4>1. tested'[p] = Some(conn)
        BY <2>2, <3>1 DEF WizardInv
      <4> QED
        BY <3>1, <4>1 DEF Some
    <3>2. CASE p # Head(left)
      BY <2>2, <2>7, <3>2 DEF WizardInv
    <3> QED
      BY <3>1, <3>2
  <2>8. ASSUME NEW sasl, \A p \in Protocols : \A b \in account[p] : WrittenFor(p, b, sasl)
        PROVE  (\A p \in Protocols : \A b \in account[p] : WrittenFor(p, b, sasl))'
    BY <2>4, <2>8 DEF WrittenFor
  <2>9. ASSUME NEW p \in Protocols, NEW c \in tested'[p]
        PROVE  \E b \in account'[p] : c \in ResolveConnection(b, p)
    BY <2>4, <2>7
  <2> QED
    BY <2>3, <2>4, <2>5, <2>6, <2>8, <2>9 DEF WizardInv
<1>10. CASE TestFails
  <2>1. pc = "test" /\ pc' = "failed" /\ spawned' \in {spawned, spawned + 1}
    BY <1>10 DEF TestFails
  <2>2. spawned' = 0 \/ spawned' = 1
    <3>1. CASE cached
      <4>1. spawned' = spawned
        BY <1>10, <3>1, Zenon DEF TestFails
      <4> QED
        BY <4>1 DEF WizardInv
    <3>2. CASE ~cached
      <4>1. spawned = 0
        BY <2>1, <3>2 DEF WizardInv
      <4> QED
        BY <2>1, <4>1
    <3> QED
      BY <3>1, <3>2
  <2>3. UNCHANGED <<url, sources, found, account, left, tested>>
    BY <1>10 DEF TestFails, dialogue
  <2> QED
    BY <2>1, <2>2, <2>3 DEF WizardInv, WrittenFor
<1>11. CASE HandBack
  BY <1>11 DEF HandBack, dialogue, WizardInv, WrittenFor
<1> QED
  BY <1>1, <1>2, <1>3, <1>4, <1>5, <1>6, <1>7, <1>8, <1>9, <1>10, <1>11 DEF Next, Over

----------------------------------------------------------------------------
(* Whatever a user enters and a source answers, no block the wizard builds *)
(* resolves to a connection in the clear.                                  *)
THEOREM AlwaysEncrypted == Spec => []NeverInTheClear
<1>1. WizardInv => NeverInTheClear
  <2> SUFFICES ASSUME WizardInv, NEW p \in Protocols, NEW block \in account[p],
                      NEW conn \in ResolveConnection(block, p)
               PROVE  Security(p, conn) # "none"
    BY DEF NeverInTheClear
  <2>1. PICK sasl : WrittenFor(p, block, sasl)
    BY DEF WizardInv
  <2>2. CASE \E u \in url : u.scheme \in Schemes(p) /\ block = BuildUrlServer(p, u, sasl)
    BY <2>2, UrlBlock
  <2>3. CASE \E e \in found[p] : block = BuildServer(p, e, sasl)
    <3>1. PICK h, port, enc : block = BuildServer(p, Endpoint(h, port, enc), sasl)
      BY <2>3 DEF WizardInv, IsEndpoint
    <3> QED
      BY <3>1, EndpointBlock
  <2> QED
    BY <2>1, <2>2, <2>3 DEF WrittenFor
<1> QED
  BY <1>1, InitWizard, NextWizard, PTL DEF Spec

(* Each connection tested is the one that was discovered or entered.       *)
THEOREM ConnectsWhereTold == Spec => []ConnectsAsFound
<1>1. WizardInv => ConnectsAsFound
  <2> SUFFICES ASSUME WizardInv, NEW p \in Protocols, NEW conn \in tested[p]
               PROVE  \/ \E e \in found[p] :
                            /\ conn.url.host = e.host /\ conn.port = e.port
                            /\ e.encryption # "none" => Security(p, conn) = e.encryption
                      \/ \E u \in url :
                            /\ conn.url.scheme = u.scheme /\ conn.url.host \in u.host
                            /\ conn.url.port = u.port
    BY DEF ConnectsAsFound
  <2>1. PICK block \in account[p] : conn \in ResolveConnection(block, p)
    BY DEF WizardInv
  <2>2. PICK sasl : WrittenFor(p, block, sasl)
    BY DEF WizardInv
  <2>3. CASE \E u \in url : u.scheme \in Schemes(p) /\ block = BuildUrlServer(p, u, sasl)
    BY <2>1, <2>3, UrlBlock
  <2>4. ASSUME NEW e \in found[p], block = BuildServer(p, e, sasl)
        PROVE  /\ conn.url.host = e.host /\ conn.port = e.port
               /\ e.encryption # "none" => Security(p, conn) = e.encryption
    <3>1. PICK h, port : \E enc \in Encryptions : e = Endpoint(h, port, enc)
      BY DEF WizardInv, IsEndpoint
    <3> PICK enc \in Encryptions : e = Endpoint(h, port, enc)
      BY <3>1
    <3>2. conn \in ResolveConnection(BuildServer(p, Endpoint(h, port, enc), sasl), p)
      BY <2>1, <2>4
    <3>3. /\ conn.url.host = h /\ conn.port = port
          /\ Security(p, conn) = IF enc = "starttls" THEN "starttls" ELSE "tls"
      BY <3>2, EndpointBlock
    <3>4. e.host = h /\ e.port = port /\ e.encryption = enc
      BY DEF Endpoint
    <3> QED
      BY <3>3, <3>4 DEF Encryptions
  <2> QED
    BY <2>2, <2>3, <2>4 DEF WrittenFor
<1> QED
  BY <1>1, InitWizard, NextWizard, PTL DEF Spec

(* No answer without a mail endpoint ends the chain.                       *)
THEOREM EverySourceIsAsked == Spec => []MissHidesNothing
<1>1. WizardInv => MissHidesNothing
  BY DEF WizardInv, MissHidesNothing
<1> QED
  BY <1>1, InitWizard, NextWizard, PTL DEF Spec

(* One credential, whose command runs once, for every block of an account. *)
THEOREM CredentialAskedOnce == Spec => []OneCredential
<1>1. WizardInv => OneCredential
  <2> SUFFICES ASSUME WizardInv
               PROVE  /\ spawned <= 1
                      /\ \A p, q \in Protocols : \A b \in account[p], c \in account[q] :
                            b.sasl = c.sasl
    BY DEF OneCredential
  <2>1. spawned <= 1
    BY DEF WizardInv
  <2>2. PICK sasl : \A p \in Protocols : \A b \in account[p] : WrittenFor(p, b, sasl)
    BY DEF WizardInv
  <2>3. \A p \in Protocols : \A b \in account[p] : b.sasl = sasl
    BY <2>2 DEF WrittenFor, BuildServer, BuildUrlServer, Block
  <2> QED
    BY <2>1, <2>3
<1> QED
  BY <1>1, InitWizard, NextWizard, PTL DEF Spec
=============================================================================
