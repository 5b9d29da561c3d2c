# A TLA+ model of sirup

sirup opens one authenticated upstream session (IMAP, SMTP or ManageSieve) per
protocol of an account, binds a Unix socket for each and lets local programs
attach, one at a time per socket, to a session that is already logged in. It is
a small program whose difficulty is in its threads: two per attached client, one
per protocol, one flag per group, an upstream that outlives its clients, and a
keepalive that shares the stream with them. This directory models that core,
checks it with TLC and proves part of it with TLAPS.

## The system

| Component | State it keeps | Operations | Hard behaviours | What makes it correct |
|---|---|---|---|---|
| `start` (`cli.rs`, `session::open/serve/bind`) | open sessions, the secret resolver, listeners, socket files, the flag the workers share | open all, drop secrets, bind all, spawn, join, exit | a failure between two steps, kills and restarts, two processes on one account | nothing bound half-open, no plaintext kept, first failure ends the run, exit status tells, sockets belong to who serves them |
| accept loop (`serve_one`) | timer, stream mode, current client | poll, NOOP, greet, proxy | a client that comes and goes at any point, answers left behind, a dead or late upstream, a sibling's failure | NOOP on time, alone, on a blocking stream; never proxies on further out of step than clients left it; ends when it must |
| proxy (`proxy`, `client_to_channel`, `upstream_pump`, `write_upstream`) | the channel, the flag of the two threads, data in hand | read, forward, send, write, clean up | interleaving of two threads and two peers, partial writes, full buffers, hang-ups on either side | ordered and lossless while both ends live, ends when one leaves, hands back what it borrowed |
| connect (`connect`, `test`) | none of its own | dispatch to the protocol libraries | remote failures | no credential in the clear; Daemon's `Open` / `OpenFails`, Discover's `Test` / `TestFails` |
| greeting (`managesieve_greeting`, `quote`) | none | rendering | values that come from the server go out inside quotes | a client reads back what the upstream advertised, no unreachable capability |
| configuration (`config.rs`, `protocol.rs`) | none at run time | parse, defaults, resolve | defaults per protocol and scheme | a generated account connects where discovery found it |
| account selection (`cli.rs`, `select_protocols`) | the leftover configuration | pick account and protocols | several defaults, reserved name, a protocol asked for twice or not declared | the account asked for is the one used, each protocol once |
| wizard (`wizard/*.rs`) | a snapshot of the file | discover, test, save or append | the file changes during the dialogue, probe order | never overwrites, names stay unique, one default |
| reference clients (`repl.rs`) | the line in progress | prompt, send, read a reply | a reply that never comes, replies in any pieces | no exchange out of step, no wait for a reply to a line that was not sent |

Interactions: `start` calls `open` for each protocol, then `serve`, which runs
one `serve_one` thread per protocol under one `AtomicBool`. `serve_one` calls
`proxy`, which runs the pump on its own thread and the reader on a second one,
with an `mpsc` channel, a second `AtomicBool` and the client socket between them.
Clients interact through the socket, processes through the socket files.

## Modules

| Module | Models |
|---|---|
| `Relay` | what an attached client is promised: two ordered pipes, up until one end hangs up |
| `Proxy` | `proxy` and its two threads; refines `Relay` |
| `ProxyProofs` | its shutdown protocol, types, conservation in both directions, and the refinement, proved |
| `FlattenProofs` | recursive functions without induction: what a sequence of chunks concatenates to, and folds over a sequence |
| `Worker` | what `serve` counts on in each of its workers |
| `Session` | `serve_one` and `Session::noop`; refines `Worker` |
| `SessionProofs` | types, the keepalive, the stream it leaves behind and the refinement, proved |
| `Accounts` | `declared_protocols` and `select_protocols` |
| `Daemon`, `MCDaemon` | the `Start` command, `open`, `bind`, `serve`, exit, kill and restart |
| `DaemonProofs` | types, opening before binding, the reason of every exit, the selection of protocols, and that its workers are `Worker`s, proved |
| `SocketProofs` | who owns which socket file, proved |
| `Greeting` | `managesieve_greeting` and `quote`, and the library that reads them |
| `Repl`, `MCRepl` | the three reference clients of `repl.rs`, over `Greeting` |
| `ReplProofs` | the greeting read back byte by byte, and the prompts in step, proved |
| `Servers` | the protocol table, `parse_server`, `resolve_connection`, and the blocks the wizard writes, as operators |
| `Discover`, `MCDiscover` | `wizard::discover::run`, over `Servers` |
| `DiscoverProofs` | the wizard's blocks, its chain of probes and its credential, proved |
| `Configure`, `MCConfigure` | the configuration file and the commands that read and write it |
| `ConfigureProofs` | what saving and appending keep, proved |

### Proxy

`ppc` is where the pump's thread stands, which is also the thread of `proxy`:
`enter` and `clone` before the reader is spawned; `check`, `read`, `forward`,
`recv`, `write` in the loop (the flag test, the upstream read, the blocking write
to the client, `try_recv`, `write_upstream`); `restore`, `clear`, `shut` after
it; `join` until the reader is done. `rpc` is the reader: `check`, `read`,
`send`, `stop`, `done`. A blocking call is an action that is not enabled, a
`WouldBlock` is an action of its own. `c2r`, `p2u`, `u2p`, `p2c` are kernel
buffers with `SockCap` units, `rbuf`, `chan`, `pchunk`, `pbuf` what the two
threads hold. The sleeps are left out: they change no state.

The client sends, reads, ends its stream or closes; a Unix socket closed with
unread data resets its peer, so `ReaderFails` is reachable. The server reads a
command only while it owes no more than `Backlog` units, answers in order, and
may close or reset. Units are numbered by their sender, which is what lets the
invariants say lost, repeated or reordered.

`Relay` is `opening` until the client socket is duplicated (`Phase`), `up` while
the pump is in its loop and `down` from the clean-up on; one that cannot be set up
is refused from `opening`, with nothing promised to whoever wrote into it.

### Session

`pc` follows one turn of the loop. The proxy phase is summarised by what it does
to the loop: `BackToLoop("blocking")` after the threads ran, which theorem
`HandsBack` of `ProxyProofs` justifies, and `BackToLoop("nonblocking")` when
`proxy` returned before them. `asked` and `answers` are the two directions of
the upstream stream, each entry naming who asked and whether it is a NOOP. The
protocol libraries are external; what they take for the NOOP's answer is in
`Skipped` and `Accepted`: IMAP reads on to its tag, SMTP takes the next reply,
ManageSieve takes the next reply and `Session::noop` then looks at its echo. The
read deadline may pass at any moment before the answer is there, so a slow and a
silent server are the same environment. `idle` is `last_keepalive.elapsed()` in
turns of the poll; `quiet` is the same clock seen from the server, kept only for
the properties.

Clients come back for ever, connect and give up before they are accepted, and
leave whatever they left: answers nobody read, or half a command
(`ClientAsksInPart`). Bytes that follow half a command become its second half,
the NOOP's included, or are swallowed by a literal that has room left: `Ask` is
everything that goes up the stream, with that choice. `Around` is what clients,
the server and a sibling do while the loop runs; once it has ended nothing around
it is of interest.

`Kinds` is the set of protocols a run looks at, `protocol` the one the upstream
speaks. `smooth` tells the days on which clients collect their answers and speak
right before they leave and no descriptor is refused; `Smooth` says which days a
run has. The invariants that need one say so in their first conjunct, and
everything else is checked on every day.

### Daemon

Each process is a service unit: `serves` is what `SelectProtocols` makes of its
command line (all the account declares, one, one named twice, one that is not
declared, which is `StartRefused`). A process has a `phase`; `look`, `remove` and
`create` are the three calls `bind` makes on the file system, so that two
processes can interleave in between. The path is the block's own `sock-file` or
the derived one (`SockPath`). A worker is at its flag test (`check`), past it
(`accept`), with a client, returned (`left`), or done with clearing the flag
(`done`). `Worker` says what of a worker matters here: it fails only between
clients, it stops only at the test, and it returns Ok only with the flag down.
`Session` implements it (`ServesAsWorker`), and the workers of `Daemon` take steps
of it only (`ServesWithWorkers`), and may take each (`WorkersAreServed`). `join` waits for all and the status is the first error.
Exit, of any kind, releases everything but the socket files. Release builds abort
on panic, so a panicking worker is a kill.

Units are `Apart` when no two of them that were ever started serve the same
protocol: one unit per protocol, or one for the whole account.

### Greeting and Repl

`Greeting` renders a capability byte by byte as far as the quoting looks (quote,
backslash, line ends, anything else) and reads it back as the client's library
does, a machine that takes one byte at a time (`ReadByte`). `Repl` is a client attached to the relay, which is here the two pipes of
`Relay`: `ImapRead` reads once per prompt and shows what `progress` finds
complete, `ReplyRead` reads line by line up to the one it takes for the last
(SMTP), or a whole response (ManageSieve). A reply is a sequence of pieces, a
line, its last line, a literal, or a part of either, delivered in one go
(`atonce`) or in any pieces, and the daemon may close at any moment. The greeting
is reply 0. A last line of SMTP may be bare, a code with nothing behind it, which
`Ends` does not take for one. An empty line is sent by the IMAP client, behind its
tag (`Enter`), and skipped by the other two (`EnterEmpty`). Not every line has a
reply: those of an SMTP message have none, nor has one that announces a literal or
lies within it (`ServerTakes`, the server's choice, `taken` remembers it). `Stuck`
names the two waits for nothing that follow from this. What a server says unasked,
`EXISTS` or `421`, is not modelled.

### Servers and Discover

A `server` string is its parts, an optional value a set of at most one element,
so that `None` is the empty set and `map` a set comprehension. `Servers` has the
protocol table, the parser, `ResolveConnection` with the defaults it fills in,
and on the other side the builders that leave a default out: the two have to
agree, and `ConnectsAsFound` says they do. `Security` is what `connect` asks the
protocol's library for. TLS profile, ALPN and allow-cleartext-auth are passed on
unchanged and left out.

`Discover` starts at the prompt. An email address, a domain and a URL each take
their own way (`InputEmail`, `InputDomain`, `InputUrl`); `sources` is what is
left of the chain, and a probe answers with a miss or with any document of its
constant, converted as the source converts it. `PromptSasl` picks the mechanism
and builds the blocks; each `Test` is one pass of the loop of `run`, with the
secret's cache (`cached`) and the number of times its command was started
(`spawned`). A build without the `sieve` feature (`HasSieve = FALSE`) writes no
`sieve` block, and hands back an account without any block when ManageSieve is all
it found.

### Configure

A run of the program is a bare `sirup`, `sirup configure`, or a command that
needs an account (`"use"`, for `start` and `repl`); `request` holds its command
line and where its streams lead. The target file is absent or a sequence of
accounts, line ends and garbage (`Items`; an account has a name, of a label and a
suffix, may be the default, and is a table under its own header or written inline,
`accounts = { ... }`): enough to say that a document parses (an account starts a
line, names are unique, `accounts` is there, and nothing is added to an inline
one). `Wizard` stands for the
whole of `Discover`, and computes name and default from the snapshot that `Read`
took. Saving is `SaveOpen` and `SaveWrite`, as `fs::write` empties a file before
it fills it; appending is one action per write that `write!` issues. `Aborts` is
a prompt that is left, a failing call or a kill. Other runs and `Edit`, the user's
editor, change the file at any moment; `stale` remembers under whom.

## Runs

| Run | Shows |
|---|---|
| `Proxy_safety` | conservation and order of both directions, what is handed back, no spurious end; 3 commands, 2-unit replies, 2-unit buffers, clones may fail |
| `Proxy_progress` | `Proxy` implements `Relay`; termination after a hang-up, delivery both ways; 1-unit buffers, a server that reads on while it owes |
| `Proxy_lastcommand` | violated: a command followed by the end of the client's stream is forwarded |
| `Proxy_parked` | violated: neither direction parks the other, with a server that answers before it reads on |
| `Session_serve` | each protocol, on smooth days and on any other: NOOP alone (with IMAP whatever clients leave behind), on time and on a blocking stream; a turn that serves on never leaves the stream further out of step than it found it; the loop implements `Worker`; nobody starves in the backlog; a closed upstream left alone and a sibling's failure end the loop |
| `Session_masked` | violated: the ManageSieve NOOP only ends on its own answer |
| `Session_early` | violated: a client cannot end the run |
| `Daemon_start` | two service units on one account of two protocols, any command line each, failures, kills and restarts: sessions before sockets, no end without a failure, a failed worker ends its process, given that clients leave; units apart are reached at their sockets, and clear stale files only |
| `Daemon_half` | violated: a failed worker ends the process, with a client that stays |
| `Discover_wizard` | the wizard over all documents and URLs of `MCDiscover`: blocks connect where discovery said, never in the clear, all sources asked, one credential |
| `Configure_file` | two runs of the program and an editor on one file: appending to a file nobody else touched, with no account inline, keeps it parsing, write by write; a saved account is reached as reported; nothing read is overwritten; a command goes on with the account its first run saved |
| `Repl_lockstep` | the three clients: at a prompt the whole reply is on the screen and nothing is under way, with IMAP when replies come in one go; a ManageSieve greeting reads back as advertised; every line brings the user back to a prompt or to the end, but for lines the server takes without a reply and for SMTP's bare last lines |

Deadlock is checked in every run; `Returned`, `Stopped` and `Over` are the explicit
stutters of a component whose function has returned.

**Bounds.** `Cmds`, `ReplyLen`, `SockCap`, `ReadMax` and `Backlog` bound the
traffic. Two units of buffer and two-unit replies are enough for a short write, a
chunk of several units, a full socket and a partly forwarded reply to occur
together with every hang-up; three commands put one in the channel, one in hand
and one unread. `Proxy_parked` needs four commands, one for each place a unit
can wait before the client blocks. In `Session_serve` two clients are enough for one
to read what another left, `Interval` is one tick, `MaxPending` bounds the
answers under way, and `MaxQuiet`, above `Interval`, stops the clock where
exceeding the interval is already visible. `MCDaemon` has an account of IMAP and
SMTP whose SMTP block names its socket itself, so that one protocol binds or
fails while the other does something else, four command lines, and two units,
enough for one to disturb another; the theorems hold for any number of both.
`MCRepl` has replies of one line, of two, of a line in two parts and, but for
SMTP, with a literal, with SMTP ones that end in a bare line, two lines entered after the greeting, and values of up to
two bytes with every byte the quoting looks at in every place.
`MCDiscover` has every protocol and encryption, with the default port
of each and one that is nobody's default, and lists of servers in which the first
one is of another type or has no host. `MCConfigure` has files in which the label
is free, taken, or taken with its first suffix, with and without a default and a
terminated last line, one with its account inline, and one that does not parse; two runs, interchangeable
(symmetry), so that one writes between the snapshot and the append of the other.

**Fairness.** The threads (weakly fair: no lock stands between them, and the
operating system schedules them); in `Proxy`, peers that read what they are sent;
in `Session` and in `Daemon`'s `Spec`, clients that leave some day, as the
documentation calls them short-lived; in `Repl`, the client's process and a
server that answers, or takes, what it is sent, without which no client could be
prompted again. Nothing forces a server to answer the daemon, a client to send, or anything
to fail. On a smooth day of `Session` a client waits for its answers before it
leaves, which a silent server may put off for ever: `SiblingEnds` and
`EveryoneServed` are about the other days. `ThreadSpec` drops the clients' part.

## What is proved

For every value of the constants, under the assumptions named in the modules:

- `ProxyProofs`: `HandsBack` and `OnlyAnEndpointEnds`. `CleanUp` strengthens
  `HandedBack` with the order of the clean-up and with the fact that the pump
  holds reply data only in `forward` and command data only in `write`;
  `BothAtWork` strengthens `NoSpuriousEnd` with the state before the reader is
  spawned and with `shut` implying that the pump is past its clean-up. No
  sequence reasoning is needed, so neither traffic nor buffer sizes matter.
  Then `RelayTypeOK`; `NoCommandLost` and `NoReplyLost`, from `Carried`:
  types, the clean-up order, and the fact that the reader holds data only between
  its read and its send, which is what makes a read into an empty buffer an
  append. Each step takes the front of one buffer to the end of the next, so each
  is one law of concatenation. `ImplementsRelay`: every behaviour of `Proxy` is
  one of `Relay`, under the mapping `Proxy_progress` checks and whether or not the
  client socket can be duplicated. Ends of the relay cut both pipes where the
  kernel buffers end.
- `FlattenProofs`: the channel carries chunks, and `Proxy` speaks of the units in
  them. Induction over data being out of the prover's reach, what a recursive
  function computes is obtained from the least counterexample (`LeastOne`):
  `Stepwise` gives, for any functions to apply in turn, the sequence of their
  results, `FlattenIs` identifies it with `FlattenSeq`, and appending or taking a
  chunk does to the units what it should.
- `SessionProofs`: `TypeCorrect`, which includes that nobody is queued twice and
  that the timer never passes the interval; `ImplementsWorker`, action by action,
  and `OkMeansStopped` from it; `NoopIsAlone`, from
  `Tagged` for IMAP (no NOOP under way outside its exchange, never two) and from
  `Orderly` elsewhere (on a smooth day the stream is empty between clients);
  `KeepaliveNeverDrifts`, on every protocol and every day, from types alone, action
  by action: a NOOP adds one entry to the stream or completes the half command in
  front of it, and only an answer taken off, or the end of the run, gets the loop
  past it; `KeepaliveHolds`, from `LoopInv`: between clients the
  server's silence is at most `idle`, and `idle` at most the interval.
- `DaemonProofs`: `TypeCorrect`; `NothingBoundHalfOpen`, from `Staged`, the
  stages of a start; `StopsOnlyForAFailure` and `EveryExitIsAFailure`, from
  `Accounted`: an outcome is known exactly when its worker left, and the first
  to be known is a failure. `ServesWithWorkers`: from the moment a process serves,
  each of its protocols is at the start of `Worker` and takes steps of it only,
  whatever this process or another does. `WorkersAreServed` is the other half: each
  step `Worker` takes by itself is an action of `Daemon`, if failures may happen at
  all, so that with `ImplementsWorker` no behaviour of the accept loop escapes what
  is proved of `Daemon`. `SelectedOnce`: what `SelectProtocols` folds a
  command line into names each protocol once.
- `SocketProofs`: `UnitsAreReached`, `RestartsFindTheirPaths` and `StaleOnly`, for
  any number of units, from `OwnedInv`: a listener is the one its file names, a
  start has bound what it has passed, and any file, stale ones included, is at the
  path of the protocol its process serves. One hypothesis, `PathsDiffer`: no two
  protocols share a path, which a user can break (see below).
- `DiscoverProofs`: `AlwaysEncrypted`, `ConnectsWhereTold`, `EverySourceIsAsked`
  and `CredentialAskedOnce`, for any documents and URLs. `OverrideRestored` is the
  heart of the first two: a switch left out because it restates a default is the
  switch resolution fills in. `EndpointBlock` and `UrlBlock` carry it through
  the server string, and `WizardInv` says of every reachable account that its
  blocks are those of what was found or given, with one credential.
- `ConfigureProofs`: `AppendIsSafe`, `SavedReached`, `FirstRun` and
  `NothingIsLost`, for any documents, labels and number of runs, from `SavedInv`,
  which says of each run what it is about to write and why (`Planned`), that the
  file is still what it read until its table is in (`Kept`), and that a file it
  creates was not there (`Created`). The first two are about files with no account
  inline (`Appendable`). A run is disturbed only by being made stale
  (`Undisturbed`), so each action is looked at for the run that takes it.
- `ReplProofs`: `GreetingIsFaithful`, for any capabilities and values of any bytes.
  `RoundTrip` follows the reader over a quoted value: after the bytes of its first
  `i` it is inside the string and has taken those of the first `i` that are no line
  ends, which holds for every `i` by the least counterexample, and the closing
  quote puts it behind. `Greeted`: the greeting is read once, before the first line
  goes out. `PromptsInStep`, for any replies and any number of lines, from
  `Dialogue`, which says whose turn it is (`InTurn`): at a prompt nothing is under
  way and the last piece of the reply is on the screen; a client that reads waits
  for an answer to its line, for a reply under way that ends in its last piece and
  nowhere before, or is `Stuck`. `Pipes` types what is under way. `WaitsAreOwed`,
  from the same invariant, is the safety half of `PromptReturns`: a client that
  waits with nothing under way is `Stuck`, and waits for no reply to a line it
  never sent.

Only model-checked: the liveness properties (`EndsAfterHangUp`, `Delivered`,
`EveryoneServed`, `DeadUpstreamEnds`, `SiblingEnds`, `FailureEndsRun`,
`PromptReturns`), fairness and ENABLED being outside the prover, and the five
violations. Every safety property a passing run checks is also a theorem.

## Where code and documentation part

Five of the runs above are violations, each of a sentence of the repository; the
manifest quotes it. In short: a client's last command can be dropped; a full
upstream can park both directions; a ManageSieve keepalive accepts an answer
without echo; a client gone before its greeting ends the run; and an attached
client keeps a half-dead process alive.

More disagreements are visible in the modules and bound what the passing runs
assume:

- a failed `try_clone` leaves the stream non-blocking (`session.rs:614`):
  `KeptWarm` is about smooth days, `HandedBack` about a proxy whose threads ran, and
  `Relay` may refuse a client before it is up;
- a visit restarts the timer even if nothing was said (`session.rs:589`): on a
  smooth day clients speak before they leave;
- an upstream that dies under a client is only logged (`session.rs:584`):
  `DeadUpstreamEnds` is about an upstream that clients leave alone in the end, for
  those that keep attaching keep the NOOP from ever finding out;
- answers and half commands a client leaves behind reach the next one, on every
  protocol, and outside IMAP the NOOP: no property says that a client reads its own
  answers, and `NoopAlone` is about smooth days but for IMAP. There it rests on tags
  that clients do not share with sirup, which `session.rs:171` declines to promise.
  `NoDrift`, on every day, says that the keepalive makes it no worse;
- `bind` removes whatever socket it finds (`session.rs:499`): a second unit for
  the same protocol takes the socket of the first, hence `Apart`; and two blocks
  of one account that name the same `sock-file` would take each other's within one
  start, hence `PathsDiffer`.

Three in the reference clients:

- the IMAP client reads once per prompt (`repl.rs:48-49`), so a response that
  comes in several chunks, or with a literal in it, leaves it behind by as much:
  `InStep` is about IMAP replies in one go;
- an SMTP reply without text, `250` and a line end, is never taken for a last
  line (`repl.rs:151`, `183`), and the client reads on for ever;
- a line of an SMTP message's body has no reply, nor has one with an IMAP or a
  ManageSieve literal under way, and the client reads one all the same
  (`repl.rs:175`): it waits for ever, and keeps the daemon's place for a client.
  `PromptReturns` excepts these two waits by name (`Stuck`) and rules out any other.

And five in the wizard and its file:

- a file that does not parse makes a bare `sirup` raise the offer
  (`main.rs:96-101`, `MeetBare`), where the comment above it and the specification
  say it counts as a configuration; the offer then fails in `Read`;
- a file created during the dialogue is emptied by `fs::write`
  (`configure.rs:237`), and a file changed during it may get a second table of one
  name or a second default: `NothingLost`, `AppendKeepsParsing` and
  `SavedIsReached` are about files nobody else touched;
- a file that writes its accounts inline, `accounts = { ... }`, is accepted
  (`config.rs:44-58`), and appending an `[accounts.<name>]` header to it
  (`configure.rs:259-264`) makes it stop parsing: excepted in `AppendKeepsParsing`
  and `SavedIsReached`;
- a label that reads `default` gives an account that the report says to reach
  with `-a default` (`configure.rs:283`), which names whichever account is the
  default: excepted in `SavedIsReached`;
- an endpoint announced without encryption is written as implicit TLS on its
  plaintext port (`discover.rs:447`): excepted in `ConnectsAsFound`.

## Plan

Done, in this order, the riskiest first: `Relay`, `Proxy`, `Session`, `Daemon`,
`Servers`, `Discover` and `Configure`, then `Accounts`, `Greeting`, `Repl` and
`Worker`, with the proofs above. Left: invariants of `Relay` and of `Worker` alone,
stated once and read off their refinements, and types of `Discover` and of
`Configure` as theorems of their own.

## Not modelled

Command-line parsing, logging, spinners, manual and completion output, the JSON
schema, TLS and SASL (the libraries'), the keyring and secret prompts, which have
no state of their own, the rendering of TOML (`AccountConfig::render` is a table in
`Configure`), and the single protocol `sirup repl` picks, which changes nothing.
`connect` is modelled by what it asks the libraries for and by its outcome. A
failing `fcntl` and thread creation that fails are left out as states no test of
the code could tell from an abort.
