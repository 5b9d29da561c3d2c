----------------------------- MODULE Configure -----------------------------
(***************************************************************************)
(* The configuration file and the commands that read and write it: a bare  *)
(* sirup and its offer, a command that needs an account, and the wizard's  *)
(* saving and appending.  Several of them run at once, next to a user with *)
(* an editor.  What the wizard asks and tests is module Discover.          *)
(*                                                                         *)
(* A document is a sequence of tables and line ends.  An optional value is *)
(* a set of at most one element, and so is the file.                       *)
(***************************************************************************)
EXTENDS Naturals, Sequences, FiniteSets, SequencesExt

CONSTANTS
    Runs,       \* runs of the program, each once
    Labels,     \* what the wizard derives a name from
    Handmade,   \* documents the user may write
    Requests    \* command lines: the command, where the streams lead, --account

None    == {}
Some(x) == {x}
Option(S) == {None} \union {Some(x) : x \in S}

\* A label, and the suffix that tells it apart: 1 for none.
Name(label, suffix) == <<label, suffix>>
NoName     == Name("", 1)
TheDefault == Name("default", 1)

LineEnd        == [kind |-> "line end"]
Garbage        == [kind |-> "garbage"]
Table(n, dflt) == [kind |-> "table", name |-> n, default |-> dflt]

Names == STRING \X Nat
(* An account is a table under its own header, or it is written inline:    *)
(* `accounts = { ... }`, which nothing can be added to.                    *)
Items == {LineEnd, Garbage}
            \union [kind : {"table", "inline"}, name : Names, default : BOOLEAN]

IsAccount(item) == item.kind \in {"table", "inline"}

\* "use" stands for start and repl.
ASSUME ConfigureAssumption ==
    /\ Labels \subseteq STRING \ {""}
    /\ Handmade \subseteq Seq(Items)
    /\ \A r \in Requests :
          /\ r.cmd \in {"bare", "configure", "use"}
          /\ r.mode \in {"terminal", "redirected", "json", "script"}
    /\ \A doc \in Handmade : \A i, j \in DOMAIN doc :
          (\A k \in {i, j} : IsAccount(doc[k]) /\ doc[k].default) => i = j

VARIABLES
    file,      \* the document at the target path, if there is one
    pc,        \* where each run stands
    request,   \* what each was asked
    snapshot,  \* what ExistingConfig kept of the file
    output,    \* the account generated
    saved,     \* the runs that reported their account as saved
    chosen,    \* the account a command resolved
    stale      \* the runs whose file somebody else changed since they read it

vars == <<file, pc, request, snapshot, output, saved, chosen, stale>>

----------------------------------------------------------------------------
(* Reading a document.                                                     *)

Tables(doc) == {doc[i] : i \in {j \in DOMAIN doc : IsAccount(doc[j])}}
Held(doc)   == {t.name : t \in Tables(doc)}

\* `accounts` is required; an account starts a line, its name is unique, and
\* one that is written inline is the only one.
Parses(doc) ==
    /\ Tables(doc) # {}
    /\ \A i \in DOMAIN doc : doc[i].kind # "garbage"
    /\ \A i \in DOMAIN doc : IsAccount(doc[i]) /\ i > 1 => doc[i - 1] = LineEnd
    /\ \A i, j \in DOMAIN doc :
          IsAccount(doc[i]) /\ IsAccount(doc[j]) =>
              (doc[i].name = doc[j].name \/ doc[i].kind = "inline" => i = j)

\* take_account: an empty name and `default` both mean the default account,
\* of which the map yields any.
Resolves(doc, name) ==
    IF name \in {NoName, TheDefault}
      THEN {t.name : t \in {u \in Tables(doc) : u.default}}
      ELSE Held(doc) \cap {name}

----------------------------------------------------------------------------
\* account_name: the label, suffixed until nothing the snapshot holds.
AccountName(label, existing) ==
    LET taken == UNION {e.names : e \in existing}
        free  == {k \in 1..(Cardinality(taken) + 1) : Name(label, k) \notin taken}
    IN  Name(label, CHOOSE k \in free : \A j \in free : k <= j)

\* A slip: the default claimed by a first account only.
ClaimsWhenFirst(existing) == existing = None

ClaimsDefault(existing) == \A e \in existing : ~e.has_default

\* Another run, or the user, changed the file under those that read it.
Disturbs(p) == stale' = stale \union (Runs \ {p})

\* Where a run goes once the wizard is through.
Onwards(p) == IF request[p].cmd = "use" THEN "again" ELSE "done"

Goes(p, to) == pc' = [pc EXCEPT ![p] = to]

----------------------------------------------------------------------------
(* Slips of the code the runs must notice.  Each stands for one action     *)
(* below and no specification uses it.                                     *)

\* The separating newline forgotten.
AppendLineSkipped(p) ==
    /\ pc[p] = "line"
    /\ Goes(p, "table")
    /\ UNCHANGED <<file, request, snapshot, output, saved, chosen, stale>>

\* Every account written as a new file.
AskSaves(p) ==
    /\ pc[p] = "ask"
    /\ Goes(p, "save") \/ Goes(p, Onwards(p))
    /\ UNCHANGED <<file, request, snapshot, output, saved, chosen, stale>>

\* The first lookup is not repeated.
AgainNot(p) ==
    /\ pc[p] = "again"
    /\ Goes(p, "refused")
    /\ UNCHANGED <<file, request, snapshot, output, saved, chosen, stale>>

----------------------------------------------------------------------------
Init ==
    /\ file \in Option(Handmade)
    /\ pc = [p \in Runs |-> "start"]
    /\ request \in [Runs -> Requests]
    /\ snapshot = [p \in Runs |-> None] /\ output = [p \in Runs |-> None]
    /\ saved = {} /\ chosen = [p \in Runs |-> None] /\ stale = {}

\* A script and a JSON consumer are not offered anything.
MayOffer(p) == request[p].mode \in {"terminal", "redirected"}

\* A bare sirup: a file that does not parse is taken for no configuration.
MeetBare(p) ==
    /\ pc[p] = "start" /\ request[p].cmd = "bare"
    /\ LET configured == \E doc \in file : Parses(doc) IN
          IF ~configured /\ request[p].asked = NoName /\ MayOffer(p)
            THEN Goes(p, "offer") ELSE Goes(p, "done")
    /\ UNCHANGED <<file, request, snapshot, output, saved, chosen, stale>>

CommandConfigure(p) ==
    /\ pc[p] = "start" /\ request[p].cmd = "configure"
    /\ Goes(p, "read")
    /\ UNCHANGED <<file, request, snapshot, output, saved, chosen, stale>>

\* The account of a document that was read, if it holds it.
Chooses(p) ==
    \/ \E doc \in file :
          /\ Parses(doc)
          /\ \E n \in Resolves(doc, request[p].asked) : chosen' = [chosen EXCEPT ![p] = Some(n)]
          /\ Goes(p, "started")
    \/ /\ \A doc \in file : ~Parses(doc) \/ Resolves(doc, request[p].asked) = {}
       /\ Goes(p, "refused") /\ UNCHANGED chosen

\* resolve_account, its first lookup.
Lookup(p) ==
    /\ pc[p] = "start" /\ request[p].cmd = "use"
    /\ IF file = None
         THEN /\ Goes(p, IF MayOffer(p) THEN "offer" ELSE "again")
              /\ UNCHANGED chosen
         ELSE Chooses(p)
    /\ UNCHANGED <<file, request, snapshot, output, saved, stale>>

\* The lookup once the offer was made, whatever became of it.
Again(p) ==
    /\ pc[p] = "again"
    /\ Chooses(p)
    /\ UNCHANGED <<file, request, snapshot, output, saved, stale>>

\* offer_configuration: taken, or declined.
Offer(p) ==
    /\ pc[p] = "offer"
    /\ Goes(p, "read") \/ Goes(p, Onwards(p))
    /\ UNCHANGED <<file, request, snapshot, output, saved, chosen, stale>>

----------------------------------------------------------------------------
\* ConfigureCommand::execute: no terminal, no prompt; a broken file errors.
Read(p) ==
    /\ pc[p] = "read"
    /\ IF request[p].mode = "script" \/ \E doc \in file : ~Parses(doc)
         THEN Goes(p, "aborted") /\ UNCHANGED <<snapshot, stale>>
         ELSE /\ snapshot' = [snapshot EXCEPT ![p] =
                    {[names |-> Held(doc), has_default |-> \E t \in Tables(doc) : t.default]
                        : doc \in file}]
              /\ stale' = stale \ {p}
              /\ Goes(p, "wizard")
    /\ UNCHANGED <<file, request, output, saved, chosen>>

\* The dialogue, and what the snapshot makes of its account.
Wizard(p) ==
    /\ pc[p] = "wizard"
    /\ \E label \in Labels :
          output' = [output EXCEPT ![p] =
              Some([name    |-> AccountName(label, snapshot[p]),
                    default |-> ClaimsDefault(snapshot[p])])]
    /\ Goes(p, IF request[p].mode = "terminal" THEN "ask" ELSE Onwards(p))
    /\ UNCHANGED <<file, request, snapshot, saved, chosen, stale>>

\* save_or_print and append_or_print: declined, the account is printed.
Ask(p) ==
    /\ pc[p] = "ask"
    /\ \/ Goes(p, IF snapshot[p] = None THEN "save" ELSE "open")
       \/ Goes(p, Onwards(p))
    /\ UNCHANGED <<file, request, snapshot, output, saved, chosen, stale>>

Generated(p) == {Table(o.name, o.default) : o \in output[p]}

\* fs::write empties the file, or creates it, and then writes it.
SaveOpen(p) ==
    /\ pc[p] = "save"
    /\ file' = Some(<<>>) /\ Disturbs(p)
    /\ Goes(p, "write")
    /\ UNCHANGED <<request, snapshot, output, saved, chosen>>

\* What somebody else wrote meanwhile is overwritten from its start.
SaveWrite(p) ==
    /\ pc[p] = "write"
    /\ \E t \in Generated(p),
          rest \in IF file \subseteq {<<>>} THEN {<<>>} ELSE {<<>>, <<Garbage>>} :
             file' = {<<t, LineEnd>> \o rest : doc \in file}
    /\ Disturbs(p)
    /\ saved' = saved \union {p} /\ Goes(p, Onwards(p))
    /\ UNCHANGED <<request, snapshot, output, chosen>>

AppendOpen(p) ==
    /\ pc[p] = "open"
    /\ Goes(p, IF file = None THEN "aborted" ELSE "line")
    /\ UNCHANGED <<file, request, snapshot, output, saved, chosen, stale>>

\* write!: each piece is a write of its own, at the end of the file.
Appends(p, item) ==
    /\ file' = {doc \o <<item>> : doc \in file}
    /\ Disturbs(p)

AppendLine(p) ==
    /\ pc[p] = "line" /\ Appends(p, LineEnd)
    /\ Goes(p, "table")
    /\ UNCHANGED <<request, snapshot, output, saved, chosen>>

AppendTable(p) ==
    /\ pc[p] = "table" /\ \E t \in Generated(p) : Appends(p, t)
    /\ Goes(p, "end")
    /\ UNCHANGED <<request, snapshot, output, saved, chosen>>

AppendEnd(p) ==
    /\ pc[p] = "end" /\ Appends(p, LineEnd)
    /\ saved' = saved \union {p} /\ Goes(p, Onwards(p))
    /\ UNCHANGED <<request, snapshot, output, chosen>>

\* A prompt that is left, a failing call, or a signal.
Aborts(p) ==
    /\ pc[p] \in {"offer", "read", "wizard", "ask", "save", "write",
                  "open", "line", "table", "end"}
    /\ Goes(p, "aborted")
    /\ UNCHANGED <<file, request, snapshot, output, saved, chosen, stale>>

----------------------------------------------------------------------------
\* The user writes the file by hand, or removes it.
Edit ==
    /\ file' \in Option(Handmade)
    /\ file' # file
    /\ stale' = Runs
    /\ UNCHANGED <<pc, request, snapshot, output, saved, chosen>>

Ended(p) == pc[p] \in {"done", "aborted", "started", "refused"}
Over     == (\A p \in Runs : Ended(p)) /\ UNCHANGED vars

Run(p) ==
    \/ MeetBare(p) \/ CommandConfigure(p) \/ Lookup(p) \/ Again(p) \/ Offer(p)
    \/ Read(p) \/ Wizard(p) \/ Ask(p)
    \/ SaveOpen(p) \/ SaveWrite(p)
    \/ AppendOpen(p) \/ AppendLine(p) \/ AppendTable(p) \/ AppendEnd(p)
    \/ Aborts(p)

Next == (\E p \in Runs : Run(p)) \/ Edit \/ Over
Spec == Init /\ [][Next]_vars

----------------------------------------------------------------------------
Fresh(p) == p \notin stale

\* What a table can be appended to: no account in it is written inline.
Appendable(doc) == \A t \in Tables(doc) : t.kind = "table"

(* Appending never breaks a configuration that was sound when it was read: *)
(* if nobody else touched it since, it parses, before the append, after    *)
(* each of its writes, and after a kill between two of them.  The name has *)
(* to be free of both the label and its suffixes, and the table to start a *)
(* line although the last one may not be terminated.  A file that writes   *)
(* its accounts inline is excepted: it breaks.                             *)
AppendKeepsParsing ==
    \A p \in Runs :
        Fresh(p) /\ snapshot[p] # None /\ (\A doc \in file : Appendable(doc)) =>
            \E doc \in file : Parses(doc)

(* An account reported as saved is reached the way the report says: without*)
(* `-a` when it claimed the default, being the only one to, and by its name*)
(* otherwise, some account holding the default.  Excepted are a file with  *)
(* accounts written inline, as above, and a label that reads `default`:    *)
(* `-a default` is another name for that account.                          *)
SavedIsReached ==
    \A p \in saved : Fresh(p) /\ (\A doc \in file : Appendable(doc)) =>
        \E doc \in file :
            /\ Parses(doc)
            /\ \A o \in output[p] :
                  IF o.default THEN Resolves(doc, NoName) = {o.name}
                  ELSE /\ Resolves(doc, NoName) \notin {{}, {o.name}}
                       /\ o.name = TheDefault \/ Resolves(doc, o.name) = {o.name}

(* "It never edits one": a run writes over nothing that was in the file    *)
(* when it read it, be it created or appended to.                          *)
NothingLost ==
    [][\A p \in Runs : Fresh(p) /\ pc'[p] # pc[p] =>
          \A doc \in file : \E new \in file' : IsPrefix(doc, new)]_vars

(* "Accepting gives it a chance to work": a command whose first run saved  *)
(* an account goes on with that account.                                   *)
FirstRunWorks ==
    \A p \in saved :
        Fresh(p) /\ request[p].asked = NoName /\ snapshot[p] = None =>
            /\ pc[p] # "refused"
            /\ pc[p] = "started" => chosen[p] = {o.name : o \in output[p]}
=============================================================================
