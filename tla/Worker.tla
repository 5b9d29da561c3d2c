------------------------------- MODULE Worker -------------------------------
(***************************************************************************)
(* What `start` relies on in each of its workers: one serves at most one   *)
(* client at a time, looks at the shared flag between any two, stops with  *)
(* success there and nowhere else, and fails with nobody attached.  What   *)
(* a worker does for its clients and for its upstream is left out.         *)
(***************************************************************************)
VARIABLES at,       \* "check", "accept", "client" or "left"
          outcome,  \* what it returned, "none" before it has
          running   \* the flag it shares with its siblings

workerVars == <<at, outcome, running>>

Init == at = "check" /\ outcome = "none" /\ running = TRUE

Goes(from, to) == at = from /\ at' = to /\ UNCHANGED <<outcome, running>>

Polls   == running /\ Goes("check", "accept")
Idles   == Goes("accept", "check")
Accepts == Goes("accept", "client")
Frees   == Goes("client", "check")

Returns(from, res) ==
    /\ at = from /\ at' = "left" /\ outcome' = res
    /\ UNCHANGED running

Stops == ~running /\ Returns("check", "ok")
Fails == Returns("accept", "err")

\* What it does itself.
Own == Polls \/ Idles \/ Accepts \/ Frees \/ Stops \/ Fails

\* By a sibling at any moment, or on its own behalf once it has left.
FlagFalls == running' = FALSE /\ UNCHANGED <<at, outcome>>

Next == Own \/ FlagFalls

Spec == Init /\ [][Next]_workerVars

----------------------------------------------------------------------------
(* What serve makes of it: a worker that returned Ok found the flag down,  *)
(* so every other end of one is a failure that ends the whole run.         *)
OkOnlyWhenStopped == outcome = "ok" => ~running
=============================================================================
