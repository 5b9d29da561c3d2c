------------------------------- MODULE Relay -------------------------------
(***************************************************************************)
(* What sirup promises while one client is attached: two first-in          *)
(* first-out pipes, client to upstream and upstream to client, that stay   *)
(* up until one of the two endpoints hangs up ("relays bytes both ways     *)
(* between the client socket and the upstream session until either side    *)
(* closes"), unless they cannot be set up to begin with.  What is under    *)
(* way when the relay ends may be cut off behind some point, and is never  *)
(* reordered, duplicated or invented.                                      *)
(***************************************************************************)
EXTENDS Naturals, Sequences, SequencesExt

VARIABLES phase,                \* "opening", "up" or "down"
          hung,                 \* one of the endpoints has hung up
          toUpstream, toClient, \* under way, per direction
          atUpstream, atClient  \* delivered, per direction

relayVars == <<phase, hung, toUpstream, toClient, atUpstream, atClient>>

Init ==
    /\ phase = "opening" /\ hung = FALSE
    /\ toUpstream = <<>> /\ toClient = <<>>
    /\ atUpstream = <<>> /\ atClient = <<>>

\* One unit more, whatever it is.
ClientSends ==
    /\ phase # "down"
    /\ toUpstream' # <<>> /\ Front(toUpstream') = toUpstream
    /\ UNCHANGED <<phase, hung, toClient, atUpstream, atClient>>

UpstreamSends ==
    /\ phase # "down"
    /\ toClient' # <<>> /\ Front(toClient') = toClient
    /\ UNCHANGED <<phase, hung, toUpstream, atUpstream, atClient>>

UpstreamGets ==
    /\ toUpstream # <<>>
    /\ toUpstream' = Tail(toUpstream)
    /\ atUpstream' = Append(atUpstream, Head(toUpstream))
    /\ UNCHANGED <<phase, hung, toClient, atClient>>

ClientGets ==
    /\ toClient # <<>>
    /\ toClient' = Tail(toClient)
    /\ atClient' = Append(atClient, Head(toClient))
    /\ UNCHANGED <<phase, hung, toUpstream, atUpstream>>

HangUp ==
    /\ hung' = TRUE
    /\ UNCHANGED <<phase, toUpstream, toClient, atUpstream, atClient>>

\* What is under way is kept no further than the oldest part of it.
CutOff ==
    /\ \E n \in 0..Len(toUpstream) : toUpstream' = SubSeq(toUpstream, 1, n)
    /\ \E n \in 0..Len(toClient) : toClient' = SubSeq(toClient, 1, n)
    /\ UNCHANGED <<hung, atUpstream, atClient>>

Opens ==
    /\ phase = "opening" /\ phase' = "up"
    /\ UNCHANGED <<hung, toUpstream, toClient, atUpstream, atClient>>

Refuses == phase = "opening" /\ phase' = "down" /\ CutOff

\* Once it is up, the relay goes down only for an endpoint that hung up.
End == phase = "up" /\ hung /\ phase' = "down" /\ CutOff

Next ==
    \/ ClientSends \/ UpstreamSends
    \/ UpstreamGets \/ ClientGets
    \/ HangUp \/ Opens \/ Refuses \/ End

Spec == Init /\ [][Next]_relayVars
=============================================================================
