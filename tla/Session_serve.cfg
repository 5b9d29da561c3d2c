SPECIFICATION Spec
CONSTANTS
    Clients = {c1, c2}
    Daemon = sirup
    Kinds = {"imap", "smtp", "sieve"}
    Interval = 1
    MaxQuiet = 2
    MaxPending = 2
    Smooth = {TRUE, FALSE}
INVARIANTS
    TypeOK
    NoopAlone
    KeptWarm
PROPERTIES
    ServesAsWorker
    NoDrift
    EveryoneServed
    DeadUpstreamEnds
    SiblingEnds
