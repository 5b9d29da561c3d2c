SPECIFICATION Spec
CONSTANTS
    Clients = {c1}
    Daemon = sirup
    Kinds = {"sieve"}
    Interval = 1
    MaxQuiet = 2
    MaxPending = 2
    Smooth = {FALSE}
PROPERTIES
    NoopTakesItsOwn
