SPECIFICATION Spec
CONSTANTS
    Clients = {c1}
    Daemon = sirup
    Kinds = {"imap"}
    Interval = 1
    MaxQuiet = 2
    MaxPending = 2
    Smooth = {TRUE}
PROPERTIES
    ClientCannotEndRun
