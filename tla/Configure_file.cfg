SPECIFICATION Spec
CONSTANTS
    Runs = {r1, r2}
    Labels = {"example", "default"}
    Handmade <- MCHandmade
    Requests <- MCRequests
SYMMETRY Symmetry
INVARIANTS
    AppendKeepsParsing
    SavedIsReached
    FirstRunWorks
PROPERTIES
    NothingLost
