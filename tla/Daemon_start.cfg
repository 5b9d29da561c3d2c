SPECIFICATION Spec
CONSTANTS
    Blocks <- MCBlocks
    CommandLines <- MCLines
    Paths <- MCPaths
    SockFile <- MCSockFile
    DerivedPath <- MCDerivedPath
    Secrets <- MCSecrets
    SecretOf <- MCSecretOf
    Procs = {d1, d2}
    NoProc = nobody
    MayFail = TRUE
    MayCrash = TRUE
INVARIANTS
    TypeOK
    OpenBeforeBind
    StopsForAFailure
    NeverExitsClean
    ReachedAtItsSockets
    PathIsFree
PROPERTIES
    OnlyStaleRemoved
    FailureEndsRun
