SPECIFICATION ThreadSpec
CONSTANTS
    Blocks <- MCAllBlocks
    CommandLines <- MCBare
    Paths <- MCPaths
    SockFile <- MCSockFile
    DerivedPath <- MCDerivedPath
    Secrets <- MCSecrets
    SecretOf <- MCSecretOf
    Procs = {d1}
    NoProc = nobody
    MayFail = TRUE
    MayCrash = TRUE
PROPERTIES
    FailureEndsRun
