SPECIFICATION Spec
CONSTANTS
    Cmds = 3
    ReplyLen = 2
    Backlog = 2
    SockCap = 2
    ReadMax = 2
    CloneMayFail = TRUE
INVARIANTS
    TypeOK
    CommandsConserved
    RepliesConserved
    HandedBack
    NoSpuriousEnd
