SPECIFICATION Spec
CONSTANTS
    Cmds = 1
    ReplyLen = 1
    Backlog = 1
    SockCap = 1
    ReadMax = 1
    CloneMayFail = FALSE
PROPERTIES
    SentIsForwarded
