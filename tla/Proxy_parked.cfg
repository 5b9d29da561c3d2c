SPECIFICATION Spec
CONSTANTS
    Cmds = 4
    ReplyLen = 3
    Backlog = 3
    SockCap = 1
    ReadMax = 1
    CloneMayFail = FALSE
PROPERTIES
    NeitherDirectionParks
