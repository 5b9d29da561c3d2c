SPECIFICATION Spec
CONSTANTS
    Cmds = 2
    ReplyLen = 2
    Backlog = 4
    SockCap = 1
    ReadMax = 1
    CloneMayFail = TRUE
PROPERTIES
    RelaysInOrder
    EndsAfterHangUp
    Delivered
