SPECIFICATION Spec
CONSTANTS
    Kinds = {"imap", "smtp", "sieve"}
    Commands = 2
    Shapes <- MCShapes
    Capabilities <- MCCapabilities
    AtOnce = {TRUE, FALSE}
INVARIANTS
    InStep
    GreetingReadsBack
PROPERTIES
    PromptReturns
