SPECIFICATION Spec
CONSTANTS
    Hosts <- MCHosts
    PaccAnswers <- MCPaccAnswers
    AutoconfigAnswers <- MCAutoconfigAnswers
    SrvAnswers <- MCSrvAnswers
    InputUrls <- MCInputUrls
    Mechanisms <- MCMechanisms
    HasSieve = TRUE
INVARIANTS
    ConnectsAsFound
    NeverInTheClear
    MissHidesNothing
    OneCredential
