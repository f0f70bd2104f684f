CONSTANTS
    Client = Client
    Server = Server
    MaxFaults = 2
    Timeouts = TRUE
    Crashes = TRUE
SPECIFICATION Spec
INVARIANTS UnalteredView Authenticated ReadyForData KeyFromServer
PROPERTY ImplementsAgreement
CHECK_DEADLOCK FALSE
