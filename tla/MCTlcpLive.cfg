CONSTANTS
    Client = Client
    Server = Server
    MaxFaults = 0
    Timeouts = FALSE
    Crashes = TRUE
SPECIFICATION FairSpec
INVARIANTS FailsForAReason
PROPERTIES Returns Completes
CHECK_DEADLOCK FALSE
