\* One disturbance, both protocols, with and without receive timeouts.
CONSTANTS
    Client = Client
    Server = Server
    MaxFaults = 1
    MaxData = 2
    Configs <- MCConfigs
SPECIFICATION FairSpec
INVARIANTS Authenticated ReadyForData DataInOrder FailsForAReason
PROPERTIES ImplementsAgreement Returns LearnsOfRefusal
CHECK_DEADLOCK FALSE
