\* One record altered, lost, repeated or overtaken, sequence numbers that wrap after
\* two records, a server that receives in a loop, a receive timeout at the client,
\* applications that stop at the first failed call.
CONSTANTS
    Client = Client
    Server = Server
    MaxPlaintext = 2
    SendSizes = {3}
    RecvSizes = {1, 2}
    SeqMod = 2
    MaxRecords = 3
    MaxFaults = 1
    Timeouts = {Client}
    Readers = {Server}
    Persistent = FALSE
SPECIFICATION FairSpec
INVARIANTS
    PrefixDelivered
    CompleteAtNotify
PROPERTIES
    AcceptInOrder
    ImplementsStream
    EventuallyDelivered
    ShutdownReturns
CHECK_DEADLOCK FALSE
