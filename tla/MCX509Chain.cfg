CONSTANTS
    EntityCerts <- MCEntityCerts
    CaCerts <- MCCaCerts
    RootLists <- MCRootLists
    Crls <- MCCrls
    Verifiers <- MCVerifiers
    Now = 1
    MaxValidity = 5
    MaxCas = 2
SPECIFICATION Spec
INVARIANTS AcceptsOnlyPaths RefusesForAReason
CHECK_DEADLOCK FALSE
