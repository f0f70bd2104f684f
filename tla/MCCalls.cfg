\* A program ends: the tools return to the shell.
SPECIFICATION Spec
CONSTANT Programs <- AllPrograms
INVARIANTS
    GivesBack
    SecretsErased
    UsesWhatItHas
    HonestStatus
CHECK_DEADLOCK FALSE
