SPECIFICATION Spec
CONSTANTS
    Modes = {"cbc_dec"}
    B = 3
    Sbytes = 2
    DataUnit = 4
    GcmTag = 2
    HmacTag = 4
    CtrMod = 5
    MaxLen = 14
    ToolModes = {"cbc_dec"}
    Piece = 9
INVARIANTS
    ToolIsOneShot
