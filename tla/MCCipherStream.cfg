SPECIFICATION Spec
CONSTANTS
    Modes = {"ecb", "xts", "xts_dec", "cbc_enc", "cbc_dec", "ctr", "ctr32", "cfb", "cfb_dec", "ofb", "gcm_enc", "cbc_hmac_enc", "ctr_hmac_enc", "gcm_dec", "cbc_hmac_dec", "ctr_hmac_dec"}
    B = 3
    Sbytes = 2
    DataUnit = 4
    GcmTag = 2
    HmacTag = 4
    CtrMod = 6
    MaxLen = 26
    ToolModes = {"ecb", "xts", "xts_dec", "cbc_enc", "ctr", "cfb", "cfb_dec", "ofb", "gcm_enc", "cbc_hmac_enc", "ctr_hmac_enc"}
    Piece = 12
INVARIANTS
    StreamIsOneShot
    NeverAhead
    CounterFresh
PROPERTIES
    OutFits
