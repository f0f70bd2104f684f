SPECIFICATION Spec
CONSTANTS
    N = 7
    Word = 9
INVARIANTS
    SignatureVerifies
    FastAgrees
