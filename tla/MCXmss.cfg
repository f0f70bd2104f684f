SPECIFICATION Spec
CONSTANTS
    W = 3
    Len1 = 2
    Len2 = 2
    Height = 2
INVARIANTS
    VerifiesExactly
    OtherDigestNeedsEarlier
