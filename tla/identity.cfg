SPECIFICATION IdentitySpec
CONSTANTS
    Names <- MCNames
    Keys <- MCKeys
    ValidNames <- MCValidNames
    Lower <- MCLower
    Publications <- MCPublications
    Missing = Missing
    Dois = {"doi1", "doi2"}
    NoProof = NoProof
    MaxKeys = 2
INVARIANTS
    IdentityTypeOK
    VerifiedWasSigned
