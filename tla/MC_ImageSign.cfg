\* The image pipeline load -> sign -> pad_to -> save with every key class,
\* both trust paths, and the inputs that make load, sign and pad_to raise.
CONSTANTS
    Types       <- MC_Types
    Versions    <- MC_Versions
    HeaderSizes <- MC_HeaderSizes
    HashAlgs    <- MC_HashAlgs
    SigAlgs     <- MC_SigAlgs
    Firmwares   <- MC_Firmwares
    SignKeys    <- MC_AllKeys
    CertModes   = {FALSE, TRUE}
    CertSizes   <- MC_CertSizes
    CertKeys    <- MC_CertKeys
    PadDeltas   <- MC_PadDeltas
    PadAligns   <- MC_PadAligns
SPECIFICATION Spec
\* The script ends after save or after an exception.
CHECK_DEADLOCK FALSE
INVARIANTS
    TypeOK
    HeaderChecksumValid
    SignedHeaderDecodes
    SignRaisesOnlyOnBadInput
    DigestCoversImage
    TrailerWellFormed
    PaddedLengthAligned
    CertTrailerSizeMatches
