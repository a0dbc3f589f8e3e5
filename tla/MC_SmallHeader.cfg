\* A header region shorter than the 32-byte fixed header.
CONSTANTS
    Types       <- MC_Types
    Versions    <- MC_Versions
    HeaderSizes <- MC_SmallHeaderSizes
    HashAlgs    <- MC_HashAlgs
    SigAlgs     <- MC_SigAlgs
    Firmwares   <- MC_Firmwares
    SignKeys    <- MC_AllKeys
    CertModes   = {FALSE, TRUE}
    CertSizes   <- MC_CertSizes
    CertKeys    <- MC_CertKeys
    PadDeltas   <- MC_PadDeltas
    PadAligns   <- MC_PadAligns
SPECIFICATION Spec
\* The script ends after save or after an exception.
CHECK_DEADLOCK FALSE
INVARIANTS
    DigestCoversImage
