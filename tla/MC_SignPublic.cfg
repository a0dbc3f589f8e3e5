\* sign with a public-only key: the AttributeError comes after add_header
\* has already rewritten the header region.
CONSTANTS
    Types       <- MC_Types
    Versions    <- MC_Versions
    HeaderSizes <- MC_HeaderSizes
    HashAlgs    <- MC_HashAlgs
    SigAlgs     <- MC_SigAlgs
    Firmwares   <- MC_Firmwares
    SignKeys    <- MC_PublicKeys
    CertModes   = {FALSE, TRUE}
    CertSizes   <- MC_CertSizes
    CertKeys    <- MC_CertKeys
    PadDeltas   <- MC_PadDeltas
    PadAligns   <- MC_PadAligns
SPECIFICATION Spec
\* The script ends after save or after an exception.
CHECK_DEADLOCK FALSE
INVARIANTS
    SignFailsCleanly
