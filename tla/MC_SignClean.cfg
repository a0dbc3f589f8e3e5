\* The pipeline with the keys that hold private material (or none), the
\* versions and certificate sizes that overflow the header's fields, and
\* the save that may fail: a failing sign leaves the image as loaded.
CONSTANTS
    Types       <- MC_Types
    Versions    <- MC_Versions
    HeaderSizes <- MC_HeaderSizes
    HashAlgs    = {"SHA256", "SHA384"}
    SigAlgs     <- MC_SigAlgs
    Firmwares   <- MC_Firmwares
    SignKeys    <- MC_PrivateKeys
    CertModes   = {FALSE, TRUE}
    CertSizes   <- MC_CertSizes
    CertKeys    <- MC_CertKeys
    PadDeltas   <- MC_PadDeltas
    PadAligns   <- MC_PadAligns
SPECIFICATION FSpec
\* The script ends after save or after an exception.
CHECK_DEADLOCK FALSE
INVARIANTS
    SignFailsCleanly
