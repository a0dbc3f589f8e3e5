\* The pipeline with a save whose write may fail after the open.
CONSTANTS
    Types       <- MC_Types
    Versions    <- MC_OneVersion
    HeaderSizes <- MC_HeaderSizes
    HashAlgs    = {"SHA256", "SHA384"}
    SigAlgs     <- MC_SigAlgs
    Firmwares   <- MC_Firmwares
    SignKeys    <- MC_PrivateKeys
    CertModes   = {FALSE, TRUE}
    CertSizes   = {100}
    CertKeys    <- MC_CertKeys
    PadDeltas   <- MC_PadDeltas
    PadAligns   <- MC_PadAligns
SPECIFICATION FSpec
\* The script ends after save or after an exception.
CHECK_DEADLOCK FALSE
INVARIANTS
    NoPartialImagePersisted
