\* The header's signature-algorithm code against the signing key: an
\* Ed25519 key, which has a code of its own.
CONSTANTS
    Types       <- MC_Types
    Versions    <- MC_Versions
    HeaderSizes <- MC_HeaderSizes
    HashAlgs    <- MC_HashAlgs
    SigAlgs     <- MC_SigAlgs
    Firmwares   <- MC_Firmwares
    SignKeys    = {"Ed25519"}
    CertModes   = {FALSE, TRUE}
    CertSizes   <- MC_CertSizes
    CertKeys    <- MC_CertKeys
    PadDeltas   <- MC_PadDeltas
    PadAligns   <- MC_PadAligns
SPECIFICATION Spec
\* The script ends after save or after an exception.
CHECK_DEADLOCK FALSE
INVARIANTS
    SigAlgMatchesKey
