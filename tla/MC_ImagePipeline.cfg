\* Key management (generate, exports, create_csr, load in any order over
\* two files, two key pairs and three key objects), then the sign command
\* with the key it loads; any key-file write may fail after the open.
CONSTANTS
    Types       <- MC_Types
    Versions    <- MC_Versions
    HeaderSizes = {0}
    HashAlgs    = {"SHA256"}
    SigAlgs     = {"ED25519"}
    Firmwares   <- MC_Firmwares
    SignKeys    <- MC_AllKeys
    CertModes   = {FALSE}
    CertSizes   = {100}
    CertKeys    = {"None"}
    PadDeltas   = {2}
    PadAligns   = {4}
    Algs        <- MC_Algs
    Paths       <- MC_Paths
    Passwords   = {"secret", ""}
    MaxPairs    = 2
    MaxObjs     = 3
    WriteFaults = {FALSE, TRUE}
SPECIFICATION PSpec
\* The command ends after save, after an exception, or after keys.load raises.
CHECK_DEADLOCK FALSE
INVARIANTS
    PTypeOK
PROPERTIES
    FailedCallKeepsFiles
