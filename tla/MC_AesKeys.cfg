\* aestool.py with key strings int(s, 16) accepts beyond plain hex digits.
CONSTANTS
    Offsets <- MC_Offsets
    InSizes <- MC_InSizes
    Types   <- MC_Types
    KeyStrs <- MC_OddKeys
    HexLen  = 4
SPECIFICATION Spec
INVARIANTS
    ValidatedKeysAreHex
