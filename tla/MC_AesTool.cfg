\* aestool.py runs of a build over the regions of one flash layout.
CONSTANTS
    Offsets <- MC_Offsets
    InSizes <- MC_InSizes
    Types   <- MC_Types
    KeyStrs <- MC_HexKeys
    HexLen  = 4
SPECIFICATION Spec
INVARIANTS
    NoKeystreamReuse
