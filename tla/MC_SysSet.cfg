\* One run of sysset.py over every configuration and -t type.
CONSTANTS
    Configs  <- MC_Configs
    RunTypes <- MC_RunTypes
    OldFiles <- MC_OldFiles
SPECIFICATION Spec
\* The script ends after one run of main().
CHECK_DEADLOCK FALSE
INVARIANTS
    TypeOK
    SysSetReadsBack
PROPERTIES
    FailedRunKeepsFile
