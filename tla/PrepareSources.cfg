SPECIFICATION FairSpec
INVARIANTS
    PermitsConserved
PROPERTIES ContractSpec Prepared
CONSTANTS
    d1 = d1
    a1 = a1
    a2 = a2
    a3 = a3
    Sources <- MCSources
    Audio <- MCAudio
    Inputs <- MCInputs
    SourceConcurrency = 3
    SttConcurrency = 1
CHECK_DEADLOCK FALSE
