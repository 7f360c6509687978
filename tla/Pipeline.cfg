SPECIFICATION FairSpec
INVARIANTS
    CompletedMeansVerified
    CoverageIsTrue
    OnePrimaryRequirement
    FailureIsReported
PROPERTY Ends
CONSTANTS
    d1 = d1
    a1 = a1
    Audio <- MCAudio
    Inputs <- MCInputs
    Extractions <- MCExtractions
    MaxRequirements = 3
    MaxProposals = 1
    MaxRepairs = 1
    Radix = 2
CHECK_DEADLOCK FALSE
