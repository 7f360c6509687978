SPECIFICATION Spec
PROPERTY IssuesAreGroupedByStory
CONSTANTS
    d1 = d1
    a1 = a1
    Audio <- MCAudio
    Inputs <- OneDocument
    Extractions <- TwoAccepted
    MaxRequirements = 2
    MaxProposals = 1
    MaxRepairs = 1
    Radix = 2
CHECK_DEADLOCK FALSE
