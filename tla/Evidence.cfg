SPECIFICATION Spec
CONSTANTS
    Chunks = {1, 2}
    Sources <- MCSources
    TopK = 2
    MaxEvidence = 2
    MaxQuotes = 2
INVARIANTS
    LexicalLeads
    PublishedQuotesSupport
    RecoveredFromDeclaredSource
    ReviewIsAccountedFor
CHECK_DEADLOCK FALSE
