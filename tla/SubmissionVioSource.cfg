SPECIFICATION SubmissionSpec
CONSTANTS
    MaxDocument = 2
    MaxRecording = 3
    MaxAudioSources = 1
    MaxSeconds = 3
    MaxTotalSeconds = 4
    MixedEnabled = TRUE
    Files <- MCFiles
    References <- MCReferences
    Texts <- MCTexts
    Ids = {a, b}
    Blank = blank
    None = None
    MaxSources = 2
    MaxTotal = 4
    MaxParts = 3
INVARIANT SameFingerprintSameSource
CHECK_DEADLOCK FALSE
