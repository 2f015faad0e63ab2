SPECIFICATION StreamSpec
CONSTANTS
    a = a
    b = b
    c = c
    t = t
    long = long
    u = u
    claim1 = claim1
    claim2 = claim2
    empty = empty
    failed = failed
    blank = blank
    garbled = garbled
    failure = failure
    noChoice = noChoice
    end = end
    NoText = empty
    Failed = failed
    Chunks <- MCChunks
    TextOf <- MCTextOf
    BeginningOf <- MCBeginningOf
    Hits <- MCHits
    Queries <- MCQueries
    SettingsRange <- MCSettings
    Openings <- MCOpenings
    Synonyms <- MCSynonyms
    MultiSynonyms <- MCSynonyms
    Templates <- MCTemplates
    MaxVariants = 2
    DenseTop = 2
    LexicalTop = 2
    FinalTop = 2
    RrfK = 1
    DenseWeight = 6
    LexicalWeight = 4
    Scale = 420
    Scores <- MCScores
    MinScore <- MCMinScore
    Overlap <- MCOverlap
    Predicted <- MCPredicted
    noPrediction = noPrediction
    NoPrediction = noPrediction
    Threshold = 65
    Answers <- MCAnswers
    Replies <- MCReplies
    Providers <- MCProviders
    Blank = blank
    Garbled = garbled
    Failure = failure
    NoChoice = noChoice
    End = end
    Unit = 420
    Discount <- MCDiscount
    KValues <- MCKValues
CHECK_DEADLOCK FALSE
INVARIANTS SearchFailureIsPartial ContextIsSound VerdictFollowsEvidence StreamedAnswerIsWhole AblationIsComparable
